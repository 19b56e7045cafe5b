--------------------------- MODULE ArenaPoolProofs ---------------------------
(***************************************************************************)
(* Proofs about ArenaPool, for any number of threads, arenas, slices and   *)
(* metadata blocks: regions and metadata have one owner each, slices are   *)
(* exact, and a request nobody disturbs is met if it can be.               *)
(***************************************************************************)
EXTENDS ArenaPool, FiniteSetTheorems, WellFoundedInduction, TLAPS

Ops == [n : Requests \cup {0}, cnt : 0..MaxArenas, start : Nat, k : Nat,
        new : Arenas \cup {None}, bm : MetaRef, dsc : MetaRef,
        run : Run \cup {None}]

Typed == TypeOK /\ op \in [Threads -> Ops]

(***************************************************************************)
(* What a request has in its hands at each point of alloc_slices.          *)
(***************************************************************************)
Claims == {"commit", "freshCommit", "panicked"}
Makes == {"zallocBm", "zallocDesc", "lock", "add", "publish", "dropRegion"}
Looks == {"search", "commit", "hint"}

Carries(w, o) ==
  /\ w # "idle" => o.n \in Requests
  /\ w \in Claims <=> o.run # None
  /\ w \in {"cursor"} \cup Looks => o.cnt > 0
  /\ w \in Looks => o.k < o.cnt
  /\ w \in {"idle", "cursor"} => o.k = 0
  /\ w \in Makes \cup {"fresh", "freshCommit", "freshHint"} => o.new \in Arenas
  /\ o.bm # NoBlocks => w \in (Makes \ {"zallocBm"}) \cup {"dropBm"}
  /\ w \in {"zallocDesc", "lock", "add", "publish", "dropBm"} => o.bm # NoBlocks
  /\ o.dsc # NoBlocks =>
       /\ w \in {"lock", "add", "publish", "dropRegion", "dropBm", "dropDesc"}
       /\ w = "dropRegion" => o.bm # NoBlocks
  /\ w \in {"lock", "add", "publish", "dropDesc"} => o.dsc # NoBlocks

Control == \A t \in Threads : Carries(pc[t], op[t]) /\ op[t].cnt <= count

(***************************************************************************)
(* The registry: entries below the count are arenas, the thread in         *)
(* add_arena has the lock, and its entry is written before it publishes.   *)
(***************************************************************************)
Registry ==
  /\ \A i \in 0..(count - 1) : arenas[i] \in Arenas
  /\ \A t \in Threads : lock = t <=> pc[t] \in {"add", "publish"}
  /\ \A t \in Threads :
       /\ pc[t] = "publish" => count < MaxArenas /\ arenas[count] = op[t].new
       /\ pc[t] \in {"fresh", "freshCommit", "freshHint"} => op[t].new \in Registered
  /\ RegionsAreAccountedFor

\* An arena in the making, up to the point where others can see it.
Prepared ==
  \A t \in Threads : LET d == desc[op[t].new] IN
    /\ pc[t] \in {"zallocBm", "zallocDesc", "lock", "add", "publish", "fresh"} =>
         d.n = ReserveSize(op[t].n)
    /\ pc[t] \in {"lock", "add", "publish"} =>
         /\ d.bm = op[t].bm /\ d.own = op[t].dsc
         /\ free[op[t].new] = 0..(d.n - 1)

(***************************************************************************)
(* Metadata by owner rather than by block: two owners never hold the same  *)
(* run, and what was written to is free.                                   *)
(***************************************************************************)
Slots == ({"bm", "dsc"} \X Threads) \cup ({"abm", "aown"} \X Arenas)
           \cup {<<"client", None>>}
Ref(s) ==
  CASE s[1] = "bm" -> op[s[2]].bm
    [] s[1] = "dsc" -> op[s[2]].dsc
    [] s[1] = "abm" -> IF s[2] \in Registered THEN desc[s[2]].bm ELSE NoBlocks
    [] s[1] = "aown" -> IF s[2] \in Registered THEN desc[s[2]].own ELSE NoBlocks
    [] s[1] = "client" -> client
DataOf(k) == UNION {DataBlocks(c) : c \in 1..k}

Metadata ==
  /\ \A s \in Slots : Span(Ref(s)) \subseteq DataOf(nchunks) \ metaFree
  /\ \A s, u \in Slots : s # u => Span(Ref(s)) \cap Span(Ref(u)) = {}
  /\ \A x \in DataOf(nchunks) : x \in metaFree \/ \E s \in Slots : x \in Span(Ref(s))
  /\ metaFree \subseteq DataOf(nchunks) /\ dirty \subseteq metaFree

RunsOut == SlicesAreExact /\ \A r \in held \cup Claimed : r.arena \in Registered

(***************************************************************************)
(* A request that could be met and that nothing has disturbed is not on    *)
(* its way to fail, and finds its own arena untouched.                     *)
(***************************************************************************)
OnCourse ==
  \A t \in quiet : pc[t] # "idle" /\ FitsAnArena(op[t].n) =>
    /\ pc[t] \notin {"dropRegion", "dropBm", "dropDesc", "failed"}
    /\ pc[t] = "fresh" => free[op[t].new] = 0..(desc[op[t].new].n - 1)

PoolInv ==
  Typed /\ Control /\ Registry /\ Prepared /\ Metadata /\ RunsOut /\ OnCourse

-----------------------------------------------------------------------------
(***************************************************************************)
(* The metadata chunks and the search for a run in them.                   *)
(***************************************************************************)
LEMMA Least ==
  ASSUME NEW U, U \subseteq Nat, U # {}
  PROVE  \E x \in U : \A y \in U : x <= y
<1> DEFINE R == OpToRel(<, Nat)
<1>1. IsWellFoundedOn(R, Nat)
  BY NatLessThanWellFounded
<1>2. \A x, y \in Nat : x < y => <<x, y>> \in R
  BY DEF OpToRel
<1> HIDE DEF R
<1>3. PICK x \in U : \A y \in U : ~(<<y, x>> \in R)
  BY <1>1, WFMin
<1>4. \A y \in U : x \in Nat /\ y \in Nat /\ ~(y < x)
  BY <1>2, <1>3
<1>5. \A y \in U : x <= y
  BY <1>4
<1> QED BY <1>5

LEMMA Greatest ==
  ASSUME NEW m \in Nat, NEW U, U \subseteq 0..m, U # {}
  PROVE  \E x \in U : \A y \in U : x >= y
<1> DEFINE T == {m - j : j \in U}
<1>1. \A j \in U : j \in Nat /\ m - j \in Nat /\ m - j \in T
  OBVIOUS
<1>2. T \subseteq Nat /\ T # {}
  BY <1>1
<1>3. \A x \in T : \E j \in U : x = m - j
  OBVIOUS
<1> HIDE DEF T
<1>4. PICK x \in T : \A y \in T : x <= y
  BY <1>2, Least
<1>5. PICK j \in U : x = m - j
  BY <1>3
<1>6. \A k \in U : j >= k
  <2> TAKE k \in U
  <2>1. m - j <= m - k
    BY <1>1, <1>4, <1>5
  <2> QED BY <1>1, <2>1
<1> QED BY <1>6

\* The blocks of two chunks are different, and numbered in Blocks.
LEMMA ChunksApart ==
  /\ \A c \in Nat \ {0} : ChunkBase(c) \in Nat \ {0} /\ DataBlocks(c) \subseteq Nat
  /\ \A c \in 1..NChunks : DataBlocks(c) \subseteq Blocks
  /\ \A c, d \in Nat \ {0} : c # d => DataBlocks(c) \cap DataBlocks(d) = {}
<1>1. MetaBlocks \in Nat /\ HeaderBlocks \in Nat /\ HeaderBlocks <= MetaBlocks /\ NChunks \in Nat
  BY PoolAssumption
<1>2. ASSUME NEW c \in Nat \ {0}
      PROVE  ChunkBase(c) \in Nat \ {0} /\ ChunkBase(c) + MetaBlocks = c * MetaBlocks + 1
  BY <1>1 DEF ChunkBase
<1>3. ASSUME NEW c \in Nat \ {0}, NEW d \in Nat \ {0}, c < d
      PROVE  ChunkBase(c) + MetaBlocks <= ChunkBase(d)
  <2>1. PICK e \in Nat : d = c + 1 + e
    <3>1. d - c - 1 \in Nat /\ d = c + 1 + (d - c - 1)
      BY <1>3
    <3> QED BY <3>1
  <2>2. e * MetaBlocks >= 0 /\ e * MetaBlocks \in Int
    BY <1>1
  <2>3. ChunkBase(d) = (c + e) * MetaBlocks + 1
    BY <2>1 DEF ChunkBase
  <2>4. (c + e) * MetaBlocks = c * MetaBlocks + e * MetaBlocks
    BY <1>1
  <2>5. c * MetaBlocks \in Int
    BY <1>1
  <2> QED BY <1>2, <2>2, <2>3, <2>4, <2>5
<1>4. ASSUME NEW c \in 1..NChunks PROVE c * MetaBlocks <= NChunks * MetaBlocks
  <2>1. PICK e \in Nat : NChunks = c + e
    <3>1. NChunks - c \in Nat /\ NChunks = c + (NChunks - c)
      BY <1>1
    <3> QED BY <3>1
  <2>2. e * MetaBlocks >= 0 /\ e * MetaBlocks \in Int /\ c * MetaBlocks \in Int
    BY <1>1
  <2>3. NChunks * MetaBlocks = c * MetaBlocks + e * MetaBlocks
    BY <1>1, <2>1
  <2> QED BY <2>2, <2>3
<1>5. ASSUME NEW c \in 1..NChunks PROVE DataBlocks(c) \subseteq Blocks
  <2>1. PICK k \in Int : k = c * MetaBlocks /\ k <= NChunks * MetaBlocks
    BY <1>1, <1>4
  <2>2. PICK b \in Nat \ {0} : b = ChunkBase(c) /\ b + MetaBlocks = k + 1
    <3>1. c \in Nat \ {0}
      BY <1>1
    <3> QED BY <1>2, <2>1, <3>1
  <2>3. PICK m \in Int : m = NChunks * MetaBlocks /\ k <= m
    BY <1>1, <2>1
  <2>4. DataBlocks(c) = (b + HeaderBlocks)..(b + MetaBlocks - 1) /\ Blocks = 1..m
    BY <2>2, <2>3 DEF DataBlocks, Blocks
  <2> QED BY <1>1, <2>2, <2>3, <2>4
<1>6. ASSUME NEW c \in Nat \ {0}, NEW d \in Nat \ {0}, c < d
      PROVE  DataBlocks(c) \cap DataBlocks(d) = {}
  <2>1. PICK b \in Nat : b = ChunkBase(c)
    BY <1>2
  <2>2. PICK e \in Nat : e = ChunkBase(d)
    BY <1>2
  <2>3. b + MetaBlocks <= e
    BY <1>3, <1>6, <2>1, <2>2
  <2>4. /\ DataBlocks(c) = (b + HeaderBlocks)..(b + MetaBlocks - 1)
        /\ DataBlocks(d) = (e + HeaderBlocks)..(e + MetaBlocks - 1)
    BY <2>1, <2>2 DEF DataBlocks
  <2> QED BY <1>1, <2>3, <2>4
<1>7. ASSUME NEW c \in Nat \ {0} PROVE DataBlocks(c) \subseteq Nat
  <2>1. PICK b \in Nat : b = ChunkBase(c)
    BY <1>2
  <2>2. DataBlocks(c) = (b + HeaderBlocks)..(b + MetaBlocks - 1)
    BY <2>1 DEF DataBlocks
  <2> QED BY <1>1, <2>2
<1>8. ASSUME NEW c \in Nat \ {0}, NEW d \in Nat \ {0}, c # d
      PROVE  DataBlocks(c) \cap DataBlocks(d) = {}
  <2>1. c < d \/ d < c
    BY <1>8
  <2> QED BY <1>6, <2>1
<1> QED BY <1>2, <1>5, <1>7, <1>8

LEMMA NoSpan == Span(NoBlocks) = {} /\ NoBlocks \in MetaRef
<1>1. NoBlocks.at = 0 /\ NoBlocks.n = 0
  BY DEF NoBlocks
<1> QED BY <1>1 DEF Span, MetaRef

\* try_find_and_clear_n over the chunks of the list.
LEMMA FirstFitFinds ==
  ASSUME NEW n \in Nat \ {0}, NEW C, C \subseteq 1..NChunks, NEW avail
  PROVE  LET r == FirstFit(n, C, avail) IN
         /\ r \in MetaRef
         /\ r # NoBlocks => \E c \in C : Span(r) \subseteq DataBlocks(c) \cap avail
         /\ (\E c \in C : RunsOfChunk(n, c, avail) # {}) => r # NoBlocks
<1> DEFINE V == {c \in C : RunsOfChunk(n, c, avail) # {}}
           w == CHOOSE x \in V : \A y \in V : x >= y
           f == CHOOSE r \in RunsOfChunk(n, w, avail) :
                  \A s \in RunsOfChunk(n, w, avail) : r.at <= s.at
<1>1. FirstFit(n, C, avail) = IF V = {} THEN NoBlocks ELSE f
  BY DEF FirstFit
<1>2. CASE V = {}
  BY <1>1, <1>2, NoSpan
<1>3. CASE V # {}
  <2>1. w \in V
    <3>1. V \subseteq 0..NChunks /\ NChunks \in Nat
      <4>1. NChunks \in Nat /\ \A c \in 1..NChunks : c \in 0..NChunks
        BY PoolAssumption
      <4>2. V \subseteq C
        OBVIOUS
      <4> HIDE DEF V
      <4> QED BY <4>1, <4>2
    <3>2. \E x \in V : \A y \in V : x >= y
      <4> HIDE DEF V
      <4> QED BY <1>3, <3>1, Greatest
    <3> HIDE DEF V
    <3> QED BY <3>2, Zenon
  <2>2. w \in C /\ w \in 1..NChunks /\ RunsOfChunk(n, w, avail) # {}
    BY <2>1
  <2> HIDE DEF w, V
  <2>3. \A r \in RunsOfChunk(n, w, avail) : r.at \in DataBlocks(w) /\ r.at \in Nat /\ r.n = n
    <3>1. DataBlocks(w) \subseteq Nat
      <4>1. w \in Nat \ {0}
        BY <2>2
      <4> QED BY <4>1, ChunksApart
    <3> QED BY <3>1 DEF RunsOfChunk
  <2>4. f \in RunsOfChunk(n, w, avail)
    <3> DEFINE U == {r.at : r \in RunsOfChunk(n, w, avail)}
    <3>1. U \subseteq Nat /\ U # {}
      BY <2>2, <2>3
    <3>2. \A r \in RunsOfChunk(n, w, avail) : r.at \in U
      OBVIOUS
    <3>3. \A x \in U : \E r \in RunsOfChunk(n, w, avail) : x = r.at
      OBVIOUS
    <3> HIDE DEF U
    <3>4. PICK x \in U : \A y \in U : x <= y
      BY <3>1, Least
    <3>5. \E r \in RunsOfChunk(n, w, avail) : \A s \in RunsOfChunk(n, w, avail) : r.at <= s.at
      BY <3>2, <3>3, <3>4
    <3> QED BY <3>5, Zenon
  <2> HIDE DEF f
  <2>5. /\ f \in [at : DataBlocks(w), n : {n}]
        /\ f.at + n <= ChunkBase(w) + MetaBlocks /\ Span(f) \subseteq avail
    BY <2>4 DEF RunsOfChunk
  <2>6. f.at \in DataBlocks(w) /\ f.n = n /\ f.at \in Blocks
    BY <2>2, <2>5, ChunksApart
  <2>7. PICK b \in Nat : b = ChunkBase(w)
    <3>1. w \in Nat \ {0}
      BY <2>2
    <3> QED BY <3>1, ChunksApart
  <2>8. f.at \in (b + HeaderBlocks)..(b + MetaBlocks - 1) /\ f.at + n <= b + MetaBlocks
    BY <2>5, <2>6, <2>7 DEF DataBlocks
  <2>9. MetaBlocks \in Nat /\ HeaderBlocks \in Nat
    BY PoolAssumption
  <2>10. n \in 1..MetaBlocks
    BY <2>8, <2>9
  <2>11. f \in MetaRef /\ f # NoBlocks
    <3>1. f.n # NoBlocks.n
      BY <2>6 DEF NoBlocks
    <3> QED BY <2>5, <2>6, <2>10, <3>1 DEF MetaRef
  <2>12. Span(f) \subseteq DataBlocks(w)
    <3>1. Span(f) = f.at..(f.at + n - 1)
      BY <2>6 DEF Span
    <3>2. DataBlocks(w) = (b + HeaderBlocks)..(b + MetaBlocks - 1)
      BY <2>7 DEF DataBlocks
    <3>3. PICK a \in Int : a = f.at
      BY <2>8
    <3> QED BY <2>8, <2>9, <3>1, <3>2, <3>3
  <2> QED BY <1>1, <1>3, <2>2, <2>5, <2>11, <2>12
<1> QED BY <1>2, <1>3

\* A chunk that has just been pushed serves every request that fits one.
LEMMA FreshChunkServes ==
  ASSUME NEW n \in Nat \ {0}, n <= MetaBlocks - HeaderBlocks, NEW c \in 1..NChunks
  PROVE  FirstFit(n, {c}, DataBlocks(c)) # NoBlocks
<1>1. MetaBlocks \in Nat /\ HeaderBlocks \in Nat
  BY PoolAssumption
<1>2. PICK b \in Nat : b = ChunkBase(c)
  <2>1. c \in Nat \ {0}
    OBVIOUS
  <2> QED BY <2>1, ChunksApart
<1>3. PICK a \in Nat : a = b + HeaderBlocks
  BY <1>1
<1>4. DataBlocks(c) = a..(b + MetaBlocks - 1)
  BY <1>2, <1>3 DEF DataBlocks
<1> DEFINE r == [at |-> a, n |-> n]
<1>5. Span(r) = a..(a + n - 1)
  BY DEF Span
<1>6. r \in [at : DataBlocks(c), n : {n}] /\ a + n <= b + MetaBlocks /\ Span(r) \subseteq DataBlocks(c)
  BY <1>1, <1>3, <1>4, <1>5
<1>7. r \in RunsOfChunk(n, c, DataBlocks(c))
  BY <1>2, <1>6 DEF RunsOfChunk
<1>8. PICK C : C = {c}
  OBVIOUS
<1>9. C \subseteq 1..NChunks /\ \E d \in C : RunsOfChunk(n, d, DataBlocks(c)) # {}
  BY <1>7, <1>8
<1> HIDE DEF r
<1> QED BY <1>8, <1>9, FirstFitFinds

-----------------------------------------------------------------------------
(***************************************************************************)
(* The frame of a step: thread t goes to w with the locals o.              *)
(***************************************************************************)
Moves(t, w, o) ==
  /\ w \in Pcs /\ o \in Ops /\ Carries(w, o) /\ o.cnt <= count
  /\ pc' = [pc EXCEPT ![t] = w] /\ op' = [op EXCEPT ![t] = o]

LEMMA MovedThreads ==
  ASSUME Typed, NEW t \in Threads, NEW w, NEW o, Moves(t, w, o)
  PROVE  /\ pc' \in [Threads -> Pcs] /\ op' \in [Threads -> Ops]
         /\ pc'[t] = w /\ op'[t] = o
         /\ \A u \in Threads \ {t} : pc'[u] = pc[u] /\ op'[u] = op[u]
BY DEF Typed, TypeOK, Moves

LEMMA OpTypes ==
  ASSUME NEW o \in Ops
  PROVE  /\ o.n \in Requests \cup {0} /\ o.cnt \in 0..MaxArenas /\ o.start \in Nat /\ o.k \in Nat
         /\ o.new \in Arenas \cup {None} /\ o.bm \in MetaRef /\ o.dsc \in MetaRef
         /\ o.run \in Run \cup {None}
BY DEF Ops

\* Types and control after a move.
LEMMA MoveStep ==
  ASSUME Typed, Control, NEW t \in Threads, NEW w, NEW o, Moves(t, w, o),
         count' \in 0..MaxArenas, count <= count',
         arenas' \in [0..(MaxArenas - 1) -> Arenas \cup {None}],
         cursor' \in 0..(MaxArenas - 1), lock' \in Threads \cup {None}, mapped' \subseteq Arenas,
         desc' \in [Arenas -> [n : 0..MaxArenaSlices, bm : MetaRef, own : MetaRef]],
         free' \in [Arenas -> SUBSET Slices], nchunks' \in 0..NChunks, metaFree' \subseteq Blocks,
         dirty' \subseteq Blocks, client' \in MetaRef, held' \subseteq Run,
         requests' \in 0..MaxRequests, quiet' \subseteq Threads
  PROVE  Typed' /\ Control'
<1>1. /\ pc' \in [Threads -> Pcs] /\ op' \in [Threads -> Ops]
      /\ pc'[t] = w /\ op'[t] = o
      /\ \A u \in Threads \ {t} : pc'[u] = pc[u] /\ op'[u] = op[u]
  BY MovedThreads
<1>2. \A u \in Threads : Carries(pc'[u], op'[u])
  BY <1>1 DEF Control, Moves
<1>3. \A u \in Threads : op'[u].cnt <= count'
  <2>1. \A u \in Threads : op'[u].cnt <= count /\ op'[u].cnt \in Int
    BY <1>1, OpTypes DEF Control, Moves
  <2>2. count \in Int /\ count' \in Int
    BY DEF Typed, TypeOK
  <2> QED BY <2>1, <2>2
<1>4. Control'
  BY <1>2, <1>3 DEF Control
<1>5. \A u \in Threads :
        /\ op'[u].n \in Requests \cup {0} /\ op'[u].cnt \in 0..MaxArenas
        /\ op'[u].new \in Arenas \cup {None} /\ op'[u].run \in Run \cup {None}
        /\ op'[u].bm \in MetaRef /\ op'[u].dsc \in MetaRef
  BY <1>1, OpTypes
<1>6. \A u \in Threads : pc'[u] = "search" => op'[u].k < op'[u].cnt
  BY <1>2 DEF Carries, Looks
<1>7. TypeOK'
  BY <1>1, <1>5, <1>6 DEF TypeOK
<1> QED BY <1>1, <1>4, <1>7 DEF Typed

\* Who holds which metadata.
LEMMA RefCases ==
  /\ \A u \in Threads : /\ <<"bm", u>> \in Slots /\ <<"dsc", u>> \in Slots
                        /\ Ref(<<"bm", u>>) = op[u].bm /\ Ref(<<"dsc", u>>) = op[u].dsc
                        /\ Ref(<<"bm", u>>)' = op'[u].bm /\ Ref(<<"dsc", u>>)' = op'[u].dsc
  /\ \A a \in Arenas :
       /\ <<"abm", a>> \in Slots /\ <<"aown", a>> \in Slots
       /\ Ref(<<"abm", a>>) = IF a \in Registered THEN desc[a].bm ELSE NoBlocks
       /\ Ref(<<"aown", a>>) = IF a \in Registered THEN desc[a].own ELSE NoBlocks
       /\ Ref(<<"abm", a>>)' = IF a \in Registered' THEN desc'[a].bm ELSE NoBlocks
       /\ Ref(<<"aown", a>>)' = IF a \in Registered' THEN desc'[a].own ELSE NoBlocks
  /\ <<"client", None>> \in Slots
  /\ Ref(<<"client", None>>) = client /\ Ref(<<"client", None>>)' = client'
  /\ \A s \in Slots :
       \/ \E u \in Threads : s = <<"bm", u>> /\ Ref(s) = op[u].bm /\ Ref(s)' = op'[u].bm
       \/ \E u \in Threads : s = <<"dsc", u>> /\ Ref(s) = op[u].dsc /\ Ref(s)' = op'[u].dsc
       \/ \E a \in Arenas :
            /\ s = <<"abm", a>> /\ Ref(s) = IF a \in Registered THEN desc[a].bm ELSE NoBlocks
            /\ Ref(s)' = IF a \in Registered' THEN desc'[a].bm ELSE NoBlocks
       \/ \E a \in Arenas :
            /\ s = <<"aown", a>> /\ Ref(s) = IF a \in Registered THEN desc[a].own ELSE NoBlocks
            /\ Ref(s)' = IF a \in Registered' THEN desc'[a].own ELSE NoBlocks
       \/ s = <<"client", None>> /\ Ref(s) = client /\ Ref(s)' = client'
BY DEF Slots, Ref

LEMMA MetadataKept ==
  ASSUME Metadata, UNCHANGED meta, \A s \in Slots : Ref(s)' = Ref(s)
  PROVE  Metadata'
<1>1. \A s \in Slots : Span(Ref(s))' = Span(Ref(s))
  BY DEF Span
<1>2. UNCHANGED <<nchunks, metaFree, dirty>> /\ DataOf(nchunks)' = DataOf(nchunks)
  BY DEF meta, DataOf
<1> QED BY <1>1, <1>2 DEF Metadata

LEMMA RefsKept ==
  ASSUME Typed, NEW t \in Threads, NEW w, NEW o, Moves(t, w, o),
         o.bm = op[t].bm, o.dsc = op[t].dsc, UNCHANGED <<arenas, count, client>>,
         \A a \in Registered : desc'[a].bm = desc[a].bm /\ desc'[a].own = desc[a].own
  PROVE  \A s \in Slots : Ref(s)' = Ref(s)
<1>1. \A u \in Threads : op'[u].bm = op[u].bm /\ op'[u].dsc = op[u].dsc
  BY MovedThreads
<1>2. Registered' = Registered
  BY DEF Registered
<1> QED BY <1>1, <1>2, RefCases

(***************************************************************************)
(* A step that changes nothing but the thread's own place and locals, the  *)
(* lock, or a counter nothing depends on.                                  *)
(***************************************************************************)
LocalMove(t, w, o) ==
  /\ Moves(t, w, o)
  /\ o.bm = op[t].bm /\ o.dsc = op[t].dsc /\ o.run = op[t].run
  /\ w \in Makes <=> pc[t] \in Makes
  /\ w \in Makes => o.new = op[t].new /\ o.n = op[t].n
  /\ w \in {"lock", "add"} => pc[t] \in {"lock", "add"}
  /\ w \notin {"fresh", "freshCommit", "freshHint", "publish", "zallocBm", "zallocDesc"}
  /\ UNCHANGED <<arenas, count, mapped, desc, free, meta, client, held>>
  /\ cursor' \in 0..(MaxArenas - 1) /\ lock' \in Threads \cup {None}
  /\ \A u \in Threads : lock' = u <=> pc'[u] \in {"add", "publish"}
  /\ requests' \in 0..MaxRequests /\ quiet' \subseteq quiet \cup {t}
  /\ t \in quiet' /\ FitsAnArena(o.n) => w \notin {"dropRegion", "dropBm", "dropDesc", "failed"}

LEMMA LocalStep ==
  ASSUME PoolInv, NEW t \in Threads, NEW w, NEW o, LocalMove(t, w, o)
  PROVE  PoolInv'
<1> USE DEF LocalMove
<1>1. /\ Typed /\ Control /\ Registry /\ Prepared /\ Metadata /\ RunsOut /\ OnCourse
  BY DEF PoolInv
<1>2. /\ pc' \in [Threads -> Pcs] /\ op' \in [Threads -> Ops]
      /\ pc'[t] = w /\ op'[t] = o
      /\ \A u \in Threads \ {t} : pc'[u] = pc[u] /\ op'[u] = op[u]
  BY <1>1, MovedThreads
<1>3. Typed' /\ Control'
  <2>1. /\ arenas \in [0..(MaxArenas - 1) -> Arenas \cup {None}]
        /\ count \in 0..MaxArenas /\ mapped \subseteq Arenas
        /\ desc \in [Arenas -> [n : 0..MaxArenaSlices, bm : MetaRef, own : MetaRef]]
        /\ free \in [Arenas -> SUBSET Slices]
        /\ nchunks \in 0..NChunks /\ metaFree \subseteq Blocks
        /\ dirty \subseteq Blocks /\ client \in MetaRef /\ held \subseteq Run /\ quiet \subseteq Threads
    BY <1>1 DEF Typed, TypeOK
  <2>2. count <= count' /\ UNCHANGED <<nchunks, metaFree, dirty>>
    BY <2>1 DEF meta
  <2>3. quiet' \subseteq Threads
    BY <2>1
  <2> QED BY <1>1, <2>1, <2>2, <2>3, MoveStep
<1>4. Registered' = Registered
  BY DEF Registered
<1>5. /\ InMaking' = InMaking /\ \A u \in InMaking : u \in Threads /\ op'[u].new = op[u].new
  <2>1. \A u \in Threads : pc'[u] \in Makes <=> pc[u] \in Makes
    BY <1>2
  <2>2. \A u \in Threads : pc[u] \in Makes => op'[u].new = op[u].new
    BY <1>2
  <2> QED BY <2>1, <2>2 DEF InMaking, Making, Makes
<1>6. RegionsAreAccountedFor'
  <2>1. {op[u].new : u \in InMaking}' = {op[u].new : u \in InMaking}
    BY <1>5
  <2> QED BY <1>1, <1>4, <1>5, <2>1 DEF Registry, RegionsAreAccountedFor
<1>7. Registry'
  BY <1>1, <1>2, <1>4, <1>6 DEF Registry
<1>8. Prepared'
  <2>1. \A u \in Threads : pc'[u] \in {"zallocBm", "zallocDesc", "lock", "add", "publish", "fresh"} =>
          /\ pc[u] \in {"zallocBm", "zallocDesc", "lock", "add", "publish", "fresh"}
          /\ op'[u].new = op[u].new /\ op'[u].n = op[u].n
    BY <1>2 DEF Makes
  <2>2. \A u \in Threads : pc'[u] \in {"lock", "add", "publish"} =>
          /\ pc[u] \in {"lock", "add", "publish"}
          /\ op'[u].bm = op[u].bm /\ op'[u].dsc = op[u].dsc
    BY <1>2
  <2> QED BY <1>1, <2>1, <2>2 DEF Prepared
<1>9. Metadata'
  <2>1. \A a \in Registered : desc'[a].bm = desc[a].bm /\ desc'[a].own = desc[a].own
    OBVIOUS
  <2>2. \A s \in Slots : Ref(s)' = Ref(s)
    BY <1>1, <2>1, RefsKept
  <2> QED BY <1>1, <2>2, MetadataKept
<1>10. RunsOut'
  <2>1. \A u \in Threads : op'[u].run = op[u].run
    BY <1>2
  <2>2. Claimed' = Claimed
    BY <2>1 DEF Claimed
  <2> QED BY <1>1, <1>4, <2>1, <2>2 DEF RunsOut, SlicesAreExact
<1>11. OnCourse'
  <2>1. ASSUME NEW u \in quiet', pc'[u] # "idle", FitsAnArena(op'[u].n)
        PROVE  /\ pc'[u] \notin {"dropRegion", "dropBm", "dropDesc", "failed"}
               /\ pc'[u] = "fresh" => free'[op'[u].new] = 0..(desc'[op'[u].new].n - 1)
    <3>1. CASE u = t
      BY <1>2, <2>1, <3>1
    <3>2. CASE u # t
      <4>1. u \in quiet /\ u \in Threads /\ pc'[u] = pc[u] /\ op'[u] = op[u]
        BY <1>1, <1>2, <2>1, <3>2 DEF Typed, TypeOK
      <4> QED BY <1>1, <2>1, <4>1 DEF OnCourse
    <3> QED BY <3>1, <3>2
  <2> QED BY <2>1 DEF OnCourse, FitsAnArena
<1> QED BY <1>3, <1>7, <1>8, <1>9, <1>10, <1>11 DEF PoolInv

LEMMA Here ==
  ASSUME PoolInv, NEW t \in Threads
  PROVE  /\ op[t] \in Ops /\ Carries(pc[t], op[t]) /\ op[t].cnt <= count /\ pc[t] \in Pcs
         /\ count \in 0..MaxArenas /\ cursor \in 0..(MaxArenas - 1) /\ lock \in Threads \cup {None}
         /\ requests \in 0..MaxRequests /\ op \in [Threads -> Ops] /\ pc \in [Threads -> Pcs]
         /\ quiet \subseteq Threads
BY DEF PoolInv, Typed, TypeOK, Control

LEMMA LockKept ==
  ASSUME PoolInv, NEW t \in Threads, NEW w, NEW o, Moves(t, w, o), UNCHANGED lock,
         w \notin {"add", "publish"}, pc[t] \notin {"add", "publish"}
  PROVE  \A u \in Threads : lock' = u <=> pc'[u] \in {"add", "publish"}
BY MovedThreads DEF PoolInv, Registry

\* Request: a thread begins.
LEMMA RequestStep ==
  ASSUME PoolInv, NEW t \in Threads, NEW n \in Requests, Request(t, n)
  PROVE  PoolInv'
<1> PICK w : w = IF count > 0 THEN "cursor" ELSE "reserve"
  OBVIOUS
<1> PICK o : o = [op[t] EXCEPT !.n = n, !.cnt = count]
  OBVIOUS
<1>1. /\ op[t] \in Ops /\ Carries(pc[t], op[t]) /\ op[t].cnt <= count
      /\ count \in 0..MaxArenas /\ requests \in 0..MaxRequests
      /\ op \in [Threads -> Ops] /\ cursor \in 0..(MaxArenas - 1) /\ lock \in Threads \cup {None}
  BY Here
<1>2. /\ o \in Ops /\ o.n = n /\ o.cnt = count /\ o.bm = op[t].bm /\ o.dsc = op[t].dsc
      /\ o.run = op[t].run /\ o.k = op[t].k
  BY <1>1 DEF Ops
<1>3. pc[t] = "idle" /\ pc' = [pc EXCEPT ![t] = w] /\ op' = [op EXCEPT ![t] = o]
  BY <1>1 DEF Request, Goto
<1>4. Carries(w, o)
  <2>1. op[t].run = None /\ op[t].bm = NoBlocks /\ op[t].dsc = NoBlocks /\ op[t].k = 0
    BY <1>1, <1>3 DEF Carries, Claims, Makes
  <2> QED BY <1>1, <1>2, <2>1 DEF Carries, Claims, Makes, Looks
<1>5. Moves(t, w, o)
  BY <1>1, <1>2, <1>3, <1>4 DEF Moves, Pcs
<1>6. /\ UNCHANGED <<pool, mapped, desc, free, meta, client, held>>
      /\ requests < MaxRequests /\ requests' = requests + 1 /\ quiet' = quiet \cup {t}
  BY DEF Request
<1>7. requests' \in 0..MaxRequests
  BY <1>1, <1>6, PoolAssumption
<1>8. \A u \in Threads : lock' = u <=> pc'[u] \in {"add", "publish"}
  BY <1>3, <1>5, <1>6, LockKept DEF pool
<1>9. LocalMove(t, w, o)
  BY <1>1, <1>2, <1>3, <1>5, <1>6, <1>7, <1>8 DEF LocalMove, Makes, pool
<1> QED BY <1>9, LocalStep

LEMMA LoadCursorStep ==
  ASSUME PoolInv, NEW t \in Threads, LoadCursor(t)
  PROVE  PoolInv'
<1> PICK o : o = [op[t] EXCEPT !.start = cursor % op[t].cnt]
  OBVIOUS
<1>1. /\ op[t] \in Ops /\ Carries(pc[t], op[t]) /\ op[t].cnt <= count
      /\ requests \in 0..MaxRequests
      /\ op \in [Threads -> Ops] /\ cursor \in 0..(MaxArenas - 1) /\ lock \in Threads \cup {None}
  BY Here
<1>2. pc[t] = "cursor" /\ pc' = [pc EXCEPT ![t] = "search"] /\ op' = [op EXCEPT ![t] = o]
  BY <1>1 DEF LoadCursor, Goto
<1>3. /\ op[t].n \in Requests /\ op[t].run = None /\ op[t].cnt > 0 /\ op[t].k = 0
      /\ op[t].bm = NoBlocks /\ op[t].dsc = NoBlocks
  BY <1>1, <1>2 DEF Carries, Claims, Makes, Looks
<1>4. cursor % op[t].cnt \in Nat
  <2>1. op[t].cnt \in Nat /\ cursor \in Nat
    BY <1>1, PoolAssumption, OpTypes
  <2>2. PICK c \in Nat \ {0} : c = op[t].cnt
    BY <1>3, <2>1
  <2>3. cursor % c \in Nat
    BY <2>1
  <2> QED BY <2>2, <2>3
<1>5. /\ o \in Ops /\ o.n = op[t].n /\ o.cnt = op[t].cnt /\ o.bm = op[t].bm /\ o.dsc = op[t].dsc
      /\ o.run = op[t].run /\ o.k = op[t].k
  BY <1>1, <1>4 DEF Ops
<1>6. Carries("search", o)
  BY <1>3, <1>5 DEF Carries, Claims, Makes, Looks
<1>7. Moves(t, "search", o)
  BY <1>1, <1>2, <1>5, <1>6 DEF Moves, Pcs
<1>8. UNCHANGED <<pool, mapped, desc, free, meta, client, held, requests, quiet>>
  BY DEF LoadCursor
<1>9. \A u \in Threads : lock' = u <=> pc'[u] \in {"add", "publish"}
  BY <1>2, <1>7, <1>8, LockKept DEF pool
<1>10. LocalMove(t, "search", o)
  BY <1>1, <1>2, <1>5, <1>7, <1>8, <1>9 DEF LocalMove, Makes, pool
<1> QED BY <1>10, LocalStep

\* The arena looked at cannot serve: the next one, or a new arena.
LEMMA NextArenaStep ==
  ASSUME PoolInv, NEW t \in Threads, pc[t] = "search", NextArena(t),
         UNCHANGED <<pool, mapped, desc, free, meta, client, held, requests, quiet>>
  PROVE  PoolInv'
<1> PICK o : o = [op[t] EXCEPT !.k = @ + 1, !.run = None]
  OBVIOUS
<1> PICK w : w = IF op[t].k + 1 < op[t].cnt THEN "search" ELSE "reserve"
  OBVIOUS
<1>1. /\ op[t] \in Ops /\ Carries(pc[t], op[t]) /\ op[t].cnt <= count
      /\ requests \in 0..MaxRequests
      /\ op \in [Threads -> Ops] /\ cursor \in 0..(MaxArenas - 1) /\ lock \in Threads \cup {None}
  BY Here
<1>2. pc' = [pc EXCEPT ![t] = w] /\ op' = [op EXCEPT ![t] = o]
  BY <1>1 DEF NextArena, Goto
<1>3. /\ op[t].n \in Requests /\ op[t].run = None /\ op[t].cnt > 0
      /\ op[t].bm = NoBlocks /\ op[t].dsc = NoBlocks
  BY <1>1 DEF Carries, Claims, Makes, Looks
<1>4. /\ o \in Ops /\ o.n = op[t].n /\ o.cnt = op[t].cnt /\ o.bm = op[t].bm /\ o.dsc = op[t].dsc
      /\ o.run = None /\ o.k = op[t].k + 1
  <2>1. op[t].k + 1 \in Nat
    BY <1>1, OpTypes
  <2> QED BY <1>1, <2>1 DEF Ops
<1>5. Carries(w, o)
  BY <1>3, <1>4 DEF Carries, Claims, Makes, Looks
<1>6. Moves(t, w, o)
  BY <1>1, <1>2, <1>4, <1>5 DEF Moves, Pcs
<1>7. \A u \in Threads : lock' = u <=> pc'[u] \in {"add", "publish"}
  BY <1>6, LockKept DEF pool
<1>8. LocalMove(t, w, o)
  BY <1>1, <1>3, <1>4, <1>6, <1>7 DEF LocalMove, Makes, pool
<1> QED BY <1>8, LocalStep

LEMMA PanicStep ==
  ASSUME PoolInv, NEW t \in Threads, Panic(t)
  PROVE  PoolInv'
<1> PICK o : o = op[t]
  OBVIOUS
<1>1. /\ o \in Ops /\ Carries(pc[t], o) /\ o.cnt <= count
      /\ requests \in 0..MaxRequests
      /\ op \in [Threads -> Ops] /\ cursor \in 0..(MaxArenas - 1) /\ lock \in Threads \cup {None}
  BY Here
<1>2. /\ pc[t] \in {"commit", "freshCommit"} /\ pc' = [pc EXCEPT ![t] = "panicked"]
      /\ op' = [op EXCEPT ![t] = o]
      /\ UNCHANGED <<pool, mapped, desc, free, meta, client, held, requests, quiet>>
  BY <1>1 DEF Panic, Goto
<1>3. Carries("panicked", o)
  BY <1>1, <1>2 DEF Carries, Claims, Makes, Looks
<1>4. Moves(t, "panicked", o)
  BY <1>1, <1>2, <1>3 DEF Moves, Pcs
<1>5. \A u \in Threads : lock' = u <=> pc'[u] \in {"add", "publish"}
  BY <1>2, <1>4, LockKept DEF pool
<1>6. LocalMove(t, "panicked", o)
  BY <1>1, <1>2, <1>4, <1>5 DEF LocalMove, Makes, pool
<1> QED BY <1>6, LocalStep

LEMMA NothingHeld == NoOp \in Ops /\ Carries("idle", NoOp)
<1>1. /\ NoOp.n = 0 /\ NoOp.cnt = 0 /\ NoOp.k = 0 /\ NoOp.run = None
      /\ NoOp.bm = NoBlocks /\ NoOp.dsc = NoBlocks
  BY DEF NoOp
<1> QED BY <1>1, NoSpan, PoolAssumption DEF NoOp, Ops, Carries, Claims, Makes, Looks

\* A request that has returned: nothing is left in the thread's hands.
LEMMA ReturnMoves ==
  ASSUME PoolInv, NEW t \in Threads, Return(t)
  PROVE  Moves(t, "idle", NoOp)
<1>1. op[t].cnt <= count /\ count \in 0..MaxArenas
  BY Here
<1>2. NoOp.cnt <= count
  BY <1>1 DEF NoOp
<1> QED BY <1>2, NothingHeld DEF Moves, Return, Goto, Pcs

LEMMA IndexBound ==
  ASSUME PoolInv, NEW t \in Threads, pc[t] \in Looks
  PROVE  Index(t) \in 0..(op[t].cnt - 1) /\ op[t].cnt \in 1..count /\ count \in 0..MaxArenas
<1>1. op[t] \in Ops /\ op[t].cnt <= count /\ op[t].cnt > 0 /\ count \in 0..MaxArenas
  BY Here DEF Carries
<1>2. op[t].start \in Nat /\ op[t].k \in Nat /\ op[t].cnt \in Int
  BY <1>1, OpTypes
<1>3. PICK x \in Nat : x = op[t].start + op[t].k
  BY <1>2
<1>4. PICK c \in Nat \ {0} : c = op[t].cnt
  BY <1>1, <1>2
<1>5. x % c \in 0..(c - 1)
  OBVIOUS
<1> QED BY <1>1, <1>3, <1>4, <1>5 DEF Index

LEMMA HintStep ==
  ASSUME PoolInv, NEW t \in Threads, Hint(t)
  PROVE  PoolInv'
<1>1. /\ op[t] \in Ops /\ Carries(pc[t], op[t])
      /\ requests \in 0..MaxRequests /\ lock \in Threads \cup {None} /\ count \in 0..MaxArenas
  BY Here
<1>2. /\ pc[t] \in {"hint", "freshHint"} /\ Return(t)
      /\ cursor' = IF pc[t] = "hint" THEN Index(t) ELSE count - 1
      /\ UNCHANGED <<arenas, count, lock, mapped, desc, free, meta, client, held, requests, quiet>>
  BY DEF Hint
<1>3. Moves(t, "idle", NoOp)
  BY <1>2, ReturnMoves
<1>4. /\ op[t].run = None /\ op[t].bm = NoBlocks /\ op[t].dsc = NoBlocks
  BY <1>1, <1>2 DEF Carries, Claims, Makes
<1>5. cursor' \in 0..(MaxArenas - 1)
  <2>1. CASE pc[t] = "hint"
    <3>1. Index(t) \in 0..(op[t].cnt - 1) /\ op[t].cnt \in 1..count
      BY <2>1, IndexBound DEF Looks
    <3> QED BY <1>1, <1>2, <2>1, <3>1, PoolAssumption
  <2>2. CASE pc[t] = "freshHint"
    <3>1. op[t].new \in Registered
      BY <2>2 DEF PoolInv, Registry
    <3>2. count > 0
      BY <1>1, <3>1 DEF Registered
    <3> QED BY <1>1, <1>2, <2>2, <3>2, PoolAssumption
  <2> QED BY <1>2, <2>1, <2>2
<1>6. \A u \in Threads : lock' = u <=> pc'[u] \in {"add", "publish"}
  BY <1>2, <1>3, LockKept
<1>7. /\ NoOp.bm = op[t].bm /\ NoOp.dsc = op[t].dsc /\ NoOp.run = op[t].run
  BY <1>4 DEF NoOp
<1>8. LocalMove(t, "idle", NoOp)
  BY <1>1, <1>2, <1>3, <1>5, <1>6, <1>7 DEF LocalMove, Makes
<1> QED BY <1>8, LocalStep

LEMMA FailStep ==
  ASSUME PoolInv, NEW t \in Threads, Fail(t)
  PROVE  PoolInv'
<1>1. /\ op[t] \in Ops /\ Carries(pc[t], op[t]) /\ cursor \in 0..(MaxArenas - 1)
      /\ requests \in 0..MaxRequests /\ lock \in Threads \cup {None}
  BY Here
<1>2. /\ pc[t] = "failed" /\ Return(t)
      /\ UNCHANGED <<arenas, count, cursor, lock, mapped, desc, free, meta, client, held,
                     requests, quiet>>
  BY DEF Fail, pool, others
<1>3. Moves(t, "idle", NoOp)
  BY <1>2, ReturnMoves
<1>4. /\ op[t].run = None /\ op[t].bm = NoBlocks /\ op[t].dsc = NoBlocks
  BY <1>1, <1>2 DEF Carries, Claims, Makes
<1>6. \A u \in Threads : lock' = u <=> pc'[u] \in {"add", "publish"}
  BY <1>2, <1>3, LockKept
<1>7. /\ NoOp.bm = op[t].bm /\ NoOp.dsc = op[t].dsc /\ NoOp.run = op[t].run
  BY <1>4 DEF NoOp
<1>8. LocalMove(t, "idle", NoOp)
  BY <1>1, <1>2, <1>3, <1>6, <1>7 DEF LocalMove, Makes
<1> QED BY <1>8, LocalStep

\* A step of the request that changes its place only.
LEMMA PlaceStep ==
  ASSUME PoolInv, NEW t \in Threads, NEW w \in Pcs, Carries(w, op[t]), Goto(t, w), UNCHANGED op,
         w \in Makes <=> pc[t] \in Makes,
         w \in {"lock", "add"} => pc[t] \in {"lock", "add"},
         w \notin {"fresh", "freshCommit", "freshHint", "publish", "zallocBm", "zallocDesc"},
         UNCHANGED <<arenas, count, cursor, mapped, desc, free, meta, client, held, requests>>,
         lock' \in Threads \cup {None},
         \A u \in Threads : lock' = u <=> pc'[u] \in {"add", "publish"},
         quiet' \subseteq quiet,
         t \in quiet' /\ FitsAnArena(op[t].n) => w \notin {"dropRegion", "dropBm", "dropDesc", "failed"}
  PROVE  PoolInv'
<1> PICK o : o = op[t]
  OBVIOUS
<1>1. /\ o \in Ops /\ o.cnt <= count /\ cursor \in 0..(MaxArenas - 1)
      /\ requests \in 0..MaxRequests /\ op \in [Threads -> Ops]
  BY Here
<1>2. op' = [op EXCEPT ![t] = o]
  BY <1>1
<1>3. Moves(t, w, o)
  BY <1>1, <1>2 DEF Moves, Goto
<1>4. LocalMove(t, w, o)
  BY <1>1, <1>3 DEF LocalMove
<1> QED BY <1>4, LocalStep

LEMMA ReserveFailsStep ==
  ASSUME PoolInv, NEW t \in Threads, ReserveFails(t)
  PROVE  PoolInv'
<1>1. op[t] \in Ops /\ Carries(pc[t], op[t]) /\ lock \in Threads \cup {None}
  BY Here
<1>2. /\ pc[t] = "reserve" /\ Goto(t, "failed")
      /\ quiet' = (IF ReserveSize(op[t].n) > MaxArenaSlices THEN quiet ELSE quiet \ {t})
      /\ UNCHANGED <<arenas, count, cursor, lock, mapped, desc, free, meta, client, op, held, requests>>
  BY DEF ReserveFails, pool
<1>3. Carries("failed", op[t]) /\ "failed" \in Pcs
  BY <1>1, <1>2 DEF Carries, Claims, Makes, Looks, Pcs
<1>4. \A u \in Threads : lock' = u <=> pc'[u] \in {"add", "publish"}
  BY <1>2, Here DEF Goto, PoolInv, Registry
<1>5. quiet' \subseteq quiet /\ ~(t \in quiet' /\ FitsAnArena(op[t].n))
  <2>1. FitsAnArena(op[t].n) => ~(ReserveSize(op[t].n) > MaxArenaSlices)
    <3>1. ReserveSize(op[t].n) \in Int /\ MaxArenaSlices \in Int
      <4>1. op[t].n \in Requests \cup {0}
        BY <1>1, OpTypes
      <4>2. Requests \cup {0} \subseteq Nat /\ DefaultSlices \in Nat /\ MaxArenaSlices \in Nat
        BY PoolAssumption
      <4>3. op[t].n \in Nat
        BY ONLY <4>1, <4>2
      <4> QED BY ONLY <4>2, <4>3 DEF ReserveSize
    <3> QED BY <3>1 DEF FitsAnArena
  <2> QED BY <1>2, <2>1
<1> QED BY <1>1, <1>2, <1>3, <1>4, <1>5, PlaceStep DEF Makes

LEMMA ZallocDescFailsStep ==
  ASSUME PoolInv, NEW t \in Threads, ZallocDescFails(t)
  PROVE  PoolInv'
<1>1. op[t] \in Ops /\ Carries(pc[t], op[t]) /\ lock \in Threads \cup {None}
  BY Here
<1>2. /\ pc[t] = "zallocDesc" /\ Goto(t, "dropRegion") /\ quiet' = quiet \ {t}
      /\ UNCHANGED <<arenas, count, cursor, lock, mapped, desc, free, meta, client, op, held, requests>>
  BY DEF ZallocDescFails, pool, MetaRefused
<1>3. Carries("dropRegion", op[t]) /\ "dropRegion" \in Pcs
  BY <1>1, <1>2 DEF Carries, Claims, Makes, Looks, Pcs
<1>4. \A u \in Threads : lock' = u <=> pc'[u] \in {"add", "publish"}
  BY <1>2, Here DEF Goto, PoolInv, Registry
<1> QED BY <1>1, <1>2, <1>3, <1>4, PlaceStep DEF Makes

LEMMA LockStep ==
  ASSUME PoolInv, NEW t \in Threads, Lock(t)
  PROVE  PoolInv'
<1>1. op[t] \in Ops /\ Carries(pc[t], op[t]) /\ pc \in [Threads -> Pcs]
  BY Here
<1>2. /\ pc[t] = "lock" /\ Goto(t, "add") /\ lock = None /\ lock' = t
      /\ UNCHANGED <<arenas, count, cursor, mapped, desc, free, meta, client, op, held, requests, quiet>>
  BY DEF Lock, others
<1>3. Carries("add", op[t]) /\ "add" \in Pcs
  BY <1>1, <1>2 DEF Carries, Claims, Makes, Looks, Pcs
<1>4. \A u \in Threads : lock' = u <=> pc'[u] \in {"add", "publish"}
  <2>1. \A u \in Threads : u # None /\ pc[u] \notin {"add", "publish"}
    BY <1>2, PoolAssumption DEF PoolInv, Registry
  <2> QED BY <1>1, <1>2, <2>1 DEF Goto
<1> QED BY <1>1, <1>2, <1>3, <1>4, PlaceStep DEF Makes

LEMMA AddFullStep ==
  ASSUME PoolInv, NEW t \in Threads, AddFull(t)
  PROVE  PoolInv'
<1>1. op[t] \in Ops /\ Carries(pc[t], op[t]) /\ pc \in [Threads -> Pcs]
  BY Here
<1>2. /\ pc[t] = "add" /\ Goto(t, "dropRegion") /\ lock' = None /\ quiet' = quiet \ {t}
      /\ UNCHANGED <<arenas, count, cursor, mapped, desc, free, meta, client, op, held, requests>>
  BY DEF AddFull, others
<1>3. Carries("dropRegion", op[t]) /\ "dropRegion" \in Pcs
  BY <1>1, <1>2 DEF Carries, Claims, Makes, Looks, Pcs
<1>4. \A u \in Threads : lock' = u <=> pc'[u] \in {"add", "publish"}
  <2>1. \A u \in Threads \ {t} : pc[u] \notin {"add", "publish"}
    BY <1>2 DEF PoolInv, Registry
  <2>2. None \notin Threads
    BY PoolAssumption
  <2> QED BY <1>1, <1>2, <2>1, <2>2 DEF Goto
<1> QED BY <1>1, <1>2, <1>3, <1>4, PlaceStep DEF Makes

-----------------------------------------------------------------------------
(***************************************************************************)
(* The slices of the registered arenas: F their free bitmaps, O the runs   *)
(* that are out of them.                                                   *)
(***************************************************************************)
Exact(F, O) ==
  /\ \A r \in O : r \in Run /\ r.arena \in Registered /\ RunSet(r) \cap F[r.arena] = {}
  /\ \A a \in Registered :
       F[a] \cup UNION {RunSet(r) : r \in {x \in O : x.arena = a}} = 0..(desc[a].n - 1)
  /\ \A r, s \in O : r.arena = s.arena /\ RunSet(r) \cap RunSet(s) # {} => r = s

LEMMA RunsApart ==
  ASSUME Typed, RunsOut
  PROVE  /\ Exact(free, held \cup Claimed) /\ held \cap Claimed = {}
         /\ \A t, u \in Threads : op[t].run # None /\ op[t].run = op[u].run => t = u
         /\ held \subseteq Run /\ Claimed \subseteq Run
         /\ \A t \in Threads : op[t].run # None => op[t].run \in Claimed /\ op[t].run \in Run
<1>1. held \subseteq Run /\ \A t \in Threads : op[t].run # None => op[t].run \in Run
  BY DEF Typed, TypeOK
<1>2. Claimed \subseteq Run /\ \A t \in Threads : op[t].run # None => op[t].run \in Claimed
  BY <1>1 DEF Claimed
<1>3. \A r \in held \cup Claimed : r.arena \in Registered
  BY DEF RunsOut
<1>4. \A a \in Registered :
        /\ \A r \in {x \in held \cup Claimed : x.arena = a} : RunSet(r) \cap free[a] = {}
        /\ \A r, s \in {x \in held \cup Claimed : x.arena = a} :
             RunSet(r) \cap RunSet(s) # {} => r = s
        /\ free[a] \cup UNION {RunSet(r) : r \in {x \in held \cup Claimed : x.arena = a}}
             = 0..(desc[a].n - 1)
        /\ \A t, u \in Threads : op[t].run # None /\ op[t].run = op[u].run => t = u
        /\ held \cap Claimed = {}
  BY DEF RunsOut, SlicesAreExact
<1>5. Exact(free, held \cup Claimed)
  <2>1. \A r \in held \cup Claimed :
          r \in Run /\ r.arena \in Registered /\ RunSet(r) \cap free[r.arena] = {}
    BY <1>1, <1>2, <1>3, <1>4
  <2>2. \A r, s \in held \cup Claimed :
          r.arena = s.arena /\ RunSet(r) \cap RunSet(s) # {} => r = s
    BY <1>3, <1>4
  <2> QED BY <1>4, <2>1, <2>2 DEF Exact
<1>6. held \cap Claimed = {}
  BY <1>3, <1>4
<1>7. \A t, u \in Threads : op[t].run # None /\ op[t].run = op[u].run => t = u
  BY <1>2, <1>3, <1>4
<1> QED BY <1>1, <1>2, <1>5, <1>6, <1>7

\* The converse, after a step that leaves the arenas themselves alone.
LEMMA RunsApartAfter ==
  ASSUME NEW F, F = free', NEW O, O = (held \cup Claimed)', Exact(F, O),
         (held \cap Claimed)' = {},
         \A t, u \in Threads : op'[t].run # None /\ op'[t].run = op'[u].run => t = u,
         UNCHANGED <<arenas, count>>, \A a \in Registered : desc'[a].n = desc[a].n
  PROVE  RunsOut'
<1>1. Registered' = Registered
  BY DEF Registered
<1>2. /\ \A r \in O : r.arena \in Registered /\ RunSet(r) \cap F[r.arena] = {}
      /\ \A a \in Registered :
           F[a] \cup UNION {RunSet(r) : r \in {x \in O : x.arena = a}} = 0..(desc[a].n - 1)
      /\ \A r, s \in O : r.arena = s.arena /\ RunSet(r) \cap RunSet(s) # {} => r = s
  BY DEF Exact
<1>3. SlicesAreExact'
  <2> SUFFICES ASSUME NEW a \in Registered
      PROVE LET out == {r \in O : r.arena = a} IN
              /\ F[a] \cup UNION {RunSet(r) : r \in out} = 0..(desc'[a].n - 1)
              /\ \A r \in out : RunSet(r) \cap F[a] = {}
              /\ \A r, s \in out : RunSet(r) \cap RunSet(s) # {} => r = s
    BY <1>1 DEF SlicesAreExact, RunSet
  <2> QED BY <1>2
<1> QED BY <1>1, <1>2, <1>3 DEF RunsOut

LEMMA OneMore ==
  ASSUME NEW S, NEW r
  PROVE  UNION {RunSet(y) : y \in S \cup {r}} = (UNION {RunSet(y) : y \in S}) \cup RunSet(r)
<1> DEFINE A == UNION {RunSet(y) : y \in S \cup {r}}
           B == UNION {RunSet(y) : y \in S}
<1>1. \A e : e \in A <=> \E y \in S \cup {r} : e \in RunSet(y)
  BY Zenon
<1>2. \A e : e \in B <=> \E y \in S : e \in RunSet(y)
  BY Zenon
<1> HIDE DEF A, B
<1>3. \A e : e \in A <=> e \in B \cup RunSet(r)
  BY <1>1, <1>2, Zenon
<1>4. A = B \cup RunSet(r)
  BY ONLY <1>3, Zenon
<1> QED BY <1>4, Zenon DEF A, B

LEMMA RunGoesOut ==
  ASSUME NEW F, NEW O, Exact(F, O), NEW r \in Run, r.arena \in Registered,
         RunSet(r) \subseteq F[r.arena], F \in [Arenas -> SUBSET Slices]
  PROVE  LET G == [F EXCEPT ![r.arena] = @ \ RunSet(r)] IN
         Exact(G, O \cup {r}) /\ r \notin O /\ G \in [Arenas -> SUBSET Slices]
<1> DEFINE G == [F EXCEPT ![r.arena] = @ \ RunSet(r)]
<1>1. r.arena \in Arenas /\ r.first \in Slices /\ r.n \in Nat \ {0}
  BY PoolAssumption DEF Run
<1>2. r.first \in RunSet(r)
  <2>1. r.first \in Int /\ r.n \in Int /\ r.n >= 1
    BY <1>1, PoolAssumption DEF Slices
  <2> QED BY <2>1 DEF RunSet
<1>3. /\ G[r.arena] = F[r.arena] \ RunSet(r) /\ \A a \in Arenas : a # r.arena => G[a] = F[a]
      /\ G \in [Arenas -> SUBSET Slices]
  BY <1>1
<1> HIDE DEF G
<1>4. /\ \A x \in O : x \in Run /\ x.arena \in Registered /\ RunSet(x) \cap F[x.arena] = {}
      /\ \A a \in Registered :
           F[a] \cup UNION {RunSet(y) : y \in {x \in O : x.arena = a}} = 0..(desc[a].n - 1)
      /\ \A x, s \in O : x.arena = s.arena /\ RunSet(x) \cap RunSet(s) # {} => x = s
  BY DEF Exact
<1>5. r \notin O
  BY <1>2, <1>4
<1>6. \A x \in O \cup {r} : x \in Run /\ x.arena \in Registered /\ RunSet(x) \cap G[x.arena] = {}
  <2>1. \A x \in O : x.arena \in Arenas
    BY <1>4 DEF Run
  <2> QED BY <1>3, <1>4, <2>1
<1>7. ASSUME NEW a \in Registered
      PROVE  G[a] \cup UNION {RunSet(y) : y \in {x \in O \cup {r} : x.arena = a}} = 0..(desc[a].n - 1)
  <2>1. CASE a = r.arena
    <3>1. UNION {RunSet(y) : y \in {x \in O \cup {r} : x.arena = a}}
            = (UNION {RunSet(y) : y \in {x \in O : x.arena = a}}) \cup RunSet(r)
      <4>1. {x \in O \cup {r} : x.arena = a} = {x \in O : x.arena = a} \cup {r}
        BY <2>1
      <4> QED BY <4>1, OneMore, Zenon
    <3> QED BY <1>3, <1>4, <2>1, <3>1
  <2>2. CASE a # r.arena
    <3>1. {x \in O \cup {r} : x.arena = a} = {x \in O : x.arena = a}
      BY <2>2
    <3>2. G[a] = F[a]
      <4>1. DOMAIN G = Arenas /\ DOMAIN F = Arenas
        BY <1>3
      <4> QED BY <1>3, <2>2, <4>1 DEF G
    <3> QED BY <1>4, <3>1, <3>2
  <2> QED BY <2>1, <2>2
<1>8. \A x, s \in O \cup {r} : x.arena = s.arena /\ RunSet(x) \cap RunSet(s) # {} => x = s
  <2>1. \A x \in O : x.arena = r.arena => RunSet(x) \cap RunSet(r) = {}
    BY <1>4
  <2> QED BY <1>4, <2>1
<1>9. Exact(G, O \cup {r})
  BY <1>6, <1>7, <1>8 DEF Exact
<1> QED BY <1>3, <1>5, <1>9 DEF G

LEMMA RunComesBack ==
  ASSUME NEW F, NEW O, Exact(F, O), NEW r \in O, F \in [Arenas -> SUBSET Slices],
         \A a \in Registered : a \in Arenas /\ desc[a].n \in 0..MaxArenaSlices
  PROVE  LET G == [F EXCEPT ![r.arena] = @ \cup RunSet(r)] IN
         /\ Exact(G, O \ {r}) /\ G \in [Arenas -> SUBSET Slices]
         /\ \A a \in Arenas : F[a] \subseteq G[a] /\ (a # r.arena => G[a] = F[a])
<1> DEFINE G == [F EXCEPT ![r.arena] = @ \cup RunSet(r)]
<1>4. /\ \A x \in O : x \in Run /\ x.arena \in Registered /\ RunSet(x) \cap F[x.arena] = {}
      /\ \A a \in Registered :
           F[a] \cup UNION {RunSet(y) : y \in {x \in O : x.arena = a}} = 0..(desc[a].n - 1)
      /\ \A x, s \in O : x.arena = s.arena /\ RunSet(x) \cap RunSet(s) # {} => x = s
  BY DEF Exact
<1>1. r.arena \in Arenas /\ r.arena \in Registered
  BY <1>4 DEF Run
<1>2. RunSet(r) \subseteq Slices
  <2>1. RunSet(r) \subseteq 0..(desc[r.arena].n - 1)
    BY <1>1, <1>4
  <2>2. 0..(desc[r.arena].n - 1) \subseteq Slices
    BY <1>1, PoolAssumption DEF Slices
  <2> QED BY <2>1, <2>2
<1>3. /\ G[r.arena] = F[r.arena] \cup RunSet(r) /\ \A a \in Arenas : a # r.arena => G[a] = F[a]
      /\ G \in [Arenas -> SUBSET Slices]
  BY <1>1, <1>2
<1> HIDE DEF G
<1>5. \A x \in O \ {r} : x \in Run /\ x.arena \in Registered /\ RunSet(x) \cap G[x.arena] = {}
  BY <1>1, <1>3, <1>4 DEF Run
<1>6. ASSUME NEW a \in Registered
      PROVE  G[a] \cup UNION {RunSet(y) : y \in {x \in O \ {r} : x.arena = a}} = 0..(desc[a].n - 1)
  <2>1. CASE a = r.arena
    <3>1. UNION {RunSet(y) : y \in {x \in O : x.arena = a}}
            = (UNION {RunSet(y) : y \in {x \in O \ {r} : x.arena = a}}) \cup RunSet(r)
      <4>1. {x \in O : x.arena = a} = {x \in O \ {r} : x.arena = a} \cup {r}
        BY <2>1
      <4> QED BY <4>1, OneMore, Zenon
    <3> QED BY <1>3, <1>4, <2>1, <3>1
  <2>2. CASE a # r.arena
    <3>1. {x \in O \ {r} : x.arena = a} = {x \in O : x.arena = a}
      BY <2>2
    <3> QED BY <1>3, <1>4, <2>2, <3>1
  <2> QED BY <2>1, <2>2
<1>7. Exact(G, O \ {r})
  BY <1>4, <1>5, <1>6 DEF Exact
<1> QED BY <1>3, <1>7 DEF G

(***************************************************************************)
(* A step that claims a run, commits it or gives it back.                  *)
(***************************************************************************)
RunMove(t, w, o) ==
  /\ Moves(t, w, o)
  /\ o.bm = op[t].bm /\ o.dsc = op[t].dsc
  /\ w \notin Makes /\ pc[t] \notin Makes /\ w # "fresh"
  /\ w \in {"freshCommit", "freshHint"} =>
       pc[t] \in {"fresh", "freshCommit", "freshHint"} /\ o.new = op[t].new
  /\ UNCHANGED <<arenas, count, cursor, lock, mapped, desc, meta, client, requests>>
  /\ free' \in [Arenas -> SUBSET Slices] /\ held' \subseteq Run
  /\ \A a \in Arenas : a \notin Registered => free'[a] = free[a]
  /\ quiet' \subseteq quiet
  /\ quiet' \subseteq {t} \/ \A a \in Arenas : free[a] \subseteq free'[a]
  /\ t \in quiet' /\ w # "idle" /\ FitsAnArena(o.n) =>
       w \notin {"dropRegion", "dropBm", "dropDesc", "failed"}

LEMMA RunStep ==
  ASSUME PoolInv, NEW t \in Threads, NEW w, NEW o, RunMove(t, w, o), RunsOut'
  PROVE  PoolInv'
<1> USE DEF RunMove
<1>1. /\ Typed /\ Control /\ Registry /\ Prepared /\ Metadata /\ RunsOut /\ OnCourse
  BY DEF PoolInv
<1>2. /\ pc' \in [Threads -> Pcs] /\ op' \in [Threads -> Ops]
      /\ pc'[t] = w /\ op'[t] = o
      /\ \A u \in Threads \ {t} : pc'[u] = pc[u] /\ op'[u] = op[u]
  BY <1>1, MovedThreads
<1>3. Typed' /\ Control'
  <2>1. /\ arenas \in [0..(MaxArenas - 1) -> Arenas \cup {None}]
        /\ count \in 0..MaxArenas /\ mapped \subseteq Arenas
        /\ cursor \in 0..(MaxArenas - 1) /\ lock \in Threads \cup {None}
        /\ desc \in [Arenas -> [n : 0..MaxArenaSlices, bm : MetaRef, own : MetaRef]]
        /\ nchunks \in 0..NChunks /\ metaFree \subseteq Blocks
        /\ dirty \subseteq Blocks /\ client \in MetaRef /\ requests \in 0..MaxRequests
        /\ quiet \subseteq Threads
    BY <1>1 DEF Typed, TypeOK
  <2>2. count <= count' /\ UNCHANGED <<nchunks, metaFree, dirty>>
    BY <2>1 DEF meta
  <2>3. quiet' \subseteq Threads
    BY <2>1
  <2> QED BY <1>1, <2>1, <2>2, <2>3, MoveStep
<1>4. Registered' = Registered
  BY DEF Registered
<1>5. /\ InMaking' = InMaking /\ t \notin InMaking
      /\ \A u \in InMaking : u \in Threads /\ op'[u].new = op[u].new
  <2>1. \A u \in Threads : pc'[u] \in Makes <=> pc[u] \in Makes
    BY <1>2
  <2>2. \A u \in Threads : pc[u] \in Makes => op'[u].new = op[u].new
    BY <1>2
  <2> QED BY <2>1, <2>2 DEF InMaking, Making, Makes
<1>6. RegionsAreAccountedFor'
  <2>1. {op[u].new : u \in InMaking}' = {op[u].new : u \in InMaking}
    BY <1>5
  <2> QED BY <1>1, <1>4, <1>5, <2>1 DEF Registry, RegionsAreAccountedFor
<1>7. Registry'
  <2>1. \A u \in Threads : lock' = u <=> pc'[u] \in {"add", "publish"}
    BY <1>1, <1>2 DEF Registry, Makes
  <2>2. \A u \in Threads : pc'[u] = "publish" => pc[u] = "publish" /\ op'[u] = op[u]
    BY <1>2 DEF Makes
  <2>3. \A u \in Threads : pc'[u] \in {"fresh", "freshCommit", "freshHint"} =>
          pc[u] \in {"fresh", "freshCommit", "freshHint"} /\ op'[u].new = op[u].new
    BY <1>2
  <2> QED BY <1>1, <1>4, <1>6, <2>1, <2>2, <2>3 DEF Registry
<1>8. Prepared'
  <2>1. \A u \in Threads : pc'[u] \in {"zallocBm", "zallocDesc", "lock", "add", "publish", "fresh"} =>
          pc'[u] = pc[u] /\ op'[u] = op[u]
    BY <1>2 DEF Makes
  <2>2. \A u \in Threads : pc'[u] \in {"lock", "add", "publish"} =>
          free'[op[u].new] = free[op[u].new]
    <3>1. \A u \in Threads : pc'[u] \in {"lock", "add", "publish"} => pc[u] \in Makes /\ u \in InMaking
      BY <2>1 DEF InMaking, Making, Makes
    <3>2. \A u \in Threads : pc[u] \in Makes => op[u].new \in Arenas
      BY <1>1 DEF Control, Carries
    <3>3. \A u \in InMaking : op[u].new \notin Registered
      BY <1>1 DEF Registry, RegionsAreAccountedFor
    <3> QED BY <3>1, <3>2, <3>3
  <2> QED BY <1>1, <2>1, <2>2 DEF Prepared
<1>9. Metadata'
  <2>1. \A a \in Registered : desc'[a].bm = desc[a].bm /\ desc'[a].own = desc[a].own
    OBVIOUS
  <2>2. \A s \in Slots : Ref(s)' = Ref(s)
    BY <1>1, <2>1, RefsKept
  <2> QED BY <1>1, <2>2, MetadataKept
<1>11. OnCourse'
  <2>1. ASSUME NEW u \in quiet', pc'[u] # "idle", FitsAnArena(op'[u].n)
        PROVE  /\ pc'[u] \notin {"dropRegion", "dropBm", "dropDesc", "failed"}
               /\ pc'[u] = "fresh" => free'[op'[u].new] = 0..(desc'[op'[u].new].n - 1)
    <3>1. CASE u = t
      BY <1>2, <2>1, <3>1
    <3>2. CASE u # t
      <4>1. u \in quiet /\ u \in Threads /\ pc'[u] = pc[u] /\ op'[u] = op[u]
        BY <1>1, <1>2, <2>1, <3>2 DEF Typed, TypeOK
      <4>2. /\ pc[u] \notin {"dropRegion", "dropBm", "dropDesc", "failed"}
            /\ pc[u] = "fresh" => free[op[u].new] = 0..(desc[op[u].new].n - 1)
        BY <1>1, <2>1, <4>1 DEF OnCourse
      <4>3. ASSUME pc[u] = "fresh"
            PROVE  free'[op[u].new] = 0..(desc'[op[u].new].n - 1)
        <5>1. PICK a : a = op[u].new
          OBVIOUS
        <5>2. a \in Registered /\ a \in Arenas
          BY <1>1, <4>1, <4>3, <5>1 DEF Registry, Control, Carries
        <5>3. free'[a] \subseteq 0..(desc'[a].n - 1)
          BY <1>4, <5>2 DEF RunsOut, SlicesAreExact
        <5>4. free[a] \subseteq free'[a]
          BY <3>2, <5>2
        <5> QED BY <4>2, <4>3, <5>1, <5>3, <5>4
      <4> QED BY <4>1, <4>2, <4>3
    <3> QED BY <3>1, <3>2
  <2> QED BY <2>1 DEF OnCourse, FitsAnArena
<1> QED BY <1>3, <1>7, <1>8, <1>9, <1>11 DEF PoolInv

LEMMA RegisteredArenas ==
  ASSUME PoolInv
  PROVE  /\ \A a \in Registered : a \in Arenas /\ desc[a].n \in 0..MaxArenaSlices
         /\ free \in [Arenas -> SUBSET Slices] /\ held \subseteq Run /\ Typed /\ RunsOut
         /\ \A i \in 0..(count - 1) : arenas[i] \in Registered
<1>1. /\ Typed /\ Registry /\ RunsOut
      /\ desc \in [Arenas -> [n : 0..MaxArenaSlices, bm : MetaRef, own : MetaRef]]
      /\ free \in [Arenas -> SUBSET Slices] /\ held \subseteq Run
  BY DEF PoolInv, Typed, TypeOK
<1>2. \A a \in Registered : a \in Arenas
  BY <1>1 DEF Registry, Registered
<1> QED BY <1>1, <1>2 DEF Registered

\* find_and_clear_n took a run of a registered arena.
LEMMA ClaimStep ==
  ASSUME PoolInv, NEW t \in Threads, NEW a \in Registered, NEW r \in RunsIn(a, op[t].n),
         Claim(t, r), NEW w, Goto(t, w),
         \/ pc[t] = "search" /\ w = "commit"
         \/ pc[t] = "fresh" /\ w = "freshCommit",
         UNCHANGED <<pool, mapped, desc, meta, client, held, requests>>
  PROVE  PoolInv'
<1>1. /\ op[t] \in Ops /\ Carries(pc[t], op[t]) /\ op[t].cnt <= count
      /\ op \in [Threads -> Ops] /\ pc \in [Threads -> Pcs]
  BY Here
<1>2. /\ a \in Arenas /\ free \in [Arenas -> SUBSET Slices] /\ held \subseteq Run /\ Typed /\ RunsOut
  BY RegisteredArenas
<1>3. /\ op[t].n \in Requests /\ op[t].run = None /\ op[t].bm = NoBlocks /\ op[t].dsc = NoBlocks
      /\ pc[t] = "search" => op[t].cnt > 0 /\ op[t].k < op[t].cnt
      /\ pc[t] = "fresh" => op[t].new \in Arenas
  BY <1>1 DEF Carries, Claims, Makes, Looks
<1>4. /\ r \in Run /\ r.arena = a /\ RunSet(r) \subseteq free[r.arena] /\ r # None
  <2>1. r \in [arena : {a}, first : free[a], n : {op[t].n}] /\ RunSet(r) \subseteq free[a]
    BY DEF RunsIn
  <2>2. free[a] \subseteq Slices
    BY <1>2
  <2>3. r \in Run
    BY <1>2, <1>3, <2>1, <2>2 DEF Run
  <2> QED BY <2>1, <2>3, PoolAssumption
<1> PICK o : o = [op[t] EXCEPT !.run = r]
  OBVIOUS
<1>5. /\ o \in Ops /\ o.n = op[t].n /\ o.cnt = op[t].cnt /\ o.k = op[t].k /\ o.new = op[t].new
      /\ o.bm = op[t].bm /\ o.dsc = op[t].dsc /\ o.run = r
  BY <1>1, <1>4 DEF Ops
<1>6. /\ free' = [free EXCEPT ![r.arena] = @ \ RunSet(r)] /\ op' = [op EXCEPT ![t] = o]
      /\ quiet' = quiet \cap {t} /\ pc' = [pc EXCEPT ![t] = w]
  BY <1>1 DEF Claim, Goto
<1>7. Carries(w, o)
  BY <1>3, <1>4, <1>5 DEF Carries, Claims, Makes, Looks
<1>8. Moves(t, w, o)
  BY <1>1, <1>5, <1>6, <1>7 DEF Moves, Pcs
<1>9. /\ op'[t].run = r /\ \A u \in Threads \ {t} : op'[u].run = op[u].run
  <2>1. op'[t] = o /\ \A u \in Threads \ {t} : op'[u] = op[u]
    BY <1>1, <1>6
  <2> QED BY <1>5, <2>1
<1>10. Claimed' = Claimed \cup {r}
  BY <1>3, <1>4, <1>9 DEF Claimed
<1>11. /\ Exact(free, held \cup Claimed) /\ held \cap Claimed = {}
       /\ \A u, v \in Threads : op[u].run # None /\ op[u].run = op[v].run => u = v
       /\ \A u \in Threads : op[u].run # None => op[u].run \in Claimed
  BY <1>2, RunsApart
<1> PICK F : F = free
  OBVIOUS
<1> PICK O : O = held \cup Claimed
  OBVIOUS
<1> PICK G : G = free'
  OBVIOUS
<1>12. Exact(G, O \cup {r}) /\ r \notin O /\ G \in [Arenas -> SUBSET Slices]
  <2>1. F \in [Arenas -> SUBSET Slices] /\ Exact(F, O) /\ r.arena \in Registered
        /\ RunSet(r) \subseteq F[r.arena]
    BY <1>2, <1>4, <1>11
  <2>2. G = [F EXCEPT ![r.arena] = @ \ RunSet(r)]
    BY <1>6
  <2>3. LET H == [F EXCEPT ![r.arena] = @ \ RunSet(r)] IN
        Exact(H, O \cup {r}) /\ r \notin O /\ H \in [Arenas -> SUBSET Slices]
    BY <1>4, <2>1, RunGoesOut
  <2> QED BY ONLY <2>2, <2>3, Zenon
<1>13. RunsOut'
  <2>1. O \cup {r} = (held \cup Claimed)'
    BY <1>10
  <2>2. (held \cap Claimed)' = {}
    BY <1>10, <1>11, <1>12
  <2>3. \A u, v \in Threads : op'[u].run # None /\ op'[u].run = op'[v].run => u = v
    BY <1>9, <1>11, <1>12
  <2>4. UNCHANGED <<arenas, count>> /\ \A b \in Registered : desc'[b].n = desc[b].n
    BY DEF pool
  <2>5. PICK Q : Q = O \cup {r}
    OBVIOUS
  <2> QED BY <1>12, <2>1, <2>2, <2>3, <2>4, <2>5, RunsApartAfter
<1>14. \A b \in Arenas : b \notin Registered => free'[b] = free[b]
  BY <1>2, <1>4, <1>6
<1>15. RunMove(t, w, o)
  BY <1>2, <1>3, <1>5, <1>6, <1>8, <1>12, <1>14 DEF RunMove, Makes, pool
<1> QED BY <1>13, <1>15, RunStep

LEMMA SearchStep ==
  ASSUME PoolInv, NEW t \in Threads, Search(t)
  PROVE  PoolInv'
<1> PICK a : a = arenas[Index(t)]
  OBVIOUS
<1>1. /\ pc[t] = "search" /\ UNCHANGED <<pool, mapped, desc, meta, client, held, requests>>
      /\ \/ (\E r \in RunsIn(a, op[t].n) : Claim(t, r)) /\ Goto(t, "commit")
         \/ NextArena(t) /\ UNCHANGED <<free, quiet>>
  BY DEF Search
<1>2. a \in Registered
  <2>1. Index(t) \in 0..(op[t].cnt - 1) /\ op[t].cnt \in 1..count /\ count \in 0..MaxArenas
    BY <1>1, IndexBound DEF Looks
  <2>2. Index(t) \in 0..(count - 1)
    BY <2>1
  <2> QED BY <2>2, RegisteredArenas
<1>3. CASE (\E r \in RunsIn(a, op[t].n) : Claim(t, r)) /\ Goto(t, "commit")
  <2>1. PICK r \in RunsIn(a, op[t].n) : Claim(t, r)
    BY <1>3
  <2> QED BY <1>1, <1>2, <1>3, <2>1, ClaimStep
<1>4. CASE NextArena(t) /\ UNCHANGED <<free, quiet>>
  BY <1>1, <1>4, NextArenaStep
<1> QED BY <1>1, <1>3, <1>4

\* The arena a request has just published serves it if nobody has been there.
LEMMA OwnArenaServes ==
  ASSUME PoolInv, NEW t \in Threads, pc[t] = "fresh", t \in quiet, FitsAnArena(op[t].n)
  PROVE  RunsIn(op[t].new, op[t].n) # {}
<1> PICK a : a = op[t].new
  OBVIOUS
<1> PICK n : n = op[t].n
  OBVIOUS
<1>1. n \in Requests /\ n \in Nat \ {0} /\ DefaultSlices \in Nat /\ ChunkSlices \in Nat \ {0}
  BY Here, PoolAssumption DEF Carries
<1>2. free[a] = 0..(desc[a].n - 1)
  BY DEF PoolInv, OnCourse
<1>3. desc[a].n = ReserveSize(n)
  BY DEF PoolInv, Prepared
<1>4. ReserveSize(n) \in Nat /\ ReserveSize(n) >= n
  BY <1>1 DEF ReserveSize
<1> PICK m \in Nat : m = ReserveSize(n) /\ m >= n
  BY <1>4
<1>5. free[a] = 0..(m - 1)
  BY <1>2, <1>3
<1> PICK r : r = [arena |-> a, first |-> 0, n |-> n]
  OBVIOUS
<1>6. RunSet(r) = 0..(0 + n - 1)
  BY DEF RunSet
<1>7. 0 \in free[a] /\ RunSet(r) \subseteq free[a]
  BY <1>1, <1>5, <1>6
<1>8. n <= ChunkSlices => InOneChunk(r)
  <2> SUFFICES ASSUME n <= ChunkSlices PROVE 0 \div ChunkSlices = (0 + n - 1) \div ChunkSlices
    BY DEF InOneChunk
  <2>1. PICK c \in Nat \ {0} : c = ChunkSlices
    BY <1>1
  <2>2. PICK e \in Nat : e = 0 + n - 1 /\ e < c
    BY <1>1, <2>1
  <2>3. 0 \div c = 0 /\ e \div c = 0
    BY <2>2
  <2> QED BY <2>1, <2>2, <2>3
<1>9. r \in [arena : {a}, first : free[a], n : {n}]
  BY <1>7
<1>10. r \in RunsIn(a, n)
  BY <1>7, <1>8, <1>9 DEF RunsIn
<1> QED BY <1>10

LEMMA FreshStep ==
  ASSUME PoolInv, NEW t \in Threads, Fresh(t)
  PROVE  PoolInv'
<1> PICK a : a = op[t].new
  OBVIOUS
<1>1. /\ pc[t] = "fresh" /\ UNCHANGED <<pool, mapped, desc, meta, client, held, requests>>
      /\ \/ (\E r \in RunsIn(a, op[t].n) : Claim(t, r)) /\ Goto(t, "freshCommit")
         \/ RunsIn(a, op[t].n) = {} /\ Goto(t, "failed") /\ UNCHANGED <<free, op, quiet>>
  BY DEF Fresh
<1>2. a \in Registered
  BY <1>1 DEF PoolInv, Registry
<1>3. CASE (\E r \in RunsIn(a, op[t].n) : Claim(t, r)) /\ Goto(t, "freshCommit")
  <2>1. PICK r \in RunsIn(a, op[t].n) : Claim(t, r)
    BY <1>3
  <2> QED BY <1>1, <1>2, <1>3, <2>1, ClaimStep
<1>4. CASE RunsIn(a, op[t].n) = {} /\ Goto(t, "failed") /\ UNCHANGED <<free, op, quiet>>
  <2>1. op[t] \in Ops /\ Carries(pc[t], op[t]) /\ lock \in Threads \cup {None} /\ pc \in [Threads -> Pcs]
    BY Here
  <2>2. Carries("failed", op[t]) /\ "failed" \in Pcs
    BY <1>1, <2>1 DEF Carries, Claims, Makes, Looks, Pcs
  <2>3. \A u \in Threads : lock' = u <=> pc'[u] \in {"add", "publish"}
    BY <1>1, <1>4, <2>1 DEF Goto, PoolInv, Registry, pool
  <2>4. ~(t \in quiet /\ FitsAnArena(op[t].n))
    BY <1>1, <1>4, OwnArenaServes
  <2>5. UNCHANGED <<arenas, count, cursor, lock>>
    BY <1>1 DEF pool
  <2> QED BY <1>1, <1>4, <2>1, <2>2, <2>3, <2>4, <2>5, PlaceStep DEF Makes
<1> QED BY <1>1, <1>3, <1>4

\* A thread lets go of the run it has claimed.
LEMMA Released ==
  ASSUME PoolInv, NEW t \in Threads, pc[t] \in Claims, NEW w, NEW o, Moves(t, w, o), o.run = None
  PROVE  /\ Claimed' = Claimed \ {op[t].run} /\ op[t].run \in Claimed /\ op[t].run \in Run
         /\ \A u, v \in Threads : op'[u].run # None /\ op'[u].run = op'[v].run => u = v
         /\ Exact(free, held \cup Claimed) /\ held \cap Claimed = {}
<1>1. Typed /\ RunsOut /\ op[t].run # None
  BY Here DEF PoolInv, Carries
<1>2. op'[t].run = None /\ \A u \in Threads \ {t} : op'[u].run = op[u].run
  <2>1. op'[t] = o /\ \A u \in Threads \ {t} : op'[u] = op[u]
    BY <1>1, MovedThreads
  <2> QED BY <2>1
<1>3. /\ Exact(free, held \cup Claimed) /\ held \cap Claimed = {}
      /\ \A u, v \in Threads : op[u].run # None /\ op[u].run = op[v].run => u = v
      /\ \A u \in Threads : op[u].run # None => op[u].run \in Claimed /\ op[u].run \in Run
  BY <1>1, RunsApart
<1>4. Claimed' = Claimed \ {op[t].run}
  BY <1>1, <1>2, <1>3 DEF Claimed
<1>5. \A u, v \in Threads : op'[u].run # None /\ op'[u].run = op'[v].run => u = v
  BY <1>2, <1>3
<1> QED BY <1>1, <1>3, <1>4, <1>5

LEMMA CommitStep ==
  ASSUME PoolInv, NEW t \in Threads, Commit(t)
  PROVE  PoolInv'
<1>1. /\ op[t] \in Ops /\ Carries(pc[t], op[t]) /\ op[t].cnt <= count
      /\ op \in [Threads -> Ops] /\ pc \in [Threads -> Pcs] /\ count \in 0..MaxArenas
  BY Here
<1>2. /\ pc[t] \in {"commit", "freshCommit"} /\ held' = held \cup {op[t].run}
      /\ UNCHANGED <<arenas, count, cursor, lock, mapped, desc, free, meta, client, requests, quiet>>
      /\ \/ Return(t)
         \/ /\ op' = [op EXCEPT ![t].run = None]
            /\ Goto(t, IF pc[t] = "commit" THEN "hint" ELSE "freshHint")
  BY DEF Commit, pool
<1>3. /\ op[t].n \in Requests /\ op[t].bm = NoBlocks /\ op[t].dsc = NoBlocks /\ op[t].run # None
      /\ pc[t] = "commit" => op[t].cnt > 0 /\ op[t].k < op[t].cnt
      /\ pc[t] = "freshCommit" => op[t].new \in Arenas
  BY <1>1, <1>2 DEF Carries, Claims, Makes, Looks
<1>4. free \in [Arenas -> SUBSET Slices] /\ held \subseteq Run
  BY RegisteredArenas
<1>5. \E w, o : /\ Moves(t, w, o) /\ o.run = None /\ o.bm = op[t].bm /\ o.dsc = op[t].dsc
                /\ w \in {"idle", "hint", "freshHint"}
                /\ w = "freshHint" => pc[t] = "freshCommit" /\ o.new = op[t].new
  <2>1. CASE Return(t)
    <3>1. Moves(t, "idle", NoOp) /\ NoOp.run = None /\ NoOp.bm = op[t].bm /\ NoOp.dsc = op[t].dsc
      BY <1>3, <2>1, ReturnMoves DEF NoOp
    <3> QED BY <3>1
  <2>2. CASE /\ op' = [op EXCEPT ![t].run = None]
             /\ Goto(t, IF pc[t] = "commit" THEN "hint" ELSE "freshHint")
    <3> PICK o : o = [op[t] EXCEPT !.run = None]
      OBVIOUS
    <3> PICK w : w = IF pc[t] = "commit" THEN "hint" ELSE "freshHint"
      OBVIOUS
    <3>1. /\ o \in Ops /\ o.n = op[t].n /\ o.cnt = op[t].cnt /\ o.k = op[t].k /\ o.new = op[t].new
          /\ o.bm = op[t].bm /\ o.dsc = op[t].dsc /\ o.run = None
      BY <1>1 DEF Ops
    <3>2. Carries(w, o)
      BY <1>2, <1>3, <3>1 DEF Carries, Claims, Makes, Looks
    <3>3. op' = [op EXCEPT ![t] = o] /\ pc' = [pc EXCEPT ![t] = w]
      BY <1>1, <2>2 DEF Goto
    <3>4. Moves(t, w, o)
      BY <1>1, <3>1, <3>2, <3>3 DEF Moves, Pcs
    <3>5. w \in {"idle", "hint", "freshHint"} /\ (w = "freshHint" => pc[t] = "freshCommit")
      BY <1>2
    <3> QED BY ONLY <3>1, <3>4, <3>5, Zenon
  <2> QED BY <1>2, <2>1, <2>2
<1>6. PICK w, o : /\ Moves(t, w, o) /\ o.run = None /\ o.bm = op[t].bm /\ o.dsc = op[t].dsc
                  /\ w \in {"idle", "hint", "freshHint"}
                  /\ w = "freshHint" => pc[t] = "freshCommit" /\ o.new = op[t].new
  BY <1>5
<1>7. /\ Claimed' = Claimed \ {op[t].run} /\ op[t].run \in Claimed /\ op[t].run \in Run
      /\ \A u, v \in Threads : op'[u].run # None /\ op'[u].run = op'[v].run => u = v
      /\ Exact(free, held \cup Claimed) /\ held \cap Claimed = {}
  BY <1>2, <1>6, Released DEF Claims
<1>8. RunsOut'
  <2> PICK F : F = free'
    OBVIOUS
  <2> PICK O : O = (held \cup Claimed)'
    OBVIOUS
  <2>1. O = held \cup Claimed /\ F = free
    BY <1>2, <1>7
  <2>2. Exact(F, O) /\ (held \cap Claimed)' = {}
    BY <1>2, <1>7, <2>1
  <2> QED BY <1>2, <1>7, <2>2, RunsApartAfter
<1>9. RunMove(t, w, o)
  BY <1>2, <1>4, <1>6, <1>7 DEF RunMove, Makes
<1> QED BY <1>8, <1>9, RunStep

\* A run that was out is free again; the threads are as the caller says.
LEMMA BackInPlace ==
  ASSUME PoolInv, NEW r \in held \cup Claimed,
         free' = [free EXCEPT ![r.arena] = @ \cup RunSet(r)],
         (held \cup Claimed)' = (held \cup Claimed) \ {r}, (held \cap Claimed)' = {},
         \A u, v \in Threads : op'[u].run # None /\ op'[u].run = op'[v].run => u = v,
         UNCHANGED <<arenas, count, desc>>
  PROVE  /\ RunsOut' /\ free' \in [Arenas -> SUBSET Slices]
         /\ \A a \in Arenas : free[a] \subseteq free'[a]
         /\ \A a \in Arenas : a \notin Registered => free'[a] = free[a]
<1>1. /\ \A a \in Registered : a \in Arenas /\ desc[a].n \in 0..MaxArenaSlices
      /\ free \in [Arenas -> SUBSET Slices] /\ Typed /\ RunsOut
  BY RegisteredArenas
<1>2. Exact(free, held \cup Claimed)
  BY <1>1, RunsApart
<1> PICK F : F = free
  OBVIOUS
<1> PICK O : O = held \cup Claimed
  OBVIOUS
<1> PICK G : G = free'
  OBVIOUS
<1> PICK Q : Q = O \ {r}
  OBVIOUS
<1>3. LET H == [F EXCEPT ![r.arena] = @ \cup RunSet(r)] IN
      /\ Exact(H, O \ {r}) /\ H \in [Arenas -> SUBSET Slices]
      /\ \A a \in Arenas : F[a] \subseteq H[a] /\ (a # r.arena => H[a] = F[a])
  <2>1. Exact(F, O) /\ r \in O /\ F \in [Arenas -> SUBSET Slices]
    BY <1>1, <1>2
  <2>2. \A a \in Registered : a \in Arenas /\ desc[a].n \in 0..MaxArenaSlices
    BY <1>1
  <2> QED BY ONLY <2>1, <2>2, RunComesBack, Zenon
<1>4. G = [F EXCEPT ![r.arena] = @ \cup RunSet(r)]
  OBVIOUS
<1>5. /\ Exact(G, Q) /\ G \in [Arenas -> SUBSET Slices]
      /\ \A a \in Arenas : F[a] \subseteq G[a] /\ (a # r.arena => G[a] = F[a])
  BY ONLY <1>3, <1>4, Q = O \ {r}, Zenon
<1>6. RunsOut'
  <2>1. Q = (held \cup Claimed)' /\ \A a \in Registered : desc'[a].n = desc[a].n
    OBVIOUS
  <2>2. UNCHANGED <<arenas, count>> /\ Exact(G, Q) /\ G = free'
    BY <1>5
  <2> QED BY <2>1, <2>2, RunsApartAfter
<1>7. r.arena \in Registered
  BY <1>1 DEF RunsOut
<1> QED BY <1>5, <1>6, <1>7

LEMMA CommitFailsStep ==
  ASSUME PoolInv, NEW t \in Threads, CommitFails(t)
  PROVE  PoolInv'
<1>1. /\ op[t] \in Ops /\ Carries(pc[t], op[t]) /\ op[t].cnt <= count
      /\ op \in [Threads -> Ops] /\ pc \in [Threads -> Pcs] /\ count \in 0..MaxArenas
      /\ quiet \subseteq Threads
  BY Here
<1> PICK r : r = op[t].run
  OBVIOUS
<1>2. /\ pc[t] \in {"commit", "freshCommit"} /\ quiet' = quiet \ {t}
      /\ free' = [free EXCEPT ![r.arena] = @ \cup RunSet(r)]
      /\ UNCHANGED <<arenas, count, cursor, lock, mapped, desc, meta, client, held, requests>>
      /\ \/ pc[t] = "commit" /\ NextArena(t)
         \/ /\ pc[t] = "freshCommit" /\ op' = [op EXCEPT ![t].run = None] /\ Goto(t, "failed")
  BY DEF CommitFails, pool
<1>3. /\ op[t].n \in Requests /\ op[t].bm = NoBlocks /\ op[t].dsc = NoBlocks /\ op[t].run # None
      /\ op[t].k \in Nat /\ op[t].cnt \in Nat
      /\ pc[t] = "commit" => op[t].cnt > 0 /\ op[t].k < op[t].cnt
  BY <1>1, <1>2, OpTypes, PoolAssumption DEF Carries, Claims, Makes, Looks
<1>4. held \subseteq Run
  BY RegisteredArenas
<1>5. \E w, o : /\ Moves(t, w, o) /\ o.run = None /\ o.bm = op[t].bm /\ o.dsc = op[t].dsc
                /\ w \in {"search", "reserve", "failed"}
  <2>1. CASE pc[t] = "commit" /\ NextArena(t)
    <3> PICK o : o = [op[t] EXCEPT !.k = @ + 1, !.run = None]
      OBVIOUS
    <3> PICK w : w = IF op[t].k + 1 < op[t].cnt THEN "search" ELSE "reserve"
      OBVIOUS
    <3>1. /\ o \in Ops /\ o.n = op[t].n /\ o.cnt = op[t].cnt /\ o.bm = op[t].bm /\ o.dsc = op[t].dsc
          /\ o.run = None /\ o.k = op[t].k + 1
      <4>1. op[t].k + 1 \in Nat
        BY <1>3
      <4> QED BY <1>1, <4>1 DEF Ops
    <3>2. Carries(w, o)
      BY <1>3, <2>1, <3>1 DEF Carries, Claims, Makes, Looks
    <3>3. op' = [op EXCEPT ![t] = o] /\ pc' = [pc EXCEPT ![t] = w]
      BY <1>1, <2>1 DEF NextArena, Goto
    <3>4. Moves(t, w, o)
      BY <1>1, <3>1, <3>2, <3>3 DEF Moves, Pcs
    <3>5. w \in {"search", "reserve", "failed"}
      OBVIOUS
    <3> QED BY ONLY <3>1, <3>4, <3>5, Zenon
  <2>2. CASE pc[t] = "freshCommit" /\ op' = [op EXCEPT ![t].run = None] /\ Goto(t, "failed")
    <3> PICK o : o = [op[t] EXCEPT !.run = None]
      OBVIOUS
    <3>1. /\ o \in Ops /\ o.n = op[t].n /\ o.cnt = op[t].cnt /\ o.bm = op[t].bm /\ o.dsc = op[t].dsc
          /\ o.run = None
      BY <1>1 DEF Ops
    <3>2. Carries("failed", o)
      BY <1>3, <2>2, <3>1 DEF Carries, Claims, Makes, Looks
    <3>3. op' = [op EXCEPT ![t] = o] /\ pc' = [pc EXCEPT ![t] = "failed"]
      BY <1>1, <2>2 DEF Goto
    <3>4. Moves(t, "failed", o)
      BY <1>1, <3>1, <3>2, <3>3 DEF Moves, Pcs
    <3>5. "failed" \in {"search", "reserve", "failed"}
      OBVIOUS
    <3> QED BY ONLY <3>1, <3>4, <3>5, Zenon
  <2> QED BY <1>2, <2>1, <2>2
<1>6. PICK w, o : /\ Moves(t, w, o) /\ o.run = None /\ o.bm = op[t].bm /\ o.dsc = op[t].dsc
                  /\ w \in {"search", "reserve", "failed"}
  BY <1>5
<1>7. /\ Claimed' = Claimed \ {r} /\ r \in Claimed /\ held \cap Claimed = {}
      /\ \A u, v \in Threads : op'[u].run # None /\ op'[u].run = op'[v].run => u = v
  BY <1>2, <1>6, Released DEF Claims
<1>8. (held \cup Claimed)' = (held \cup Claimed) \ {r} /\ (held \cap Claimed)' = {}
  BY <1>2, <1>7
<1>9. /\ RunsOut' /\ free' \in [Arenas -> SUBSET Slices]
      /\ \A a \in Arenas : free[a] \subseteq free'[a]
      /\ \A a \in Arenas : a \notin Registered => free'[a] = free[a]
  BY <1>2, <1>7, <1>8, BackInPlace
<1>10. RunMove(t, w, o)
  BY <1>2, <1>4, <1>6, <1>9 DEF RunMove, Makes
<1> QED BY <1>9, <1>10, RunStep

LEMMA FreeSlicesStep ==
  ASSUME PoolInv, NEW t \in Threads, NEW r \in held, free_slices(t, r)
  PROVE  PoolInv'
<1> PICK o : o = op[t]
  OBVIOUS
<1>1. /\ o \in Ops /\ Carries(pc[t], o) /\ o.cnt <= count
      /\ op \in [Threads -> Ops] /\ pc \in [Threads -> Pcs]
  BY Here
<1>2. /\ pc[t] = "idle" /\ held' = held \ {r}
      /\ free' = [free EXCEPT ![r.arena] = @ \cup RunSet(r)]
      /\ UNCHANGED <<arenas, count, cursor, lock, mapped, desc, meta, client, pc, op, requests, quiet>>
  BY DEF free_slices, pool
<1>3. pc' = [pc EXCEPT ![t] = "idle"] /\ op' = [op EXCEPT ![t] = o]
  BY <1>1, <1>2
<1>4. Moves(t, "idle", o)
  BY <1>1, <1>2, <1>3 DEF Moves, Pcs
<1>5. /\ held \cap Claimed = {} /\ held \subseteq Run
      /\ \A u, v \in Threads : op[u].run # None /\ op[u].run = op[v].run => u = v
  BY RegisteredArenas, RunsApart
<1>6. Claimed' = Claimed
  BY <1>2 DEF Claimed
<1>7. (held \cup Claimed)' = (held \cup Claimed) \ {r} /\ (held \cap Claimed)' = {}
  BY <1>2, <1>5, <1>6
<1>8. /\ RunsOut' /\ free' \in [Arenas -> SUBSET Slices]
      /\ \A a \in Arenas : free[a] \subseteq free'[a]
      /\ \A a \in Arenas : a \notin Registered => free'[a] = free[a]
  BY <1>2, <1>5, <1>7, BackInPlace
<1>9. RunMove(t, "idle", o)
  BY <1>2, <1>4, <1>5, <1>8 DEF RunMove, Makes
<1> QED BY <1>8, <1>9, RunStep

-----------------------------------------------------------------------------
(***************************************************************************)
(* meta_zalloc and meta_free.                                              *)
(***************************************************************************)
LEMMA DataGrows ==
  ASSUME NEW k \in 0..NChunks
  PROVE  /\ DataOf(k) \subseteq Blocks
         /\ k < NChunks => /\ k + 1 \in 1..NChunks
                           /\ DataOf(k + 1) = DataOf(k) \cup DataBlocks(k + 1)
                           /\ DataOf(k) \cap DataBlocks(k + 1) = {}
<1>1. NChunks \in Nat
  BY PoolAssumption
<1>2. \A x : x \in DataOf(k) <=> \E c \in 1..k : x \in DataBlocks(c)
  BY DEF DataOf
<1>3. \A c \in 1..k : c \in 1..NChunks /\ c \in Nat \ {0} /\ c # k + 1
  BY <1>1
<1>4. DataOf(k) \subseteq Blocks
  BY <1>2, <1>3, ChunksApart
<1>5. ASSUME k < NChunks
      PROVE  /\ k + 1 \in 1..NChunks /\ DataOf(k + 1) = DataOf(k) \cup DataBlocks(k + 1)
             /\ DataOf(k) \cap DataBlocks(k + 1) = {}
  <2>1. k + 1 \in 1..NChunks /\ k + 1 \in Nat \ {0}
    BY <1>1, <1>5
  <2>2. \A c : c \in 1..(k + 1) <=> c \in 1..k \/ c = k + 1
    <3>1. k \in Nat
      BY <1>1
    <3> QED BY ONLY <3>1
  <2>3. \A x : x \in DataOf(k + 1) <=> \E c \in 1..(k + 1) : x \in DataBlocks(c)
    BY DEF DataOf
  <2>4. \A x : x \in DataOf(k + 1) <=> x \in DataOf(k) \/ x \in DataBlocks(k + 1)
    BY <1>2, <2>2, <2>3, Zenon
  <2>5. DataOf(k) \cap DataBlocks(k + 1) = {}
    BY <1>2, <1>3, <2>1, ChunksApart
  <2> QED BY <2>1, <2>4, <2>5
<1> QED BY <1>4, <1>5

\* The blocks of a run taken were free, or came with a new chunk.
LEMMA BlocksTaken ==
  ASSUME Typed, Metadata, NEW n \in Nat \ {0}, NEW r, MetaReuse(n, r) \/ MetaGrow(n, r)
  PROVE  /\ r \in MetaRef /\ nchunks' \in 0..NChunks
         /\ DataOf(nchunks)' \subseteq Blocks /\ DataOf(nchunks) \subseteq DataOf(nchunks)'
         /\ Span(r) \subseteq DataOf(nchunks)'
         /\ Span(r) \cap (DataOf(nchunks) \ metaFree) = {}
         /\ metaFree' = (metaFree \cup (DataOf(nchunks)' \ DataOf(nchunks))) \ Span(r)
         /\ dirty' \subseteq metaFree'
         /\ nchunks' # nchunks /\ r = NoBlocks => n > MetaBlocks - HeaderBlocks
         /\ MetaReuse(n, r) => nchunks' = nchunks
<1>1. /\ nchunks \in 0..NChunks /\ NChunks \in Nat
      /\ metaFree \subseteq DataOf(nchunks) /\ dirty \subseteq metaFree
  BY PoolAssumption DEF Typed, TypeOK, Metadata
<1>2. CASE MetaReuse(n, r)
  <2>1. /\ r = FirstFit(n, 1..nchunks, metaFree) /\ r # NoBlocks /\ metaFree' = metaFree \ Span(r)
        /\ dirty' = dirty \ Span(r) /\ nchunks' = nchunks
    BY <1>2 DEF MetaReuse, Recycled
  <2> PICK C : C = 1..nchunks
    OBVIOUS
  <2> PICK A : A = metaFree
    OBVIOUS
  <2>2. C \subseteq 1..NChunks /\ r = FirstFit(n, C, A)
    BY <1>1, <2>1
  <2>3. r \in MetaRef /\ \E c \in C : Span(r) \subseteq DataBlocks(c) \cap A
    <3>1. LET f == FirstFit(n, C, A) IN
          /\ f \in MetaRef
          /\ f # NoBlocks => \E c \in C : Span(f) \subseteq DataBlocks(c) \cap A
      BY <2>2, FirstFitFinds, Zenon
    <3> QED BY ONLY <2>1, <2>2, <3>1, Zenon
  <2>4. DataOf(nchunks)' = DataOf(nchunks) /\ DataOf(nchunks) \subseteq Blocks
    BY <1>1, <2>1, DataGrows DEF DataOf
  <2>5. Span(r) \subseteq metaFree
    BY <2>3
  <2> QED BY <1>1, <2>1, <2>3, <2>4, <2>5
<1>3. CASE MetaGrow(n, r)
  <2> PICK k : k = nchunks + 1
    OBVIOUS
  <2> PICK D : D = DataBlocks(k)
    OBVIOUS
  <2> PICK C : C = {k}
    OBVIOUS
  <2>1. /\ nchunks < NChunks /\ nchunks' = k /\ r = FirstFit(n, C, D)
        /\ metaFree' = metaFree \cup (D \ Span(r)) /\ dirty' = dirty
    BY <1>3 DEF MetaGrow, Grown
  <2>2. /\ k \in 1..NChunks /\ k # nchunks /\ C \subseteq 1..NChunks
    BY <1>1, <2>1
  <2>3. r \in MetaRef /\ (r # NoBlocks => Span(r) \subseteq D)
    BY <2>1, <2>2, FirstFitFinds
  <2>4. Span(r) \subseteq D
    BY <2>3, NoSpan
  <2>5. /\ DataOf(nchunks) \subseteq Blocks /\ DataOf(k) = DataOf(nchunks) \cup D
        /\ DataOf(nchunks) \cap D = {} /\ DataOf(k) \subseteq Blocks
    <3>1. k \in 0..NChunks
      BY <1>1, <2>1
    <3> QED BY <1>1, <2>1, <3>1, DataGrows
  <2>6. DataOf(nchunks)' = DataOf(k)
    BY <2>1 DEF DataOf
  <2>7. r = NoBlocks => n > MetaBlocks - HeaderBlocks
    <3>1. MetaBlocks - HeaderBlocks \in Int
      BY PoolAssumption
    <3>2. n <= MetaBlocks - HeaderBlocks => r # NoBlocks
      BY <2>1, <2>2, FreshChunkServes
    <3> QED BY <3>1, <3>2
  <2>8. nchunks' \in 0..NChunks
    BY <1>1, <2>1, <2>2
  <2>9. metaFree' = (metaFree \cup (DataOf(nchunks)' \ DataOf(nchunks))) \ Span(r)
    BY <1>1, <2>1, <2>4, <2>5, <2>6
  <2>10. dirty' \subseteq metaFree' /\ Span(r) \cap (DataOf(nchunks) \ metaFree) = {}
    BY <1>1, <2>1, <2>4, <2>5
  <2>11. ~MetaReuse(n, r)
    BY <1>1, <2>1, <2>2 DEF MetaReuse
  <2> QED BY <2>3, <2>4, <2>5, <2>6, <2>7, <2>8, <2>9, <2>10, <2>11
<1> QED BY <1>2, <1>3

LEMMA MetaTaken ==
  ASSUME Typed, Metadata, NEW n \in Nat \ {0}, NEW r, MetaReuse(n, r) \/ MetaGrow(n, r),
         NEW x \in Slots, Ref(x) = NoBlocks, Ref(x)' = r,
         \A s \in Slots : s # x => Ref(s)' = Ref(s)
  PROVE  /\ Metadata' /\ r \in MetaRef /\ nchunks' \in 0..NChunks
         /\ metaFree' \subseteq Blocks /\ dirty' \subseteq Blocks
<1> PICK D : D = DataOf(nchunks)
  OBVIOUS
<1> PICK E : E = DataOf(nchunks)'
  OBVIOUS
<1>1. /\ r \in MetaRef /\ nchunks' \in 0..NChunks /\ E \subseteq Blocks /\ D \subseteq E
      /\ Span(r) \subseteq E /\ Span(r) \cap (D \ metaFree) = {}
      /\ metaFree' = (metaFree \cup (E \ D)) \ Span(r) /\ dirty' \subseteq metaFree'
  BY BlocksTaken
<1>2. /\ \A s \in Slots : Span(Ref(s)) \subseteq D \ metaFree
      /\ \A s, u \in Slots : s # u => Span(Ref(s)) \cap Span(Ref(u)) = {}
      /\ \A y \in D : y \in metaFree \/ \E s \in Slots : y \in Span(Ref(s))
      /\ metaFree \subseteq D
  BY DEF Metadata
<1>3. Span(Ref(x)) = {} /\ Span(Ref(x))' = Span(r)
  BY NoSpan DEF Span
<1>4. \A s \in Slots : s # x => Span(Ref(s))' = Span(Ref(s))
  BY DEF Span
<1>5. \A s \in Slots : Span(Ref(s))' \subseteq E \ metaFree'
  BY <1>1, <1>2, <1>3, <1>4
<1>6. \A s \in Slots : s # x => Span(Ref(s)) \cap Span(r) = {}
  BY <1>1, <1>2
<1>7. \A s, u \in Slots : s # u => Span(Ref(s))' \cap Span(Ref(u))' = {}
  BY <1>2, <1>3, <1>4, <1>6
<1>8. \A y \in E : y \in metaFree' \/ \E s \in Slots : y \in Span(Ref(s))'
  <2>1. ASSUME NEW y \in E, y \notin metaFree'
        PROVE  \E s \in Slots : y \in Span(Ref(s))'
    <3>1. CASE y \in Span(r)
      BY <1>3, <3>1
    <3>2. CASE y \notin Span(r)
      <4>1. y \in D /\ y \notin metaFree
        BY <1>1, <2>1, <3>2
      <4>2. PICK s \in Slots : y \in Span(Ref(s))
        BY <1>2, <4>1
      <4> QED BY <1>3, <1>4, <4>2
    <3> QED BY <3>1, <3>2
  <2> QED BY <2>1
<1>9. metaFree' \subseteq E
  BY <1>1, <1>2
<1>10. Metadata'
  BY <1>1, <1>5, <1>7, <1>8, <1>9 DEF Metadata
<1> QED BY <1>1, <1>9, <1>10

LEMMA MetaGiven ==
  ASSUME Typed, Metadata, NEW r, meta_free(r), NEW x \in Slots, Ref(x) = r, Ref(x)' = NoBlocks,
         \A s \in Slots : s # x => Ref(s)' = Ref(s)
  PROVE  /\ Metadata' /\ nchunks' \in 0..NChunks
         /\ metaFree' \subseteq Blocks /\ dirty' \subseteq Blocks
<1> PICK D : D = DataOf(nchunks)
  OBVIOUS
<1>1. /\ nchunks \in 0..NChunks /\ nchunks' = nchunks /\ metaFree' = metaFree \cup Span(r)
      /\ dirty' = dirty \cup Span(r)
  BY DEF Typed, TypeOK, meta_free
<1>2. D \subseteq Blocks /\ DataOf(nchunks)' = D
  BY <1>1, DataGrows DEF DataOf
<1>3. /\ \A s \in Slots : Span(Ref(s)) \subseteq D \ metaFree
      /\ \A s, u \in Slots : s # u => Span(Ref(s)) \cap Span(Ref(u)) = {}
      /\ \A y \in D : y \in metaFree \/ \E s \in Slots : y \in Span(Ref(s))
      /\ metaFree \subseteq D /\ dirty \subseteq metaFree
  BY DEF Metadata
<1>4. Span(Ref(x)) = Span(r) /\ Span(Ref(x))' = {}
  BY NoSpan DEF Span
<1>5. \A s \in Slots : s # x => Span(Ref(s))' = Span(Ref(s))
  BY DEF Span
<1>6. \A s \in Slots : Span(Ref(s))' \subseteq D \ metaFree'
  BY <1>1, <1>3, <1>4, <1>5
<1>7. \A s, u \in Slots : s # u => Span(Ref(s))' \cap Span(Ref(u))' = {}
  BY <1>3, <1>4, <1>5
<1>8. \A y \in D : y \in metaFree' \/ \E s \in Slots : y \in Span(Ref(s))'
  <2>1. ASSUME NEW y \in D, y \notin metaFree'
        PROVE  \E s \in Slots : y \in Span(Ref(s))'
    <3>1. PICK s \in Slots : y \in Span(Ref(s))
      BY <1>1, <1>3, <2>1
    <3> QED BY <1>1, <1>4, <1>5, <2>1, <3>1
  <2> QED BY <2>1
<1>9. metaFree' \subseteq D /\ dirty' \subseteq metaFree'
  BY <1>1, <1>3, <1>4
<1>10. Metadata'
  BY <1>2, <1>6, <1>7, <1>8, <1>9 DEF Metadata
<1> QED BY <1>1, <1>2, <1>9, <1>10

\* A heap takes or returns metadata: no request is touched.
LEMMA ClientStep ==
  ASSUME PoolInv, Metadata', client' \in MetaRef, requests' \in 0..MaxRequests,
         nchunks' \in 0..NChunks, metaFree' \subseteq Blocks, dirty' \subseteq Blocks,
         UNCHANGED <<pool, mapped, desc, free, pc, op, held, quiet>>
  PROVE  PoolInv'
<1>1. /\ Typed /\ Control /\ Registry /\ Prepared /\ RunsOut /\ OnCourse
  BY DEF PoolInv
<1>2. UNCHANGED <<arenas, count, cursor, lock, mapped, desc, free, pc, op, held, quiet>>
  BY DEF pool
<1>3. Typed' /\ Control'
  BY <1>1, <1>2 DEF Typed, TypeOK, Control
<1>4. Registered' = Registered /\ InMaking' = InMaking /\ Claimed' = Claimed
  BY <1>2 DEF Registered, InMaking, Making, Claimed
<1>5. Registry' /\ Prepared'
  BY <1>1, <1>2, <1>4 DEF Registry, RegionsAreAccountedFor, Prepared
<1>6. RunsOut' /\ OnCourse'
  BY <1>1, <1>2, <1>4 DEF RunsOut, SlicesAreExact, OnCourse
<1> QED BY <1>3, <1>5, <1>6 DEF PoolInv

LEMMA HeapSlot ==
  ASSUME UNCHANGED <<arenas, count, desc, op>>
  PROVE  LET x == <<"client", None>> IN
         /\ x \in Slots /\ Ref(x) = client /\ Ref(x)' = client'
         /\ \A s \in Slots : s # x => Ref(s)' = Ref(s)
<1>1. Registered' = Registered
  BY DEF Registered
<1> QED BY <1>1, RefCases

LEMMA NewHeapStep ==
  ASSUME PoolInv, NEW t \in Threads, NewHeap(t)
  PROVE  PoolInv'
<1>1. /\ client = NoBlocks /\ requests < MaxRequests /\ requests' = requests + 1
      /\ \E r \in Outcomes(1) \ {NoBlocks} : (MetaReuse(1, r) \/ MetaGrow(1, r)) /\ client' = r
      /\ UNCHANGED <<pool, mapped, desc, free, pc, op, held, quiet>>
  BY DEF NewHeap
<1>2. PICK r : (MetaReuse(1, r) \/ MetaGrow(1, r)) /\ client' = r
  BY <1>1
<1>3. requests' \in 0..MaxRequests
  BY <1>1, Here, PoolAssumption
<1> PICK x : x = <<"client", None>>
  OBVIOUS
<1>4. /\ x \in Slots /\ Ref(x) = NoBlocks /\ Ref(x)' = r
      /\ \A s \in Slots : s # x => Ref(s)' = Ref(s)
  BY <1>1, <1>2, HeapSlot DEF pool
<1>5. 1 \in Nat \ {0} /\ Typed /\ Metadata
  BY DEF PoolInv
<1>6. /\ Metadata' /\ r \in MetaRef /\ nchunks' \in 0..NChunks
      /\ metaFree' \subseteq Blocks /\ dirty' \subseteq Blocks
  BY <1>2, <1>4, <1>5, MetaTaken
<1> QED BY <1>1, <1>2, <1>3, <1>6, ClientStep

LEMMA FreeHeapStep ==
  ASSUME PoolInv, NEW t \in Threads, FreeHeap(t)
  PROVE  PoolInv'
<1>1. /\ meta_free(client) /\ client' = NoBlocks
      /\ UNCHANGED <<pool, mapped, desc, free, pc, op, held, requests, quiet>>
  BY DEF FreeHeap
<1> PICK r : r = client
  OBVIOUS
<1> PICK x : x = <<"client", None>>
  OBVIOUS
<1>4. /\ x \in Slots /\ Ref(x) = r /\ Ref(x)' = NoBlocks
      /\ \A s \in Slots : s # x => Ref(s)' = Ref(s)
  BY <1>1, HeapSlot DEF pool
<1>5. meta_free(r) /\ Typed /\ Metadata
  BY <1>1 DEF PoolInv
<1>6. /\ Metadata' /\ nchunks' \in 0..NChunks
      /\ metaFree' \subseteq Blocks /\ dirty' \subseteq Blocks
  BY <1>4, <1>5, MetaGiven
<1>7. requests' \in 0..MaxRequests
  BY <1>1, Here
<1> QED BY <1>1, <1>6, <1>7, NoSpan, ClientStep

-----------------------------------------------------------------------------
(***************************************************************************)
(* Arena::create and destroy, up to the point where the arena is visible.  *)
(***************************************************************************)
RegionMove(t, w, o) ==
  \/ pc[t] \notin Makes /\ w \in Makes /\ o.new \notin mapped /\ mapped' = mapped \cup {o.new}
  \/ pc[t] \in Makes /\ w \in Makes /\ o.new = op[t].new /\ mapped' = mapped
  \/ pc[t] \in Makes /\ w \notin Makes /\ o.new = op[t].new /\ mapped' = mapped \ {op[t].new}
  \/ pc[t] \notin Makes /\ w \notin Makes /\ mapped' = mapped

LEMMA RegionsMove ==
  ASSUME PoolInv, NEW t \in Threads, NEW w, NEW o, Moves(t, w, o), RegionMove(t, w, o),
         count' = count, \A i \in 0..(count - 1) : arenas'[i] = arenas[i]
  PROVE  /\ RegionsAreAccountedFor' /\ Registered' = Registered
         /\ pc[t] \in Makes \/ w \in Makes => o.new \notin Registered
         /\ \A u \in Threads \ {t} :
              pc[u] \in Makes => /\ op[u].new \notin Registered
                                 /\ pc[t] \in Makes \/ w \in Makes => op[u].new # o.new
<1>1. /\ Typed /\ RegionsAreAccountedFor
  BY DEF PoolInv, Registry
<1>2. /\ pc'[t] = w /\ op'[t] = o
      /\ \A u \in Threads \ {t} : pc'[u] = pc[u] /\ op'[u] = op[u]
  BY <1>1, MovedThreads
<1>3. Registered' = Registered
  BY DEF Registered
<1> DEFINE M == {u \in Threads : pc[u] \in Makes}
           N == {u \in Threads : pc'[u] \in Makes}
<1>4. InMaking = M /\ InMaking' = N
  BY DEF InMaking, Making, Makes
<1>5. /\ mapped = Registered \cup {op[u].new : u \in M}
      /\ \A i, j \in 0..(count - 1) : arenas[i] = arenas[j] => i = j
      /\ \A u \in M : op[u].new \notin Registered /\ \A v \in M : op[v].new = op[u].new => v = u
  BY <1>1, <1>4 DEF RegionsAreAccountedFor
<1>6. \A u \in M : op[u].new \in mapped
  BY <1>5
<1>7. pc[t] \in Makes \/ w \in Makes => o.new \notin Registered
  <2>1. CASE pc[t] \in Makes
    BY <1>5, <2>1 DEF RegionMove
  <2>2. CASE pc[t] \notin Makes
    BY <1>5, <2>2 DEF RegionMove
  <2> QED BY <2>1, <2>2
<1>8. ASSUME NEW u \in Threads \ {t}, pc[u] \in Makes, pc[t] \in Makes \/ w \in Makes
      PROVE  op[u].new # o.new
  BY <1>5, <1>6, <1>8 DEF RegionMove
<1>9. \A u \in N : op'[u].new \notin Registered /\ \A v \in N : op'[v].new = op'[u].new => v = u
  <2>1. \A u \in N : u = t \/ (u \in M /\ op'[u].new = op[u].new /\ u \in Threads \ {t})
    BY <1>2
  <2>2. t \in N => w \in Makes /\ op'[t].new = o.new
    BY <1>2
  <2>3. \A u \in M : u # t /\ w \in Makes => op[u].new # o.new
    BY <1>8
  <2> HIDE DEF M, N
  <2> QED BY <1>5, <1>7, <2>1, <2>2, <2>3
<1>10. mapped' = Registered \cup {op'[u].new : u \in N}
  <2> DEFINE W == {op[u].new : u \in M \ {t}}
  <2>1. {op[u].new : u \in M} = W \cup (IF pc[t] \in Makes THEN {op[t].new} ELSE {})
    BY Zenon
  <2>2. {op'[u].new : u \in N} = W \cup (IF w \in Makes THEN {o.new} ELSE {})
    <3>1. \A u \in Threads : u # t => (u \in M <=> u \in N) /\ op'[u].new = op[u].new
      BY <1>2
    <3>2. t \in N <=> w \in Makes
      BY <1>2
    <3>3. N \subseteq Threads /\ M \subseteq Threads /\ op'[t].new = o.new
      BY <1>2
    <3> HIDE DEF M, N
    <3> QED BY <3>1, <3>2, <3>3
  <2>3. pc[t] \in Makes => op[t].new \notin W /\ op[t].new \notin Registered
    BY <1>5
  <2> HIDE DEF W, M, N
  <2> QED BY <1>5, <2>1, <2>2, <2>3 DEF RegionMove
<1>11. RegionsAreAccountedFor'
  <2>1. \A i, j \in 0..(count' - 1) : arenas'[i] = arenas'[j] => i = j
    BY <1>5
  <2> QED BY <1>3, <1>4, <1>9, <1>10, <2>1 DEF RegionsAreAccountedFor
<1> QED BY <1>3, <1>5, <1>7, <1>8, <1>11

MakeMove(t, w, o) ==
  /\ Moves(t, w, o) /\ RegionMove(t, w, o)
  /\ o.run = op[t].run
  /\ w \notin {"fresh", "freshCommit", "freshHint"}
  /\ w \in {"add", "publish"} <=> pc[t] \in {"add", "publish"}
  /\ arenas' \in [0..(MaxArenas - 1) -> Arenas \cup {None}]
  /\ \A i \in 0..(count - 1) : arenas'[i] = arenas[i]
  /\ arenas' = arenas \/ pc[t] = "add"
  /\ w = "publish" => count < MaxArenas /\ arenas'[count] = o.new
  /\ UNCHANGED <<count, cursor, lock, client, held, requests>>
  /\ mapped' \subseteq Arenas
  /\ desc' \in [Arenas -> [n : 0..MaxArenaSlices, bm : MetaRef, own : MetaRef]]
  /\ free' \in [Arenas -> SUBSET Slices]
  /\ \A a \in Arenas : desc'[a] # desc[a] \/ free'[a] # free[a] =>
       a = o.new /\ (pc[t] \in Makes \/ w \in Makes)
  /\ w \in {"zallocBm", "zallocDesc", "lock", "add", "publish"} =>
       desc'[o.new].n = ReserveSize(o.n)
  /\ w \in {"lock", "add", "publish"} =>
       /\ desc'[o.new].bm = o.bm /\ desc'[o.new].own = o.dsc
       /\ free'[o.new] = 0..(desc'[o.new].n - 1)
  /\ nchunks' \in 0..NChunks /\ metaFree' \subseteq Blocks /\ dirty' \subseteq Blocks
  /\ quiet' \subseteq quiet
  /\ t \in quiet' /\ FitsAnArena(o.n) =>
       w \notin {"dropRegion", "dropBm", "dropDesc", "failed"}

LEMMA MakeStep ==
  ASSUME PoolInv, NEW t \in Threads, NEW w, NEW o, MakeMove(t, w, o), Metadata'
  PROVE  PoolInv'
<1> USE DEF MakeMove
<1>1. /\ Typed /\ Control /\ Registry /\ Prepared /\ RunsOut /\ OnCourse
  BY DEF PoolInv
<1>2. /\ pc' \in [Threads -> Pcs] /\ op' \in [Threads -> Ops]
      /\ pc'[t] = w /\ op'[t] = o
      /\ \A u \in Threads \ {t} : pc'[u] = pc[u] /\ op'[u] = op[u]
  BY <1>1, MovedThreads
<1>3. Typed' /\ Control'
  <2>1. /\ count \in 0..MaxArenas /\ cursor \in 0..(MaxArenas - 1) /\ lock \in Threads \cup {None}
        /\ client \in MetaRef /\ held \subseteq Run /\ requests \in 0..MaxRequests
        /\ quiet \subseteq Threads
    BY <1>1 DEF Typed, TypeOK
  <2>2. count' \in 0..MaxArenas /\ count <= count' /\ quiet' \subseteq Threads
    BY <2>1
  <2> QED BY <1>1, <2>1, <2>2, MoveStep
<1>4. /\ RegionsAreAccountedFor' /\ Registered' = Registered
      /\ pc[t] \in Makes \/ w \in Makes => o.new \notin Registered
      /\ \A u \in Threads \ {t} :
           pc[u] \in Makes => /\ op[u].new \notin Registered
                              /\ pc[t] \in Makes \/ w \in Makes => op[u].new # o.new
  BY RegionsMove
<1>5. \A a \in Registered : a \in Arenas /\ desc'[a] = desc[a] /\ free'[a] = free[a]
  BY <1>4, RegisteredArenas
<1>6. \A u \in Threads \ {t} : pc[u] \in Makes =>
        desc'[op[u].new] = desc[op[u].new] /\ free'[op[u].new] = free[op[u].new]
  <2>1. \A u \in Threads : pc[u] \in Makes => op[u].new \in Arenas
    BY <1>1 DEF Control, Carries
  <2> QED BY <1>4, <2>1
<1>7. Registry'
  <2>1. \A u \in Threads : lock = u <=> pc[u] \in {"add", "publish"}
    BY <1>1 DEF Registry
  <2>2. \A u \in Threads : lock' = u <=> pc'[u] \in {"add", "publish"}
    BY <1>2, <2>1
  <2>3. \A u \in Threads \ {t} : pc[u] = "publish" => arenas' = arenas
    BY <2>1
  <2>4. \A u \in Threads : pc'[u] = "publish" => count' < MaxArenas /\ arenas'[count'] = op'[u].new
    BY <1>1, <1>2, <2>3 DEF Registry
  <2>5. \A u \in Threads : pc'[u] \in {"fresh", "freshCommit", "freshHint"} =>
          op'[u].new \in Registered'
    BY <1>1, <1>2, <1>4 DEF Registry
  <2>6. \A i \in 0..(count' - 1) : arenas'[i] \in Arenas
    BY <1>1 DEF Registry
  <2> QED BY <1>4, <2>2, <2>4, <2>5, <2>6 DEF Registry
<1>8. Prepared'
  <2>1. ASSUME NEW u \in Threads
        PROVE  /\ pc'[u] \in {"zallocBm", "zallocDesc", "lock", "add", "publish", "fresh"} =>
                    desc'[op'[u].new].n = ReserveSize(op'[u].n)
               /\ pc'[u] \in {"lock", "add", "publish"} =>
                    /\ desc'[op'[u].new].bm = op'[u].bm /\ desc'[op'[u].new].own = op'[u].dsc
                    /\ free'[op'[u].new] = 0..(desc'[op'[u].new].n - 1)
    <3>1. CASE u = t
      BY <1>2, <3>1
    <3>2. CASE u # t
      <4>1. pc'[u] = pc[u] /\ op'[u] = op[u]
        BY <1>2, <3>2
      <4>2. /\ pc[u] \in {"zallocBm", "zallocDesc", "lock", "add", "publish", "fresh"} =>
                 desc[op[u].new].n = ReserveSize(op[u].n)
            /\ pc[u] \in {"lock", "add", "publish"} =>
                 /\ desc[op[u].new].bm = op[u].bm /\ desc[op[u].new].own = op[u].dsc
                 /\ free[op[u].new] = 0..(desc[op[u].new].n - 1)
        BY <1>1 DEF Prepared
      <4>3. pc[u] = "fresh" => op[u].new \in Registered
        BY <1>1 DEF Registry
      <4>4. pc[u] \in {"zallocBm", "zallocDesc", "lock", "add", "publish", "fresh"} =>
              desc'[op[u].new] = desc[op[u].new] /\ free'[op[u].new] = free[op[u].new]
        BY <1>5, <1>6, <3>2, <4>3 DEF Makes
      <4> QED BY <4>1, <4>2, <4>4
    <3> QED BY <3>1, <3>2
  <2> QED BY <2>1 DEF Prepared, ReserveSize
<1>9. RunsOut'
  <2>1. \A u \in Threads : op'[u].run = op[u].run
    BY <1>2
  <2>2. Claimed' = Claimed
    BY ONLY <2>1 DEF Claimed
  <2>3. \A a \in Registered : free'[a] = free[a] /\ desc'[a].n = desc[a].n
    BY <1>5
  <2> QED BY <1>1, <1>4, <2>1, <2>2, <2>3 DEF RunsOut, SlicesAreExact
<1>10. OnCourse'
  <2>1. ASSUME NEW u \in quiet', pc'[u] # "idle", FitsAnArena(op'[u].n)
        PROVE  /\ pc'[u] \notin {"dropRegion", "dropBm", "dropDesc", "failed"}
               /\ pc'[u] = "fresh" => free'[op'[u].new] = 0..(desc'[op'[u].new].n - 1)
    <3>1. CASE u = t
      BY <1>2, <2>1, <3>1
    <3>2. CASE u # t
      <4>1. u \in quiet /\ u \in Threads /\ pc'[u] = pc[u] /\ op'[u] = op[u]
        BY <1>1, <1>2, <2>1, <3>2 DEF Typed, TypeOK
      <4>2. /\ pc[u] \notin {"dropRegion", "dropBm", "dropDesc", "failed"}
            /\ pc[u] = "fresh" => free[op[u].new] = 0..(desc[op[u].new].n - 1)
        BY <1>1, <2>1, <4>1 DEF OnCourse
      <4>3. pc[u] = "fresh" => op[u].new \in Registered
        BY <1>1, <4>1 DEF Registry
      <4> QED BY <1>5, <4>1, <4>2, <4>3
    <3> QED BY <3>1, <3>2
  <2> QED BY <2>1 DEF OnCourse, FitsAnArena
<1> QED BY <1>3, <1>7, <1>8, <1>9, <1>10 DEF PoolInv

LEMMA OpSlots ==
  ASSUME Typed, NEW t \in Threads, NEW w, NEW o, Moves(t, w, o), UNCHANGED <<arenas, count, client>>,
         \A a \in Registered : desc'[a] = desc[a]
  PROVE  /\ <<"bm", t>> \in Slots /\ <<"dsc", t>> \in Slots
         /\ Ref(<<"bm", t>>) = op[t].bm /\ Ref(<<"bm", t>>)' = o.bm
         /\ Ref(<<"dsc", t>>) = op[t].dsc /\ Ref(<<"dsc", t>>)' = o.dsc
         /\ \A s \in Slots : s # <<"bm", t>> /\ s # <<"dsc", t>> => Ref(s)' = Ref(s)
<1>1. op'[t] = o /\ \A u \in Threads \ {t} : op'[u] = op[u]
  BY MovedThreads
<1>2. Registered' = Registered
  BY DEF Registered
<1>3. /\ <<"bm", t>> \in Slots /\ <<"dsc", t>> \in Slots
      /\ Ref(<<"bm", t>>) = op[t].bm /\ Ref(<<"bm", t>>)' = op'[t].bm
      /\ Ref(<<"dsc", t>>) = op[t].dsc /\ Ref(<<"dsc", t>>)' = op'[t].dsc
  BY RefCases
<1>4. \A s \in Slots : s # <<"bm", t>> /\ s # <<"dsc", t>> => Ref(s)' = Ref(s)
  BY <1>1, <1>2, RefCases
<1> QED BY <1>1, <1>3, <1>4

LEMMA InTheMaking ==
  ASSUME PoolInv, NEW t \in Threads
  PROVE  /\ Typed /\ Metadata /\ desc \in [Arenas -> [n : 0..MaxArenaSlices, bm : MetaRef, own : MetaRef]]
         /\ free \in [Arenas -> SUBSET Slices] /\ mapped \subseteq Arenas /\ Registered \subseteq mapped
         /\ arenas \in [0..(MaxArenas - 1) -> Arenas \cup {None}]
         /\ nchunks \in 0..NChunks /\ metaFree \subseteq Blocks /\ dirty \subseteq Blocks
         /\ pc[t] \in Makes => op[t].new \in Arenas /\ op[t].new \notin Registered
<1>1. RegionsAreAccountedFor /\ Typed /\ Metadata /\ Carries(pc[t], op[t])
  BY Here DEF PoolInv, Registry
<1>2. Registered \subseteq mapped
  BY <1>1 DEF RegionsAreAccountedFor
<1>3. pc[t] \in Makes => op[t].new \in Arenas /\ op[t].new \notin Registered
  <2>1. pc[t] \in Makes => t \in InMaking
    BY DEF InMaking, Making, Makes
  <2> QED BY <1>1, <2>1 DEF RegionsAreAccountedFor, Carries
<1> QED BY <1>1, <1>2, <1>3 DEF Typed, TypeOK

\* reserve_arena: a region that is nobody's.
LEMMA ReserveStep ==
  ASSUME PoolInv, NEW t \in Threads, Reserve(t)
  PROVE  PoolInv'
<1> PICK a : a = CHOOSE x \in Arenas \ mapped : \A y \in Arenas \ mapped : x <= y
  OBVIOUS
<1> PICK o : o = [op[t] EXCEPT !.new = a]
  OBVIOUS
<1>1. /\ op[t] \in Ops /\ Carries(pc[t], op[t]) /\ op[t].cnt <= count
      /\ op \in [Threads -> Ops] /\ pc \in [Threads -> Pcs]
  BY Here
<1>2. /\ pc[t] = "reserve" /\ ReserveSize(op[t].n) <= MaxArenaSlices /\ mapped # Arenas
      /\ mapped' = mapped \cup {a} /\ desc' = [desc EXCEPT ![a].n = ReserveSize(op[t].n)]
      /\ pc' = [pc EXCEPT ![t] = "zallocBm"] /\ op' = [op EXCEPT ![t] = o]
      /\ UNCHANGED <<arenas, count, cursor, lock, free, meta, nchunks, metaFree, dirty, client, held,
                     requests, quiet>>
  BY <1>1 DEF Reserve, Goto, pool, meta
<1>3. /\ Typed /\ Metadata /\ desc \in [Arenas -> [n : 0..MaxArenaSlices, bm : MetaRef, own : MetaRef]]
      /\ free \in [Arenas -> SUBSET Slices] /\ mapped \subseteq Arenas /\ Registered \subseteq mapped
      /\ arenas \in [0..(MaxArenas - 1) -> Arenas \cup {None}]
      /\ nchunks \in 0..NChunks /\ metaFree \subseteq Blocks /\ dirty \subseteq Blocks
  BY InTheMaking
<1>4. a \in Arenas /\ a \notin mapped
  <2> DEFINE U == Arenas \ mapped
  <2>1. U \subseteq Nat /\ U # {}
    <3>1. Arenas \subseteq Nat
      BY PoolAssumption DEF Arenas
    <3> QED BY <1>2, <1>3, <3>1
  <2> HIDE DEF U
  <2>2. \E x \in U : \A y \in U : x <= y
    BY <2>1, Least
  <2>3. a = CHOOSE x \in U : \A y \in U : x <= y
    BY DEF U
  <2>4. a \in U
    BY <2>2, <2>3, Zenon
  <2> QED BY <2>4 DEF U
<1>5. /\ op[t].n \in Requests /\ op[t].run = None /\ op[t].bm = NoBlocks /\ op[t].dsc = NoBlocks
  BY <1>1, <1>2 DEF Carries, Claims, Makes
<1>6. /\ o \in Ops /\ o.n = op[t].n /\ o.cnt = op[t].cnt /\ o.new = a
      /\ o.bm = op[t].bm /\ o.dsc = op[t].dsc /\ o.run = op[t].run
  BY <1>1, <1>4 DEF Ops
<1>7. Carries("zallocBm", o)
  BY <1>4, <1>5, <1>6 DEF Carries, Claims, Makes, Looks
<1>8. Moves(t, "zallocBm", o)
  BY <1>1, <1>2, <1>6, <1>7 DEF Moves, Pcs
<1>9. ReserveSize(op[t].n) \in 0..MaxArenaSlices
  <2>1. op[t].n \in Nat /\ DefaultSlices \in Nat /\ MaxArenaSlices \in Nat
    BY <1>5, PoolAssumption
  <2> QED BY <1>2, <2>1 DEF ReserveSize
<1>10. /\ desc' \in [Arenas -> [n : 0..MaxArenaSlices, bm : MetaRef, own : MetaRef]]
       /\ desc'[a].n = ReserveSize(op[t].n) /\ \A b \in Arenas : b # a => desc'[b] = desc[b]
  BY <1>2, <1>3, <1>4, <1>9
<1>11. RegionMove(t, "zallocBm", o)
  BY <1>2, <1>4, <1>6 DEF RegionMove, Makes
<1>12. MakeMove(t, "zallocBm", o)
  BY <1>2, <1>3, <1>4, <1>6, <1>8, <1>10, <1>11 DEF MakeMove, Makes
<1>13. \A b \in Registered : desc'[b].bm = desc[b].bm /\ desc'[b].own = desc[b].own
  BY <1>3, <1>4, <1>10
<1>14. Metadata'
  <2>1. \A s \in Slots : Ref(s)' = Ref(s)
    BY <1>2, <1>3, <1>6, <1>8, <1>13, RefsKept
  <2> QED BY <1>2, <1>3, <2>1, MetadataKept
<1> QED BY <1>12, <1>14, MakeStep

LEMMA BitmapSize ==
  ASSUME NEW m \in Nat
  PROVE  BitmapBlocks(m) \in Nat \ {0}
<1>1. PICK c \in Nat \ {0} : c = ChunkSlices
  BY PoolAssumption
<1>2. PICK e \in Nat : e = m + c - 1
  <2>1. m + c - 1 \in Nat
    OBVIOUS
  <2> QED BY <2>1
<1>3. e \div c \in Nat
  OBVIOUS
<1> QED BY <1>1, <1>2, <1>3 DEF BitmapBlocks

LEMMA ZallocBmStep ==
  ASSUME PoolInv, NEW t \in Threads, ZallocBm(t)
  PROVE  PoolInv'
<1> PICK a : a = op[t].new
  OBVIOUS
<1> PICK n : n = BitmapBlocks(desc[a].n)
  OBVIOUS
<1>1. /\ op[t] \in Ops /\ Carries(pc[t], op[t]) /\ op[t].cnt <= count
      /\ op \in [Threads -> Ops] /\ pc \in [Threads -> Pcs]
  BY Here
<1>2. /\ pc[t] = "zallocBm"
      /\ \E r \in Outcomes(n) :
           /\ meta_zalloc(n, r) /\ op' = [op EXCEPT ![t].bm = r]
           /\ Goto(t, IF r = NoBlocks THEN "dropRegion" ELSE "zallocDesc")
           /\ quiet' = IF r = NoBlocks /\ nchunks' = nchunks /\ n <= MetaBlocks
                       THEN quiet \ {t} ELSE quiet
      /\ UNCHANGED <<arenas, count, cursor, lock, mapped, desc, free, client, held, requests>>
  BY DEF ZallocBm, pool
<1>3. PICK r : /\ meta_zalloc(n, r) /\ op' = [op EXCEPT ![t].bm = r]
               /\ Goto(t, IF r = NoBlocks THEN "dropRegion" ELSE "zallocDesc")
               /\ quiet' = IF r = NoBlocks /\ nchunks' = nchunks /\ n <= MetaBlocks
                           THEN quiet \ {t} ELSE quiet
  BY <1>2
<1> PICK w : w = IF r = NoBlocks THEN "dropRegion" ELSE "zallocDesc"
  OBVIOUS
<1> PICK o : o = [op[t] EXCEPT !.bm = r]
  OBVIOUS
<1>4. /\ Typed /\ Metadata /\ desc \in [Arenas -> [n : 0..MaxArenaSlices, bm : MetaRef, own : MetaRef]]
      /\ free \in [Arenas -> SUBSET Slices] /\ mapped \subseteq Arenas /\ Registered \subseteq mapped
      /\ arenas \in [0..(MaxArenas - 1) -> Arenas \cup {None}]
      /\ nchunks \in 0..NChunks /\ metaFree \subseteq Blocks /\ dirty \subseteq Blocks
      /\ a \in Arenas /\ a \notin Registered
  BY <1>2, InTheMaking DEF Makes
<1>5. /\ op[t].n \in Requests /\ op[t].run = None /\ op[t].bm = NoBlocks /\ op[t].dsc = NoBlocks
  BY <1>1, <1>2 DEF Carries, Claims, Makes
<1>6. n \in Nat \ {0}
  <2>1. desc[a].n \in Nat
    <3>1. desc[a].n \in 0..MaxArenaSlices
      BY <1>4
    <3> QED BY <3>1, PoolAssumption
  <2> QED BY <2>1, BitmapSize
<1>7. r \in MetaRef
  <2>1. CASE MetaReuse(n, r) \/ MetaGrow(n, r)
    BY <1>4, <1>6, <2>1, BlocksTaken
  <2>2. CASE MetaRefused(n, r)
    BY <2>2, NoSpan DEF MetaRefused
  <2> QED BY <1>3, <2>1, <2>2 DEF meta_zalloc
<1>8. /\ o \in Ops /\ o.n = op[t].n /\ o.cnt = op[t].cnt /\ o.new = a
      /\ o.bm = r /\ o.dsc = op[t].dsc /\ o.run = op[t].run
  BY <1>1, <1>7 DEF Ops
<1>9. Carries(w, o)
  BY <1>4, <1>5, <1>8 DEF Carries, Claims, Makes, Looks
<1>10. Moves(t, w, o)
  BY <1>1, <1>3, <1>8, <1>9 DEF Moves, Pcs, Goto
<1>11. /\ Metadata' /\ nchunks' \in 0..NChunks /\ metaFree' \subseteq Blocks /\ dirty' \subseteq Blocks
  <2> PICK x : x = <<"bm", t>>
    OBVIOUS
  <2>1. /\ x \in Slots /\ Ref(x) = NoBlocks /\ Ref(x)' = r
        /\ \A s \in Slots : s # x => Ref(s)' = Ref(s)
    <3>1. UNCHANGED <<arenas, count, client>> /\ \A b \in Registered : desc'[b] = desc[b]
      BY <1>2
    <3>2. /\ <<"bm", t>> \in Slots /\ Ref(<<"bm", t>>) = op[t].bm /\ Ref(<<"bm", t>>)' = o.bm
          /\ Ref(<<"dsc", t>>) = op[t].dsc /\ Ref(<<"dsc", t>>)' = o.dsc
          /\ \A s \in Slots : s # <<"bm", t>> /\ s # <<"dsc", t>> => Ref(s)' = Ref(s)
      BY <1>4, <1>10, <3>1, OpSlots
    <3> QED BY <1>5, <1>8, <3>2
  <2>2. CASE MetaReuse(n, r) \/ MetaGrow(n, r)
    BY <1>4, <1>6, <2>1, <2>2, MetaTaken
  <2>3. CASE MetaRefused(n, r)
    <3>1. r = NoBlocks /\ UNCHANGED meta /\ UNCHANGED <<nchunks, metaFree, dirty>>
      BY <2>3 DEF MetaRefused, meta
    <3>2. \A s \in Slots : Ref(s)' = Ref(s)
      BY <2>1, <3>1
    <3> QED BY <1>4, <3>1, <3>2, MetadataKept
  <2> QED BY <1>3, <2>2, <2>3 DEF meta_zalloc
<1>12. ASSUME t \in quiet', FitsAnArena(op[t].n), r = NoBlocks
       PROVE  FALSE
  <2>1. desc[a].n = ReserveSize(op[t].n)
    BY <1>2 DEF PoolInv, Prepared
  <2>2. n <= MetaBlocks - HeaderBlocks
    BY <1>12, <2>1 DEF FitsAnArena
  <2>3. MetaBlocks \in Nat /\ HeaderBlocks \in Nat
    BY PoolAssumption
  <2>4. n <= MetaBlocks
    BY <1>6, <2>2, <2>3
  <2>5. nchunks' # nchunks
    BY <1>3, <1>12, <2>4
  <2>6. MetaReuse(n, r) \/ MetaGrow(n, r)
    BY <1>3, <2>5 DEF meta_zalloc, MetaRefused, meta
  <2>7. n > MetaBlocks - HeaderBlocks
    BY <1>4, <1>6, <1>12, <2>5, <2>6, BlocksTaken
  <2> QED BY <1>6, <2>2, <2>3, <2>7
<1>13. quiet' \subseteq quiet
  BY <1>3
<1>14. RegionMove(t, w, o)
  BY <1>2, <1>8 DEF RegionMove, Makes
<1>15. desc[a].n = ReserveSize(op[t].n)
  BY <1>2 DEF PoolInv, Prepared
<1>16. MakeMove(t, w, o)
  BY <1>2, <1>4, <1>8, <1>10, <1>11, <1>12, <1>13, <1>14, <1>15 DEF MakeMove
<1> QED BY <1>11, <1>16, MakeStep

LEMMA ZallocDescStep ==
  ASSUME PoolInv, NEW t \in Threads, ZallocDesc(t)
  PROVE  PoolInv'
<1> PICK a : a = op[t].new
  OBVIOUS
<1>1. /\ op[t] \in Ops /\ Carries(pc[t], op[t]) /\ op[t].cnt <= count
      /\ op \in [Threads -> Ops] /\ pc \in [Threads -> Pcs]
  BY Here
<1>2. /\ pc[t] = "zallocDesc" /\ Goto(t, "lock")
      /\ \E r \in Outcomes(1) :
           /\ MetaReuse(1, r) \/ MetaGrow(1, r)
           /\ r # NoBlocks /\ op' = [op EXCEPT ![t].dsc = r]
           /\ desc' = [desc EXCEPT ![a].bm = op[t].bm, ![a].own = r]
      /\ free' = [free EXCEPT ![a] = IF Span(op[t].bm) \cap dirty = {}
                                     THEN 0..(desc[a].n - 1) ELSE Slices]
      /\ UNCHANGED <<arenas, count, cursor, lock, mapped, client, held, requests, quiet>>
  BY DEF ZallocDesc, pool
<1>3. PICK r : /\ MetaReuse(1, r) \/ MetaGrow(1, r)
               /\ r # NoBlocks /\ op' = [op EXCEPT ![t].dsc = r]
               /\ desc' = [desc EXCEPT ![a].bm = op[t].bm, ![a].own = r]
  BY <1>2
<1> PICK o : o = [op[t] EXCEPT !.dsc = r]
  OBVIOUS
<1>4. /\ Typed /\ Metadata /\ desc \in [Arenas -> [n : 0..MaxArenaSlices, bm : MetaRef, own : MetaRef]]
      /\ free \in [Arenas -> SUBSET Slices] /\ mapped \subseteq Arenas /\ Registered \subseteq mapped
      /\ arenas \in [0..(MaxArenas - 1) -> Arenas \cup {None}]
      /\ a \in Arenas /\ a \notin Registered
  BY <1>2, InTheMaking DEF Makes
<1>5. /\ op[t].n \in Requests /\ op[t].run = None /\ op[t].bm # NoBlocks /\ op[t].dsc = NoBlocks
  BY <1>1, <1>2 DEF Carries, Claims, Makes
<1>6. r \in MetaRef /\ op[t].bm \in MetaRef
  <2>1. 1 \in Nat \ {0}
    OBVIOUS
  <2>2. r \in MetaRef
    BY <1>3, <1>4, <2>1, BlocksTaken
  <2> QED BY <1>1, <2>2, OpTypes
<1>7. /\ o \in Ops /\ o.n = op[t].n /\ o.cnt = op[t].cnt /\ o.new = a
      /\ o.bm = op[t].bm /\ o.dsc = r /\ o.run = op[t].run
  BY <1>1, <1>6 DEF Ops
<1>8. Carries("lock", o)
  BY <1>3, <1>4, <1>5, <1>7 DEF Carries, Claims, Makes, Looks
<1>9. Moves(t, "lock", o)
  BY <1>1, <1>2, <1>3, <1>7, <1>8 DEF Moves, Pcs, Goto
<1>10. /\ desc' \in [Arenas -> [n : 0..MaxArenaSlices, bm : MetaRef, own : MetaRef]]
       /\ desc'[a].n = desc[a].n /\ desc'[a].bm = op[t].bm /\ desc'[a].own = r
       /\ \A b \in Arenas : b # a => desc'[b] = desc[b]
  BY <1>3, <1>4, <1>6
<1>11. Span(op[t].bm) \cap dirty = {}
  <2>1. <<"bm", t>> \in Slots /\ Ref(<<"bm", t>>) = op[t].bm
    BY RefCases
  <2> QED BY <1>4, <2>1 DEF Metadata
<1>12. /\ free' \in [Arenas -> SUBSET Slices] /\ free'[a] = 0..(desc[a].n - 1)
       /\ \A b \in Arenas : b # a => free'[b] = free[b]
  <2>1. desc[a].n \in 0..MaxArenaSlices
    BY <1>4
  <2>2. 0..(desc[a].n - 1) \subseteq Slices
    BY <2>1, PoolAssumption DEF Slices
  <2>3. free' = [free EXCEPT ![a] = 0..(desc[a].n - 1)]
    BY <1>2, <1>11
  <2> QED BY <1>4, <2>2, <2>3
<1>13. /\ Metadata' /\ nchunks' \in 0..NChunks /\ metaFree' \subseteq Blocks /\ dirty' \subseteq Blocks
  <2> PICK x : x = <<"dsc", t>>
    OBVIOUS
  <2>1. /\ x \in Slots /\ Ref(x) = NoBlocks /\ Ref(x)' = r
        /\ \A s \in Slots : s # x => Ref(s)' = Ref(s)
    <3>1. UNCHANGED <<arenas, count, client>> /\ \A b \in Registered : desc'[b] = desc[b]
      BY <1>2, <1>4, <1>10
    <3>2. /\ <<"dsc", t>> \in Slots /\ Ref(<<"bm", t>>) = op[t].bm /\ Ref(<<"bm", t>>)' = o.bm
          /\ Ref(<<"dsc", t>>) = op[t].dsc /\ Ref(<<"dsc", t>>)' = o.dsc
          /\ \A s \in Slots : s # <<"bm", t>> /\ s # <<"dsc", t>> => Ref(s)' = Ref(s)
      BY <1>4, <1>9, <3>1, OpSlots
    <3> QED BY <1>5, <1>7, <3>2
  <2>2. 1 \in Nat \ {0}
    OBVIOUS
  <2> QED BY <1>3, <1>4, <2>1, <2>2, MetaTaken
<1>14. RegionMove(t, "lock", o)
  BY <1>2, <1>7 DEF RegionMove, Makes
<1>15. desc[a].n = ReserveSize(op[t].n)
  BY <1>2 DEF PoolInv, Prepared
<1>16. MakeMove(t, "lock", o)
  BY <1>2, <1>4, <1>7, <1>9, <1>10, <1>12, <1>13, <1>14, <1>15 DEF MakeMove, Makes
<1> QED BY <1>13, <1>16, MakeStep

\* add_arena, first half: the entry beyond the count.
LEMMA AddStep ==
  ASSUME PoolInv, NEW t \in Threads, Add(t)
  PROVE  PoolInv'
<1> PICK o : o = op[t]
  OBVIOUS
<1>1. /\ o \in Ops /\ Carries(pc[t], o) /\ o.cnt <= count /\ count \in 0..MaxArenas
      /\ op \in [Threads -> Ops] /\ pc \in [Threads -> Pcs]
  BY Here
<1>2. /\ pc[t] = "add" /\ count < MaxArenas /\ arenas' = [arenas EXCEPT ![count] = o.new]
      /\ pc' = [pc EXCEPT ![t] = "publish"] /\ op' = [op EXCEPT ![t] = o]
      /\ UNCHANGED <<count, cursor, lock, mapped, desc, free, meta, nchunks, metaFree, dirty, client,
                     held, requests, quiet>>
  BY <1>1 DEF Add, Goto, others, meta
<1>3. /\ Typed /\ Metadata /\ desc \in [Arenas -> [n : 0..MaxArenaSlices, bm : MetaRef, own : MetaRef]]
      /\ free \in [Arenas -> SUBSET Slices] /\ mapped \subseteq Arenas /\ Registered \subseteq mapped
      /\ arenas \in [0..(MaxArenas - 1) -> Arenas \cup {None}]
      /\ nchunks \in 0..NChunks /\ metaFree \subseteq Blocks /\ dirty \subseteq Blocks
      /\ o.new \in Arenas /\ o.new \notin Registered
  BY <1>2, InTheMaking DEF Makes
<1>4. Carries("publish", o)
  BY <1>1, <1>2 DEF Carries, Claims, Makes, Looks
<1>5. Moves(t, "publish", o)
  BY <1>1, <1>2, <1>4 DEF Moves, Pcs
<1>6. /\ arenas' \in [0..(MaxArenas - 1) -> Arenas \cup {None}] /\ arenas'[count] = o.new
      /\ \A i \in 0..(count - 1) : arenas'[i] = arenas[i]
  <2>1. count \in 0..(MaxArenas - 1) /\ \A i \in 0..(count - 1) : i \in 0..(MaxArenas - 1) /\ i # count
    BY <1>1, <1>2, PoolAssumption
  <2> QED BY <1>2, <1>3, <2>1
<1>7. RegionMove(t, "publish", o)
  BY <1>2 DEF RegionMove, Makes
<1>8. /\ desc[o.new].n = ReserveSize(o.n)
      /\ desc[o.new].bm = o.bm /\ desc[o.new].own = o.dsc /\ free[o.new] = 0..(desc[o.new].n - 1)
  BY <1>2 DEF PoolInv, Prepared
<1>9. MakeMove(t, "publish", o)
  BY <1>2, <1>3, <1>5, <1>6, <1>7, <1>8 DEF MakeMove
<1>10. Metadata'
  <2>1. Registered' = Registered
    BY <1>2, <1>6 DEF Registered
  <2>2. \A u \in Threads : op'[u] = op[u]
    BY <1>1, <1>2
  <2>3. \A s \in Slots : Ref(s)' = Ref(s)
    BY <1>2, <2>1, <2>2, RefCases
  <2> QED BY <1>2, <1>3, <2>3, MetadataKept
<1> QED BY <1>9, <1>10, MakeStep

LEMMA DropRegionStep ==
  ASSUME PoolInv, NEW t \in Threads, DropRegion(t)
  PROVE  PoolInv'
<1> PICK o : o = op[t]
  OBVIOUS
<1> PICK w : w = IF op[t].bm = NoBlocks THEN "failed" ELSE "dropBm"
  OBVIOUS
<1>1. /\ o \in Ops /\ Carries(pc[t], o) /\ o.cnt <= count
      /\ op \in [Threads -> Ops] /\ pc \in [Threads -> Pcs]
  BY Here
<1>2. /\ pc[t] = "dropRegion" /\ mapped' = mapped \ {o.new}
      /\ desc' = [desc EXCEPT ![o.new] = NoArena] /\ free' = [free EXCEPT ![o.new] = {}]
      /\ pc' = [pc EXCEPT ![t] = w] /\ op' = [op EXCEPT ![t] = o]
      /\ UNCHANGED <<arenas, count, cursor, lock, meta, nchunks, metaFree, dirty, client, held,
                     requests, quiet>>
  BY <1>1 DEF DropRegion, Goto, pool, meta
<1>3. /\ Typed /\ Metadata /\ desc \in [Arenas -> [n : 0..MaxArenaSlices, bm : MetaRef, own : MetaRef]]
      /\ free \in [Arenas -> SUBSET Slices] /\ mapped \subseteq Arenas
      /\ arenas \in [0..(MaxArenas - 1) -> Arenas \cup {None}]
      /\ nchunks \in 0..NChunks /\ metaFree \subseteq Blocks /\ dirty \subseteq Blocks
      /\ o.new \in Arenas /\ o.new \notin Registered /\ Registered \subseteq Arenas
  BY <1>2, InTheMaking DEF Makes
<1>4. Carries(w, o)
  BY <1>1, <1>2 DEF Carries, Claims, Makes, Looks
<1>5. Moves(t, w, o)
  BY <1>1, <1>2, <1>4 DEF Moves, Pcs
<1>6. /\ desc' \in [Arenas -> [n : 0..MaxArenaSlices, bm : MetaRef, own : MetaRef]]
      /\ free' \in [Arenas -> SUBSET Slices]
      /\ \A b \in Arenas : b # o.new => desc'[b] = desc[b] /\ free'[b] = free[b]
  <2>1. NoArena \in [n : 0..MaxArenaSlices, bm : MetaRef, own : MetaRef]
    BY NoSpan, PoolAssumption DEF NoArena
  <2> QED BY <1>2, <1>3, <2>1
<1>7. RegionMove(t, w, o)
  BY <1>2 DEF RegionMove, Makes
<1>8. ~(t \in quiet /\ FitsAnArena(o.n))
  BY <1>2 DEF PoolInv, OnCourse
<1>9. MakeMove(t, w, o)
  BY <1>2, <1>3, <1>5, <1>6, <1>7, <1>8 DEF MakeMove, Makes
<1>10. Metadata'
  <2>1. \A b \in Registered : desc'[b].bm = desc[b].bm /\ desc'[b].own = desc[b].own
    BY <1>3, <1>6
  <2>2. \A s \in Slots : Ref(s)' = Ref(s)
    BY <1>2, <1>3, <1>5, <2>1, RefsKept
  <2> QED BY <1>2, <1>3, <2>2, MetadataKept
<1> QED BY <1>9, <1>10, MakeStep

\* Metadata given back; the region has been unmapped before.
LEMMA GiveBackStep ==
  ASSUME PoolInv, NEW t \in Threads, pc[t] \in {"dropBm", "dropDesc"}, NEW w, NEW o, Moves(t, w, o),
         w \in {"dropDesc", "failed"}, o.n = op[t].n, o.run = op[t].run, NEW x \in Slots,
         meta_free(Ref(x)), Ref(x)' = NoBlocks, \A s \in Slots : s # x => Ref(s)' = Ref(s),
         UNCHANGED <<pool, mapped, desc, free, client, held, requests, quiet>>
  PROVE  PoolInv'
<1>1. /\ Typed /\ Metadata /\ desc \in [Arenas -> [n : 0..MaxArenaSlices, bm : MetaRef, own : MetaRef]]
      /\ free \in [Arenas -> SUBSET Slices] /\ mapped \subseteq Arenas
      /\ arenas \in [0..(MaxArenas - 1) -> Arenas \cup {None}]
  BY InTheMaking
<1>2. /\ Metadata' /\ nchunks' \in 0..NChunks /\ metaFree' \subseteq Blocks /\ dirty' \subseteq Blocks
  <2> PICK r : r = Ref(x)
    OBVIOUS
  <2>1. meta_free(r)
    OBVIOUS
  <2> QED BY <1>1, <2>1, MetaGiven
<1>3. UNCHANGED <<arenas, count, cursor, lock>>
  BY DEF pool
<1>4. ~(t \in quiet /\ FitsAnArena(op[t].n))
  BY DEF PoolInv, OnCourse
<1>5. RegionMove(t, w, o)
  BY DEF RegionMove, Makes
<1>6. MakeMove(t, w, o)
  BY <1>1, <1>2, <1>3, <1>4, <1>5 DEF MakeMove
<1> QED BY <1>2, <1>6, MakeStep

LEMMA DropBmStep ==
  ASSUME PoolInv, NEW t \in Threads, DropBm(t)
  PROVE  PoolInv'
<1> PICK o : o = [op[t] EXCEPT !.bm = NoBlocks]
  OBVIOUS
<1> PICK w : w = IF op[t].dsc = NoBlocks THEN "failed" ELSE "dropDesc"
  OBVIOUS
<1>1. /\ op[t] \in Ops /\ Carries(pc[t], op[t]) /\ op[t].cnt <= count
      /\ op \in [Threads -> Ops] /\ pc \in [Threads -> Pcs] /\ Typed
  BY Here DEF PoolInv
<1>2. /\ pc[t] = "dropBm" /\ meta_free(op[t].bm)
      /\ pc' = [pc EXCEPT ![t] = w] /\ op' = [op EXCEPT ![t] = o]
      /\ UNCHANGED <<pool, mapped, desc, free, client, held, requests, quiet>>
  BY <1>1 DEF DropBm, Goto
<1>3. /\ o \in Ops /\ o.n = op[t].n /\ o.cnt = op[t].cnt /\ o.bm = NoBlocks /\ o.dsc = op[t].dsc
      /\ o.run = op[t].run
  BY <1>1, NoSpan DEF Ops
<1>4. Carries(w, o)
  BY <1>1, <1>2, <1>3 DEF Carries, Claims, Makes, Looks
<1>5. Moves(t, w, o)
  BY <1>1, <1>2, <1>3, <1>4 DEF Moves, Pcs
<1> PICK x : x = <<"bm", t>>
  OBVIOUS
<1>6. /\ x \in Slots /\ Ref(x) = op[t].bm /\ Ref(x)' = NoBlocks
      /\ \A s \in Slots : s # x => Ref(s)' = Ref(s)
  <2>1. UNCHANGED <<arenas, count, client>> /\ \A b \in Registered : desc'[b] = desc[b]
    BY <1>2 DEF pool
  <2>2. /\ <<"bm", t>> \in Slots /\ Ref(<<"bm", t>>) = op[t].bm /\ Ref(<<"bm", t>>)' = o.bm
        /\ Ref(<<"dsc", t>>) = op[t].dsc /\ Ref(<<"dsc", t>>)' = o.dsc
        /\ \A s \in Slots : s # <<"bm", t>> /\ s # <<"dsc", t>> => Ref(s)' = Ref(s)
    BY <1>1, <1>5, <2>1, OpSlots
  <2> QED BY <1>3, <2>2
<1>7. w \in {"dropDesc", "failed"} /\ meta_free(Ref(x))
  BY <1>2, <1>6
<1> QED BY <1>2, <1>3, <1>5, <1>6, <1>7, GiveBackStep

LEMMA DropDescStep ==
  ASSUME PoolInv, NEW t \in Threads, DropDesc(t)
  PROVE  PoolInv'
<1> PICK o : o = [op[t] EXCEPT !.dsc = NoBlocks]
  OBVIOUS
<1>1. /\ op[t] \in Ops /\ Carries(pc[t], op[t]) /\ op[t].cnt <= count
      /\ op \in [Threads -> Ops] /\ pc \in [Threads -> Pcs] /\ Typed
  BY Here DEF PoolInv
<1>2. /\ pc[t] = "dropDesc" /\ meta_free(op[t].dsc)
      /\ pc' = [pc EXCEPT ![t] = "failed"] /\ op' = [op EXCEPT ![t] = o]
      /\ UNCHANGED <<pool, mapped, desc, free, client, held, requests, quiet>>
  BY <1>1 DEF DropDesc, Goto
<1>3. /\ o \in Ops /\ o.n = op[t].n /\ o.cnt = op[t].cnt /\ o.bm = op[t].bm /\ o.dsc = NoBlocks
      /\ o.run = op[t].run
  BY <1>1, NoSpan DEF Ops
<1>4. Carries("failed", o)
  BY <1>1, <1>2, <1>3 DEF Carries, Claims, Makes, Looks
<1>5. Moves(t, "failed", o)
  BY <1>1, <1>2, <1>3, <1>4 DEF Moves, Pcs
<1> PICK x : x = <<"dsc", t>>
  OBVIOUS
<1>6. /\ x \in Slots /\ Ref(x) = op[t].dsc /\ Ref(x)' = NoBlocks
      /\ \A s \in Slots : s # x => Ref(s)' = Ref(s)
  <2>1. UNCHANGED <<arenas, count, client>> /\ \A b \in Registered : desc'[b] = desc[b]
    BY <1>2 DEF pool
  <2>2. /\ <<"dsc", t>> \in Slots /\ Ref(<<"bm", t>>) = op[t].bm /\ Ref(<<"bm", t>>)' = o.bm
        /\ Ref(<<"dsc", t>>) = op[t].dsc /\ Ref(<<"dsc", t>>)' = o.dsc
        /\ \A s \in Slots : s # <<"bm", t>> /\ s # <<"dsc", t>> => Ref(s)' = Ref(s)
    BY <1>1, <1>5, <2>1, OpSlots
  <2> QED BY <1>3, <2>2
<1>7. meta_free(Ref(x))
  BY <1>2, <1>6
<1> QED BY <1>2, <1>3, <1>5, <1>6, <1>7, GiveBackStep

\* Two runs of metadata change hands: from p to q and from v to z.
LEMMA MetaHandedOver ==
  ASSUME Metadata, UNCHANGED meta, NEW p \in Slots, NEW q \in Slots, NEW v \in Slots, NEW z \in Slots,
         p # q, p # v, p # z, q # v, q # z, v # z,
         Ref(q) = NoBlocks, Ref(z) = NoBlocks, Ref(p)' = NoBlocks, Ref(v)' = NoBlocks,
         Ref(q)' = Ref(p), Ref(z)' = Ref(v),
         \A s \in Slots : s \notin {p, q, v, z} => Ref(s)' = Ref(s)
  PROVE  Metadata'
<1> PICK D : D = DataOf(nchunks)
  OBVIOUS
<1>1. UNCHANGED <<nchunks, metaFree, dirty>> /\ DataOf(nchunks)' = D
  BY DEF meta, DataOf
<1>2. /\ \A s \in Slots : Span(Ref(s)) \subseteq D \ metaFree
      /\ \A s, u \in Slots : s # u => Span(Ref(s)) \cap Span(Ref(u)) = {}
      /\ \A y \in D : y \in metaFree \/ \E s \in Slots : y \in Span(Ref(s))
      /\ metaFree \subseteq D /\ dirty \subseteq metaFree
  BY DEF Metadata
<1>3. /\ Span(Ref(q)) = {} /\ Span(Ref(z)) = {} /\ Span(Ref(p))' = {} /\ Span(Ref(v))' = {}
      /\ Span(Ref(q))' = Span(Ref(p)) /\ Span(Ref(z))' = Span(Ref(v))
      /\ \A s \in Slots : s \notin {p, q, v, z} => Span(Ref(s))' = Span(Ref(s))
  BY NoSpan DEF Span
<1>4. \A s \in Slots : Span(Ref(s))' \subseteq D \ metaFree
  BY <1>2, <1>3
<1>5. \A s \in Slots : Span(Ref(s))' # {} =>
        \/ s = q /\ Span(Ref(s))' = Span(Ref(p))
        \/ s = z /\ Span(Ref(s))' = Span(Ref(v))
        \/ s \notin {p, q, v, z} /\ Span(Ref(s))' = Span(Ref(s))
  BY <1>3
<1>6. \A s, u \in Slots : s # u => Span(Ref(s))' \cap Span(Ref(u))' = {}
  BY <1>2, <1>5
<1>7. \A s \in Slots : Span(Ref(s)) # {} => \E u \in Slots : Span(Ref(u))' = Span(Ref(s))
  BY <1>3
<1>8. \A y \in D : y \in metaFree \/ \E s \in Slots : y \in Span(Ref(s))'
  BY <1>2, <1>7
<1> QED BY <1>1, <1>2, <1>4, <1>6, <1>8 DEF Metadata

\* add_arena, second half: the count makes the arena visible.
LEMMA PublishStep ==
  ASSUME PoolInv, NEW t \in Threads, Publish(t)
  PROVE  PoolInv'
<1> PICK a : a = op[t].new
  OBVIOUS
<1> PICK o : o = [op[t] EXCEPT !.bm = NoBlocks, !.dsc = NoBlocks]
  OBVIOUS
<1>1. /\ op[t] \in Ops /\ Carries(pc[t], op[t]) /\ op[t].cnt <= count /\ count \in 0..MaxArenas
      /\ op \in [Threads -> Ops] /\ pc \in [Threads -> Pcs] /\ Control /\ Registry
      /\ Prepared /\ RunsOut /\ OnCourse /\ cursor \in 0..(MaxArenas - 1)
      /\ requests \in 0..MaxRequests /\ quiet \subseteq Threads
  BY Here DEF PoolInv
<1>2. /\ pc[t] = "publish" /\ count' = count + 1 /\ lock' = None
      /\ pc' = [pc EXCEPT ![t] = "fresh"] /\ op' = [op EXCEPT ![t] = o]
      /\ UNCHANGED <<arenas, cursor, mapped, desc, free, meta, nchunks, metaFree, dirty, client, held,
                     requests, quiet>>
  BY <1>1 DEF Publish, Goto, others, meta
<1>3. /\ Typed /\ Metadata /\ desc \in [Arenas -> [n : 0..MaxArenaSlices, bm : MetaRef, own : MetaRef]]
      /\ free \in [Arenas -> SUBSET Slices] /\ mapped \subseteq Arenas
      /\ arenas \in [0..(MaxArenas - 1) -> Arenas \cup {None}]
      /\ nchunks \in 0..NChunks /\ metaFree \subseteq Blocks /\ dirty \subseteq Blocks
      /\ a \in Arenas /\ a \notin Registered
  BY <1>2, InTheMaking DEF Makes
<1>4. /\ o \in Ops /\ o.n = op[t].n /\ o.cnt = op[t].cnt /\ o.k = op[t].k /\ o.new = a
      /\ o.bm = NoBlocks /\ o.dsc = NoBlocks /\ o.run = op[t].run
  BY <1>1, NoSpan DEF Ops
<1>5. Carries("fresh", o)
  BY <1>1, <1>2, <1>3, <1>4 DEF Carries, Claims, Makes, Looks
<1>6. Moves(t, "fresh", o)
  BY <1>1, <1>2, <1>4, <1>5 DEF Moves, Pcs
<1>7. pc'[t] = "fresh" /\ op'[t] = o /\ \A u \in Threads \ {t} : pc'[u] = pc[u] /\ op'[u] = op[u]
  BY <1>3, <1>6, MovedThreads
<1>8. count < MaxArenas /\ arenas[count] = a
  BY <1>1, <1>2 DEF Registry
<1>9. count' \in 0..MaxArenas /\ count <= count' /\ \A i : i \in 0..(count' - 1) <=> i \in 0..(count - 1) \/ i = count
  <2>1. MaxArenas \in Nat /\ count \in Nat
    BY <1>1, PoolAssumption
  <2> QED BY <1>2, <1>8, <2>1
<1>10. Typed' /\ Control'
  <2>1. client \in MetaRef /\ held \subseteq Run
    BY <1>3 DEF Typed, TypeOK
  <2>2. lock' \in Threads \cup {None} /\ quiet' \subseteq Threads
    BY <1>1, <1>2
  <2> QED BY <1>1, <1>2, <1>3, <1>6, <1>9, <2>1, <2>2, MoveStep
<1>11. Registered' = Registered \cup {a}
  BY <1>2, <1>8, <1>9 DEF Registered
<1>12. InMaking' = InMaking \ {t} /\ t \in InMaking /\ InMaking \subseteq Threads
  BY <1>2, <1>7 DEF InMaking, Making
<1>13. /\ mapped = Registered \cup {op[u].new : u \in InMaking}
       /\ \A i, j \in 0..(count - 1) : arenas[i] = arenas[j] => i = j
       /\ \A u \in InMaking : op[u].new \notin Registered /\ \A v \in InMaking : op[v].new = op[u].new => v = u
  BY <1>1 DEF Registry, RegionsAreAccountedFor
<1>14. RegionsAreAccountedFor'
  <2>1. \A u \in InMaking \ {t} : op'[u].new = op[u].new
    BY <1>7, <1>12
  <2>2. mapped' = Registered' \cup {op'[u].new : u \in InMaking'}
    BY <1>2, <1>11, <1>12, <1>13, <2>1
  <2>3. \A i \in 0..(count - 1) : arenas[i] # a
    BY <1>3 DEF Registered
  <2>4. \A i, j \in 0..(count' - 1) : arenas'[i] = arenas'[j] => i = j
    BY <1>2, <1>8, <1>9, <1>13, <2>3
  <2>5. \A u \in InMaking' : /\ op'[u].new \notin Registered'
                             /\ \A v \in InMaking' : op'[v].new = op'[u].new => v = u
    BY <1>11, <1>12, <1>13, <2>1
  <2> QED BY <2>2, <2>4, <2>5 DEF RegionsAreAccountedFor
<1>15. Registry'
  <2>1. \A u \in Threads \ {t} : pc[u] \notin {"add", "publish"}
    BY <1>1, <1>2 DEF Registry
  <2>2. \A u \in Threads : lock' = u <=> pc'[u] \in {"add", "publish"}
    BY <1>2, <1>7, <2>1, PoolAssumption
  <2>3. \A u \in Threads : pc'[u] # "publish"
    BY <1>7, <2>1
  <2>4. \A u \in Threads : pc'[u] \in {"fresh", "freshCommit", "freshHint"} => op'[u].new \in Registered'
    BY <1>1, <1>4, <1>7, <1>11 DEF Registry
  <2>5. \A i \in 0..(count' - 1) : arenas'[i] \in Arenas
    BY <1>1, <1>2, <1>3, <1>8, <1>9 DEF Registry
  <2> QED BY <1>14, <2>2, <2>3, <2>4, <2>5 DEF Registry
<1>16. /\ desc[a].n = ReserveSize(op[t].n) /\ desc[a].bm = op[t].bm /\ desc[a].own = op[t].dsc
       /\ free[a] = 0..(desc[a].n - 1)
  BY <1>1, <1>2 DEF Prepared
<1>17. Prepared'
  <2>1. ASSUME NEW u \in Threads
        PROVE  /\ pc'[u] \in {"zallocBm", "zallocDesc", "lock", "add", "publish", "fresh"} =>
                    desc'[op'[u].new].n = ReserveSize(op'[u].n)
               /\ pc'[u] \in {"lock", "add", "publish"} =>
                    /\ desc'[op'[u].new].bm = op'[u].bm /\ desc'[op'[u].new].own = op'[u].dsc
                    /\ free'[op'[u].new] = 0..(desc'[op'[u].new].n - 1)
    <3>1. CASE u = t
      BY <1>2, <1>4, <1>7, <1>16, <3>1
    <3>2. CASE u # t
      BY <1>1, <1>2, <1>7, <3>2 DEF Prepared
    <3> QED BY <3>1, <3>2
  <2> QED BY <2>1 DEF Prepared, ReserveSize
<1>18. Metadata'
  <2> PICK p : p = <<"bm", t>>
    OBVIOUS
  <2> PICK q : q = <<"abm", a>>
    OBVIOUS
  <2> PICK v : v = <<"dsc", t>>
    OBVIOUS
  <2> PICK z : z = <<"aown", a>>
    OBVIOUS
  <2>1. p # q /\ p # v /\ p # z /\ q # v /\ q # z /\ v # z
    OBVIOUS
  <2>2. /\ p \in Slots /\ v \in Slots /\ Ref(p) = op[t].bm /\ Ref(v) = op[t].dsc
        /\ Ref(p)' = NoBlocks /\ Ref(v)' = NoBlocks
    BY <1>4, <1>7, RefCases
  <2>3. /\ q \in Slots /\ z \in Slots /\ Ref(q) = NoBlocks /\ Ref(z) = NoBlocks
        /\ Ref(q)' = desc[a].bm /\ Ref(z)' = desc[a].own
    BY <1>2, <1>3, <1>11, RefCases
  <2>4. \A s \in Slots : s \notin {p, q, v, z} => Ref(s)' = Ref(s)
    BY <1>2, <1>7, <1>11, RefCases
  <2>5. Ref(q)' = Ref(p) /\ Ref(z)' = Ref(v)
    BY <1>16, <2>2, <2>3
  <2>6. Metadata /\ UNCHANGED meta
    BY <1>2, <1>3
  <2> QED BY ONLY <2>1, <2>2, <2>3, <2>4, <2>5, <2>6, MetaHandedOver
<1>19. RunsOut'
  <2>1. \A u \in Threads : op'[u].run = op[u].run
    BY <1>4, <1>7
  <2>2. Claimed' = Claimed
    BY ONLY <2>1 DEF Claimed
  <2>3. \A r \in held \cup Claimed : r.arena \in Registered /\ r.arena # a
    BY <1>1, <1>3 DEF RunsOut
  <2> PICK O : O = held \cup Claimed
    OBVIOUS
  <2>4. ASSUME NEW b \in Registered'
        PROVE  /\ free[b] \cup UNION {RunSet(r) : r \in {r \in O : r.arena = b}} = 0..(desc[b].n - 1)
               /\ \A r \in {r \in O : r.arena = b} : RunSet(r) \cap free[b] = {}
               /\ \A r, s \in {r \in O : r.arena = b} : RunSet(r) \cap RunSet(s) # {} => r = s
    <3>1. CASE b = a
      <4>1. {r \in O : r.arena = b} = {}
        BY <2>3, <3>1
      <4> QED BY <1>16, <3>1, <4>1
    <3>2. CASE b \in Registered
      BY <1>1, <3>2 DEF RunsOut, SlicesAreExact
    <3> QED BY <1>11, <3>1, <3>2
  <2>5. /\ \A u, v \in Threads : op[u].run # None /\ op[u].run = op[v].run => u = v
        /\ held \cap Claimed = {}
    BY <1>1, <1>3, RunsApart
  <2>6. SlicesAreExact'
    BY <1>2, <2>1, <2>2, <2>4, <2>5 DEF SlicesAreExact, RunSet
  <2> QED BY <1>2, <1>11, <2>2, <2>3, <2>6 DEF RunsOut
<1>20. OnCourse'
  <2>1. ASSUME NEW u \in quiet', pc'[u] # "idle", FitsAnArena(op'[u].n)
        PROVE  /\ pc'[u] \notin {"dropRegion", "dropBm", "dropDesc", "failed"}
               /\ pc'[u] = "fresh" => free'[op'[u].new] = 0..(desc'[op'[u].new].n - 1)
    <3>1. CASE u = t
      BY <1>2, <1>4, <1>7, <1>16, <3>1
    <3>2. CASE u # t
      <4>1. u \in quiet /\ u \in Threads /\ pc'[u] = pc[u] /\ op'[u] = op[u]
        BY <1>1, <1>2, <1>7, <3>2
      <4> QED BY <1>1, <1>2, <2>1, <4>1 DEF OnCourse
    <3> QED BY <3>1, <3>2
  <2> QED BY <2>1 DEF OnCourse, FitsAnArena
<1> QED BY <1>10, <1>15, <1>17, <1>18, <1>19, <1>20 DEF PoolInv

-----------------------------------------------------------------------------
(***************************************************************************)
(* The invariant, and what it gives.                                       *)
(***************************************************************************)
LEMMA PoolInvInit == Init => PoolInv
<1> SUFFICES ASSUME Init PROVE PoolInv
  OBVIOUS
<1>1. /\ arenas = [i \in 0..(MaxArenas - 1) |-> None]
      /\ count = 0 /\ cursor = 0 /\ lock = None
      /\ mapped = {} /\ desc = [a \in Arenas |-> NoArena] /\ free = [a \in Arenas |-> {}]
      /\ nchunks = 0 /\ metaFree = {} /\ dirty = {} /\ client = NoBlocks
      /\ pc = [t \in Threads |-> "idle"] /\ op = [t \in Threads |-> NoOp]
      /\ held = {} /\ requests = 0 /\ quiet = {}
  BY DEF Init
<1>2. \A t \in Threads : pc[t] = "idle" /\ op[t] = NoOp
  BY <1>1
<1>3. NoOp \in Ops /\ Carries("idle", NoOp)
  BY NothingHeld
<1>4. NoOp.run = None /\ NoOp.bm = NoBlocks /\ NoOp.dsc = NoBlocks /\ NoOp.cnt = 0
  BY DEF NoOp
<1>5. op \in [Threads -> Ops]
  BY <1>1, <1>3
<1>6. TypeOK
  <2>1. NoArena \in [n : 0..MaxArenaSlices, bm : MetaRef, own : MetaRef]
    BY NoSpan, PoolAssumption DEF NoArena
  <2>2. \A t \in Threads :
          /\ op[t].n \in Requests \cup {0} /\ op[t].cnt \in 0..MaxArenas
          /\ op[t].new \in Arenas \cup {None} /\ op[t].run \in Run \cup {None}
          /\ op[t].bm \in MetaRef /\ op[t].dsc \in MetaRef
          /\ pc[t] = "search" => op[t].k < op[t].cnt
    BY <1>2, <1>3, OpTypes
  <2>3. /\ arenas \in [0..(MaxArenas - 1) -> Arenas \cup {None}]
        /\ count \in 0..MaxArenas /\ cursor \in 0..(MaxArenas - 1)
        /\ nchunks \in 0..NChunks /\ requests \in 0..MaxRequests
    BY <1>1, PoolAssumption
  <2>4. /\ desc \in [Arenas -> [n : 0..MaxArenaSlices, bm : MetaRef, own : MetaRef]]
        /\ free \in [Arenas -> SUBSET Slices] /\ pc \in [Threads -> Pcs]
    BY <1>1, <2>1 DEF Pcs
  <2> QED BY <1>1, <2>2, <2>3, <2>4, NoSpan DEF TypeOK
<1>7. Control
  BY <1>1, <1>2, <1>3, <1>4 DEF Control
<1>8. Registered = {} /\ InMaking = {} /\ Claimed = {}
  BY <1>1, <1>2, <1>4 DEF Registered, InMaking, Making, Claimed
<1>9. Registry
  <2>1. \A i \in 0..(count - 1) : FALSE
    BY <1>1
  <2>2. \A t \in Threads : lock # t
    BY <1>1, PoolAssumption
  <2> QED BY <1>1, <1>2, <1>8, <2>1, <2>2 DEF Registry, RegionsAreAccountedFor
<1>10. Prepared
  BY <1>2 DEF Prepared
<1>11. Metadata
  <2>1. DataOf(nchunks) = {}
    BY <1>1 DEF DataOf
  <2>2. \A s \in Slots : Ref(s) = NoBlocks
    BY <1>1, <1>2, <1>4, <1>8, RefCases
  <2>3. \A s \in Slots : Span(Ref(s)) = {}
    BY <2>2, NoSpan
  <2> QED BY <1>1, <2>1, <2>3 DEF Metadata
<1>12. RunsOut /\ OnCourse
  BY <1>1, <1>8 DEF RunsOut, SlicesAreExact, OnCourse
<1> QED BY <1>5, <1>6, <1>7, <1>9, <1>10, <1>11, <1>12 DEF PoolInv, Typed

LEMMA PoolInvStep == PoolInv /\ [Next]_vars => PoolInv'
<1> SUFFICES ASSUME PoolInv, [Next]_vars PROVE PoolInv'
  OBVIOUS
<1>1. ASSUME NEW t \in Threads, Begin(t)
      PROVE  PoolInv'
  <2>1. CASE \E n \in Requests : Request(t, n)
    BY <2>1, RequestStep
  <2>2. CASE \E r \in held : free_slices(t, r)
    <3>1. PICK r \in held : free_slices(t, r)
      BY <2>2
    <3> QED BY <3>1, FreeSlicesStep
  <2>3. CASE NewHeap(t)
    BY <2>3, NewHeapStep
  <2>4. CASE FreeHeap(t)
    BY <2>4, FreeHeapStep
  <2> QED BY <1>1, <2>1, <2>2, <2>3, <2>4 DEF Begin
<1>2. ASSUME NEW t \in Threads, Step(t)
      PROVE  PoolInv'
  <2>1. LoadCursor(t) \/ Search(t) \/ Commit(t) \/ CommitFails(t) \/ Panic(t) \/ Hint(t) => PoolInv'
    BY LoadCursorStep, SearchStep, CommitStep, CommitFailsStep, PanicStep, HintStep
  <2>2. Reserve(t) \/ ReserveFails(t) \/ ZallocBm(t) \/ ZallocDesc(t) \/ ZallocDescFails(t) => PoolInv'
    BY ReserveStep, ReserveFailsStep, ZallocBmStep, ZallocDescStep, ZallocDescFailsStep
  <2>3. Lock(t) \/ Add(t) \/ Publish(t) \/ AddFull(t) \/ Fresh(t) => PoolInv'
    BY LockStep, AddStep, PublishStep, AddFullStep, FreshStep
  <2>4. DropRegion(t) \/ DropBm(t) \/ DropDesc(t) \/ Fail(t) => PoolInv'
    BY DropRegionStep, DropBmStep, DropDescStep, FailStep
  <2> QED BY <1>2, <2>1, <2>2, <2>3, <2>4 DEF Step
<1>3. CASE UNCHANGED vars
  <2>1. /\ UNCHANGED <<arenas, count, cursor, lock, mapped, desc, free, meta, client, pc, op, held,
                       requests, quiet>>
        /\ UNCHANGED <<nchunks, metaFree, dirty>>
    BY <1>3 DEF vars, pool, meta
  <2>2. Registered' = Registered
    BY <2>1 DEF Registered
  <2>3. \A s \in Slots : Ref(s)' = Ref(s)
    BY <2>1, <2>2, RefCases
  <2>4. Metadata'
    BY <2>1, <2>3, MetadataKept DEF PoolInv
  <2>5. /\ client' \in MetaRef /\ requests' \in 0..MaxRequests /\ nchunks' \in 0..NChunks
        /\ metaFree' \subseteq Blocks /\ dirty' \subseteq Blocks
    BY <2>1 DEF PoolInv, Typed, TypeOK
  <2> QED BY <2>1, <2>4, <2>5, ClientStep DEF pool
<1> QED BY <1>1, <1>2, <1>3 DEF Next

LEMMA PoolInvHolds == Spec => []PoolInv
BY PoolInvInit, PoolInvStep, PTL DEF Spec

\* Metadata by owner gives metadata by block.
LEMMA OwnersAreBlocks ==
  ASSUME PoolInv
  PROVE  MetaIsAccountedFor
<1> DEFINE refs == ((UNION {MetaRefs(t) : t \in Threads}) \cup {client}
                      \cup UNION {{desc[a].bm, desc[a].own} : a \in Registered}) \ {NoBlocks}
<1>1. \A r : r \in refs <=>
        /\ r # NoBlocks
        /\ \/ \E t \in Threads : r = op[t].bm \/ r = op[t].dsc
           \/ r = client
           \/ \E a \in Registered : r = desc[a].bm \/ r = desc[a].own
  BY DEF MetaRefs
<1>2. Metadata /\ \A a \in Registered : a \in Arenas
  BY RegisteredArenas DEF PoolInv
<1>3. ASSUME NEW r \in refs
      PROVE  \E s \in Slots : r = Ref(s)
  <2>1. CASE \E t \in Threads : r = op[t].bm \/ r = op[t].dsc
    BY <2>1, RefCases
  <2>2. CASE r = client
    BY <2>2, RefCases
  <2>3. CASE \E a \in Registered : r = desc[a].bm \/ r = desc[a].own
    BY <1>2, <2>3, RefCases
  <2> QED BY <1>1, <2>1, <2>2, <2>3
<1>4. \A s \in Slots : Ref(s) = NoBlocks \/ Ref(s) \in refs
  BY <1>1, RefCases
<1> HIDE DEF refs
<1>5. \A r \in refs : Span(r) \subseteq DataOf(nchunks) \ metaFree
  BY <1>2, <1>3 DEF Metadata
<1>6. \A r, s \in refs : Span(r) \cap Span(s) # {} => r = s
  BY <1>2, <1>3 DEF Metadata
<1>7. \A x \in DataOf(nchunks) : x \in metaFree \/ \E r \in refs : x \in Span(r)
  BY <1>2, <1>4, NoSpan DEF Metadata
<1>8. metaFree \subseteq DataOf(nchunks)
  BY <1>2 DEF Metadata
<1>9. (UNION {Span(r) : r \in refs}) \cup metaFree = DataOf(nchunks)
  <2> DEFINE U == UNION {Span(r) : r \in refs}
  <2>1. \A x : x \in U <=> \E r \in refs : x \in Span(r)
    BY Zenon
  <2> HIDE DEF U
  <2>2. U \cup metaFree = DataOf(nchunks)
    BY <1>5, <1>7, <1>8, <2>1
  <2> QED BY <2>2 DEF U
<1>10. \A r \in refs : Span(r) \cap metaFree = {}
  BY <1>5
<1> QED BY <1>6, <1>9, <1>10 DEF MetaIsAccountedFor, refs, DataOf

\* Subproc::alloc_slices, add_arena, Arena::create, its rollbacks and destroy,
\* on any number of threads: each mapped region is a registered arena or in
\* the hands of the one thread making it, each metadata block is free or has
\* one owner, and every run the program holds is of an arena that
\* owns_address finds.
THEOREM PoolStaysSound == Spec => []PoolIsSound
<1>1. PoolInv => PoolIsSound
  <2> SUFFICES ASSUME PoolInv PROVE PoolIsSound
    OBVIOUS
  <2>1. TypeOK /\ RegionsAreAccountedFor /\ MetaIsAccountedFor
    BY OwnersAreBlocks DEF PoolInv, Typed, Registry
  <2>2. HandedOutIsOwned
    BY DEF PoolInv, RunsOut, HandedOutIsOwned, owns_address, Registered
  <2> QED BY <2>1, <2>2 DEF PoolIsSound
<1> QED BY <1>1, PoolInvHolds, PTL

\* Every slice of a registered arena is free, or claimed by one thread, or in
\* one run handed out, and its free bitmap shows no slice it does not have:
\* meta_zalloc zeroes what it recycles, whatever create or a heap left in it.
THEOREM SlicesStayExact == Spec => []SlicesAreExact
<1>1. PoolInv => SlicesAreExact
  BY DEF PoolInv, RunsOut
<1> QED BY <1>1, PoolInvHolds, PTL

\* alloc_slices returns None for a request an arena can hold only if the OS
\* refused something, the registry was full, or another thread claimed slices
\* in the meantime: the sizes reserve_arena picks always fit what was asked.
THEOREM UndisturbedRequestsSucceed == Spec => []UndisturbedRequestSucceeds
<1>1. PoolInv => UndisturbedRequestSucceeds
  BY DEF PoolInv, OnCourse, UndisturbedRequestSucceeds
<1> QED BY <1>1, PoolInvHolds, PTL

=============================================================================
