--------------------------- MODULE PageMapProofs ----------------------------
(***************************************************************************)
(* Proofs about PageMap, for every number of threads, slices, submaps and  *)
(* registrations: a lookup finds every registered page and nothing else.   *)
(***************************************************************************)
EXTENDS PageMap, TLAPS

Registering == {"top", "topLocked", "slice", "submap", "submapLocked", "store"}
Works == [id : Nat, lo : Int, hi : Int, end : Int]
Extent(w) == w.lo..w.hi

(***************************************************************************)
(* The tables: no region shares its submap, submaps not handed out yet     *)
(* hold nothing, and without a top table no region has one.                *)
(***************************************************************************)
Tables ==
  /\ top \in BOOLEAN /\ made \in 0..MaxSubmaps
  /\ entry \in [Regions -> 0..made]
  /\ submap \in [Submaps -> [0..(SubCount - 1) -> Nat]]
  /\ \A r, q \in Regions : entry[r] = entry[q] => entry[r] = Zero \/ r = q
  /\ \A m \in Submaps : m > made => \A i \in 0..(SubCount - 1) : submap[m][i] = 0
  /\ ~top => \A r \in Regions : entry[r] = Zero

Typed ==
  /\ pc \in [Threads -> {"idle", "clear"} \cup Registering]
  /\ work \in [Threads -> Works] /\ at \in [Threads -> Int]
  /\ pages \subseteq Works /\ free \subseteq Slices
  /\ count \in Nat

(***************************************************************************)
(* Pages, the pages threads work on and the free slices do not overlap.    *)
(***************************************************************************)
Layout ==
  /\ \A pg \in pages : /\ Extent(pg) \subseteq Slices
                       /\ Extent(pg) \cap free = {}
                       /\ \A q \in pages : pg = q \/ Extent(pg) \cap Extent(q) = {}
  /\ \A t \in Threads : /\ Extent(work[t]) \subseteq Slices
                        /\ Extent(work[t]) \cap free = {}
                        /\ \A pg \in pages : Extent(work[t]) \cap Extent(pg) = {}
                        /\ \A u \in Threads \ {t} :
                             Extent(work[t]) \cap Extent(work[u]) = {}

\* A registered page is mapped.
Mapped(pg) ==
  /\ pg.id > 0 /\ pg.lo <= pg.hi /\ pg.end = pg.hi
  /\ \A s \in Extent(pg) : lookup(s) = pg.id

(***************************************************************************)
(* How far register and unregister have come: what is behind at is done,   *)
(* what is before it is not.                                               *)
(***************************************************************************)
Progress(t) ==
  LET w == work[t] IN
  /\ pc[t] = "idle" => w = NoWork
  /\ pc[t] \in Registering =>
       /\ w.id > 0 /\ w.end = w.hi /\ w.lo <= at[t] /\ w.lo <= w.hi
       /\ pc[t] # "slice" => at[t] <= w.hi
       /\ at[t] <= w.hi + 1
       /\ pc[t] \in {"top", "topLocked"} => at[t] = w.lo
       /\ pc[t] \notin {"top", "topLocked"} => top
       /\ pc[t] = "store" => entry[TopIdx(at[t])] # Zero
       /\ \A s \in Extent(w) : lookup(s) = IF s < at[t] THEN w.id ELSE 0
  /\ pc[t] = "clear" =>
       /\ w.id > 0 /\ w.lo <= at[t] /\ w.end <= w.hi
       /\ \A s \in Extent(w) :
            lookup(s) = IF at[t] <= s /\ s <= w.end THEN w.id ELSE 0

MapInv ==
  /\ Tables /\ Typed /\ Layout
  /\ \A pg \in pages : Mapped(pg)
  /\ \A t \in Threads : Progress(t)
  /\ FreeSlicesAreUnmapped

-----------------------------------------------------------------------------
\* A slice has a cell of its own.
LEMMA CellsAreDistinct ==
  /\ \A s \in Slices : TopIdx(s) \in Regions /\ SubIdx(s) \in 0..(SubCount - 1)
  /\ \A s, u \in Slices : TopIdx(s) = TopIdx(u) /\ SubIdx(s) = SubIdx(u) => s = u
<1>1. \A s \in Slices : TopIdx(s) \in Regions /\ SubIdx(s) \in 0..(SubCount - 1)
  BY PageMapAssumption DEF Slices, TopIdx, SubIdx, Regions
<1>2. \A s \in Slices : s = SubCount * TopIdx(s) + SubIdx(s)
  BY PageMapAssumption DEF Slices, TopIdx, SubIdx
<1> QED BY <1>1, <1>2

\* A store through a submap changes the lookup of that slice only.
LEMMA StoreLookup ==
  ASSUME Tables, NEW s \in Slices, top, entry[TopIdx(s)] # Zero,
         NEW id \in Nat, Store(s, id), UNCHANGED <<top, entry, made>>
  PROVE  /\ Tables'
         /\ lookup(s)' = id
         /\ \A u \in Slices : u # s => lookup(u)' = lookup(u)
<1> DEFINE m == entry[TopIdx(s)]
           i == SubIdx(s)
<1>1. TopIdx(s) \in Regions /\ i \in 0..(SubCount - 1)
  BY CellsAreDistinct
<1>2. m \in 0..made /\ m # 0 /\ made \in 0..MaxSubmaps
  BY <1>1 DEF Tables, Zero
<1>3. m \in Submaps /\ m <= made
  BY <1>2, PageMapAssumption DEF Submaps
<1>4. submap' = [submap EXCEPT ![m][i] = id]
  BY DEF Store
<1> HIDE DEF m, i
<1>5. /\ submap' \in [Submaps -> [0..(SubCount - 1) -> Nat]]
      /\ \A n \in Submaps \ {m} : submap'[n] = submap[n]
      /\ \A k \in (0..(SubCount - 1)) \ {i} : submap'[m][k] = submap[m][k]
      /\ submap'[m][i] = id
  BY <1>1, <1>3, <1>4 DEF Tables
<1>6. \A n \in Submaps : n > made => n # m
  BY <1>2
<1>7. Tables'
  BY <1>5, <1>6 DEF Tables
<1>8. lookup(s)' = id
  BY <1>1, <1>5 DEF Tables, lookup, m, i
<1>9. ASSUME NEW u \in Slices, u # s PROVE lookup(u)' = lookup(u)
  <2>1. TopIdx(u) \in Regions /\ SubIdx(u) \in 0..(SubCount - 1)
    BY CellsAreDistinct
  <2>2. CASE TopIdx(u) = TopIdx(s)
    <3>1. SubIdx(u) # i
      BY <2>2, <1>9, CellsAreDistinct DEF i
    <3> QED BY <1>5, <2>1, <2>2, <3>1 DEF lookup, m
  <2>3. CASE TopIdx(u) # TopIdx(s)
    <3>1. entry[TopIdx(u)] = Zero \/ entry[TopIdx(u)] # m
      BY <1>1, <2>1, <2>3 DEF Tables, m
    <3>2. entry[TopIdx(u)] = Zero \/ entry[TopIdx(u)] \in Submaps
      <4>1. entry[TopIdx(u)] \in 0..made
        BY <2>1 DEF Tables
      <4> QED BY <1>2, <4>1, PageMapAssumption DEF Submaps, Zero
    <3> QED BY <1>5, <3>1, <3>2 DEF lookup
  <2> QED BY <2>2, <2>3
<1> QED BY <1>7, <1>8, <1>9

\* Publishing the top table, filled with the zero submap, changes no lookup.
LEMMA TopLookup ==
  ASSUME Tables, top' = TRUE, UNCHANGED <<entry, submap, made>>
  PROVE  /\ Tables'
         /\ \A u \in Slices : lookup(u)' = lookup(u)
<1>1. Tables'
  BY DEF Tables
<1>2. ASSUME NEW u \in Slices PROVE lookup(u)' = lookup(u)
  BY CellsAreDistinct DEF Tables, lookup
<1> QED BY <1>1, <1>2

\* Nor does a fresh submap.
LEMMA SubmapLookup ==
  ASSUME Tables, top, NEW r \in Regions, entry[r] = Zero, made < MaxSubmaps,
         made' = made + 1, entry' = [entry EXCEPT ![r] = made + 1],
         UNCHANGED <<top, submap>>
  PROVE  /\ Tables'
         /\ \A u \in Slices : lookup(u)' = lookup(u)
         /\ \A q \in Regions : entry[q] # Zero => entry'[q] = entry[q]
<1>1. made \in Nat /\ made + 1 \in Submaps
  BY PageMapAssumption DEF Tables, Submaps
<1>2. Tables'
  <2>1. /\ entry' \in [Regions -> 0..made'] /\ entry'[r] = made + 1
        /\ \A q \in Regions \ {r} : entry'[q] = entry[q] /\ entry[q] # made + 1
    BY <1>1 DEF Tables
  <2>2. \A p, q \in Regions : entry'[p] = entry'[q] => entry'[p] = Zero \/ p = q
    BY <2>1 DEF Tables
  <2>3. \A n \in Submaps : n > made' =>
          \A i \in 0..(SubCount - 1) : submap'[n][i] = 0
    BY <1>1 DEF Tables, Submaps
  <2> QED BY <1>1, <2>1, <2>2, <2>3, PageMapAssumption DEF Tables
<1>3. ASSUME NEW u \in Slices PROVE lookup(u)' = lookup(u)
  <2>1. CASE TopIdx(u) = r
    BY <1>1, <2>1, CellsAreDistinct DEF Tables, lookup, Zero
  <2>2. CASE TopIdx(u) # r
    BY <2>2, CellsAreDistinct DEF Tables, lookup
  <2> QED BY <2>1, <2>2
<1> QED BY <1>2, <1>3 DEF Tables

-----------------------------------------------------------------------------
\* An empty table over free slices.
LEMMA MapInit == Init => MapInv
<1> SUFFICES ASSUME Init PROVE MapInv
  OBVIOUS
<1>1. NoWork \in Works /\ Extent(NoWork) = {}
  BY DEF NoWork, Works, Extent
<1>2. Tables
  <2>1. made \in 0..MaxSubmaps /\ 0 \in 0..made
    BY PageMapAssumption DEF Init
  <2> QED BY <2>1 DEF Init, Tables, Zero
<1>3. Typed
  BY <1>1 DEF Init, Typed
<1>4. Layout
  BY <1>1 DEF Init, Layout
<1>5. \A t \in Threads : Progress(t)
  BY DEF Init, Progress, Registering
<1>6. FreeSlicesAreUnmapped
  BY DEF Init, FreeSlicesAreUnmapped, lookup
<1> QED BY <1>2, <1>3, <1>4, <1>5, <1>6 DEF MapInv, Init

(***************************************************************************)
(* A step that changes no lookup leaves the mapping of pages and of what   *)
(* other threads work on alone.                                            *)
(***************************************************************************)
LEMMA LookupsKept ==
  ASSUME MapInv, Tables',
         \A s \in Slices : lookup(s)' = lookup(s),
         top => top',
         \A r \in Regions : entry[r] # Zero => entry'[r] # Zero
  PROVE  /\ \A pg \in pages : Mapped(pg)'
         /\ \A s \in free : lookup(s)' = 0
         /\ \A u \in Threads : pc'[u] = pc[u] /\ work'[u] = work[u] /\ at'[u] = at[u]
                               => Progress(u)'
<1>1. \A pg \in pages : Mapped(pg)'
  BY DEF MapInv, Layout, Mapped
<1>2. \A s \in free : lookup(s)' = 0
  BY DEF MapInv, Typed, FreeSlicesAreUnmapped
<1>3. ASSUME NEW u \in Threads,
             pc'[u] = pc[u] /\ work'[u] = work[u] /\ at'[u] = at[u]
      PROVE  Progress(u)'
  <2>1. /\ Extent(work[u]) \subseteq Slices
        /\ work[u] \in Works /\ at[u] \in Int
    BY DEF MapInv, Layout, Typed
  <2>2. \A s \in Extent(work[u]) : lookup(s)' = lookup(s)
    BY <2>1
  <2>3. pc[u] = "store" => TopIdx(at[u]) \in Regions
    BY <2>1, CellsAreDistinct DEF MapInv, Progress, Registering, Extent, Works
  <2> QED BY <1>3, <2>2, <2>3 DEF MapInv, Progress
<1> QED BY <1>1, <1>2, <1>3

\* The step of one thread that leaves the extents of all works and pages alone.
LEMMA LayoutKept ==
  ASSUME Layout, UNCHANGED <<pages, free>>,
         \A u \in Threads : Extent(work'[u]) = Extent(work[u])
  PROVE  Layout'
BY DEF Layout

\* A thread that lets go of its work gives its slices back.
LEMMA GivesBack ==
  ASSUME MapInv, NEW t \in Threads,
         work' = [work EXCEPT ![t] = NoWork],
         free' = free \cup (work[t].lo..work[t].hi), pages' = pages
  PROVE  Layout' /\ free' \subseteq Slices
<1>1. /\ Extent(work'[t]) = {}
      /\ \A u \in Threads \ {t} : Extent(work'[u]) = Extent(work[u])
  BY DEF MapInv, Typed, Extent, NoWork
<1>2. free' = free \cup Extent(work[t])
  BY DEF Extent
<1>3. free' \subseteq Slices
  BY <1>2 DEF MapInv, Layout, Typed
<1>4. \A pg \in pages : Extent(pg) \cap free' = {}
  BY <1>2 DEF MapInv, Layout
<1>5. \A u \in Threads : Extent(work'[u]) \cap free' = {}
  BY <1>1, <1>2 DEF MapInv, Layout
<1> QED BY <1>1, <1>3, <1>4, <1>5 DEF MapInv, Layout

\* register takes free slices, which lead nowhere.
LEMMA RegisterStep ==
  ASSUME MapInv, NEW t \in Threads, NEW lo \in Slices, NEW hi \in Slices,
         Register(t, lo, hi)
  PROVE  MapInv'
<1> DEFINE w == [id |-> count + 1, lo |-> lo, hi |-> hi, end |-> hi]
<1>1. w \in Works /\ Extent(w) = lo..hi /\ lo \in Int /\ hi \in Int
  BY PageMapAssumption DEF MapInv, Typed, Works, Extent, Slices
<1>2. /\ work' = [work EXCEPT ![t] = w] /\ at' = [at EXCEPT ![t] = lo]
      /\ Extent(w) \subseteq free /\ free' = free \ Extent(w) /\ lo <= hi
      /\ UNCHANGED <<table, lock, pages>> /\ count' = count + 1
      /\ Goto(t, IF top THEN "slice" ELSE "top")
  BY <1>1 DEF Register
<1>3. w.id > 0 /\ w.lo = lo /\ w.hi = hi /\ w.end = hi
  BY DEF MapInv, Typed
<1> HIDE DEF w
<1>4. Tables'
  BY <1>2 DEF MapInv, Tables, table
<1>5. Typed'
  BY <1>1, <1>2 DEF MapInv, Typed, Goto, Registering
<1>6. Layout'
  <2>1. work'[t] = w /\ \A u \in Threads \ {t} : work'[u] = work[u]
    BY <1>2 DEF MapInv, Typed
  <2>2. free \subseteq Slices
    BY DEF MapInv, Typed
  <2>3. \A u \in Threads \ {t} : Extent(work'[u]) \cap Extent(w) = {}
    BY <1>2, <2>1 DEF MapInv, Layout
  <2>4. \A pg \in pages : Extent(pg) \cap Extent(w) = {}
    BY <1>2 DEF MapInv, Layout
  <2> QED BY <1>2, <2>1, <2>2, <2>3, <2>4 DEF MapInv, Layout
<1>7. \A s \in Slices : lookup(s)' = lookup(s)
  BY <1>2 DEF lookup, table
<1>8. /\ \A pg \in pages' : Mapped(pg)'
      /\ FreeSlicesAreUnmapped'
      /\ \A u \in Threads \ {t} : Progress(u)'
  <2>1. top => top'
    BY <1>2 DEF table
  <2>2. \A r \in Regions : entry[r] # Zero => entry'[r] # Zero
    BY <1>2 DEF table
  <2>3. \A u \in Threads \ {t} : pc'[u] = pc[u] /\ work'[u] = work[u] /\ at'[u] = at[u]
    BY <1>2 DEF MapInv, Typed, Goto
  <2> QED BY <1>2, <1>4, <1>7, <2>1, <2>2, <2>3, LookupsKept DEF FreeSlicesAreUnmapped
<1>9. Progress(t)'
  <2>1. work'[t] = w /\ at'[t] = lo /\ pc'[t] \in {"slice", "top"}
        /\ (pc'[t] = "slice" => top')
    BY <1>2 DEF MapInv, Typed, Goto, table
  <2>2. \A s \in Extent(w) : lookup(s)' = 0 /\ ~(s < lo)
    BY <1>1, <1>2, <1>7 DEF MapInv, FreeSlicesAreUnmapped, Typed
  <2> QED BY <1>1, <1>2, <1>3, <2>1, <2>2 DEF Progress, Registering
<1> QED BY <1>4, <1>5, <1>6, <1>8, <1>9 DEF MapInv

(***************************************************************************)
(* A step of one thread that changes no lookup.                            *)
(***************************************************************************)
LEMMA QuietStep ==
  ASSUME MapInv, NEW t \in Threads, Tables', Typed', Layout',
         \A s \in Slices : lookup(s)' = lookup(s),
         top => top',
         \A r \in Regions : entry[r] # Zero => entry'[r] # Zero,
         \A u \in Threads \ {t} : pc'[u] = pc[u] /\ work'[u] = work[u] /\ at'[u] = at[u],
         \A s \in free' : s \in free \/ lookup(s)' = 0,
         \A pg \in pages' : pg \in pages \/ Mapped(pg)',
         Progress(t)'
  PROVE  MapInv'
BY LookupsKept DEF MapInv, FreeSlicesAreUnmapped

\* The same for a step that leaves the tables alone.
LEMMA TableKept ==
  ASSUME MapInv, UNCHANGED table
  PROVE  /\ Tables'
         /\ \A s \in Slices : lookup(s)' = lookup(s)
         /\ top => top'
         /\ \A r \in Regions : entry[r] # Zero => entry'[r] # Zero
BY DEF MapInv, Tables, lookup, table

\* SpinLock::lock.
LEMMA LockStep ==
  ASSUME MapInv, NEW t \in Threads, Lock(t)
  PROVE  MapInv'
<1>1. /\ pc[t] \in {"top", "submap"} /\ UNCHANGED <<table, work, at, pages, free, count>>
      /\ Goto(t, IF pc[t] = "top" THEN "topLocked" ELSE "submapLocked")
  BY DEF Lock
<1>2. Typed'
  BY <1>1 DEF MapInv, Typed, Goto, Registering
<1>3. Layout'
  BY <1>1, LayoutKept DEF MapInv
<1>4. \A u \in Threads \ {t} : pc'[u] = pc[u] /\ work'[u] = work[u] /\ at'[u] = at[u]
  BY <1>1 DEF MapInv, Typed, Goto
<1>5. Progress(t)'
  <2>1. pc'[t] = (IF pc[t] = "top" THEN "topLocked" ELSE "submapLocked")
    BY <1>1 DEF MapInv, Typed, Goto
  <2> QED BY <1>1, <2>1 DEF MapInv, Progress, Registering, lookup, table
<1> QED BY <1>1, <1>2, <1>3, <1>4, <1>5, TableKept, QuietStep

\* ensure_top under the lock.
LEMMA EnsureTopStep ==
  ASSUME MapInv, NEW t \in Threads, EnsureTop(t)
  PROVE  MapInv'
<1>1. /\ pc[t] = "topLocked" /\ top' = TRUE /\ Goto(t, "slice")
      /\ UNCHANGED <<entry, submap, made, work, at, pages, free, count>>
  BY DEF EnsureTop
<1>2. Tables' /\ \A s \in Slices : lookup(s)' = lookup(s)
  BY <1>1, TopLookup DEF MapInv
<1>3. Typed'
  BY <1>1 DEF MapInv, Typed, Goto, Registering
<1>4. Layout'
  BY <1>1, LayoutKept DEF MapInv
<1>5. /\ pc'[t] = "slice"
      /\ \A u \in Threads \ {t} : pc'[u] = pc[u] /\ work'[u] = work[u] /\ at'[u] = at[u]
  BY <1>1 DEF MapInv, Typed, Goto
<1>6. Progress(t)'
  <2>1. \A s \in Extent(work[t]) : lookup(s)' = lookup(s)
    BY <1>2 DEF MapInv, Layout
  <2>2. work[t] \in Works /\ at[t] \in Int
    BY DEF MapInv, Typed
  <2> QED BY <1>1, <1>5, <2>1, <2>2 DEF MapInv, Progress, Registering, Works
<1> QED BY <1>1, <1>2, <1>3, <1>4, <1>5, <1>6, QuietStep

\* No memory for the top table: nothing was written.
LEMMA EnsureTopFailsStep ==
  ASSUME MapInv, NEW t \in Threads, EnsureTopFails(t)
  PROVE  MapInv'
<1>1. /\ pc[t] = "topLocked" /\ Goto(t, "idle")
      /\ free' = free \cup (work[t].lo..work[t].hi)
      /\ work' = [work EXCEPT ![t] = NoWork]
      /\ UNCHANGED <<table, at, pages, count>>
  BY DEF EnsureTopFails
<1>2. Layout' /\ free' \subseteq Slices
  BY <1>1, GivesBack
<1>3. Typed'
  <2>1. NoWork \in Works
    BY DEF NoWork, Works
  <2> QED BY <1>1, <1>2, <2>1 DEF MapInv, Typed, Goto
<1>4. /\ pc'[t] = "idle" /\ work'[t] = NoWork
      /\ \A u \in Threads \ {t} : pc'[u] = pc[u] /\ work'[u] = work[u] /\ at'[u] = at[u]
  BY <1>1 DEF MapInv, Typed, Goto
<1>5. \A s \in Extent(work[t]) : lookup(s) = 0
  <2>1. work[t] \in Works /\ at[t] \in Int
    BY DEF MapInv, Typed
  <2> QED BY <1>1, <2>1 DEF MapInv, Progress, Registering, Extent, Works
<1>6. \A s \in free' : s \in free \/ lookup(s)' = 0
  BY <1>1, <1>2, <1>5, TableKept DEF Extent
<1>7. Progress(t)'
  BY <1>4 DEF Progress, Registering
<1> QED BY <1>1, <1>2, <1>3, <1>4, <1>6, <1>7, TableKept, QuietStep

\* The next slice: its submap is there or has to be made.
LEMMA SliceStep ==
  ASSUME MapInv, NEW t \in Threads, Slice(t)
  PROVE  MapInv'
<1>1. /\ pc[t] = "slice" /\ at[t] <= work[t].end
      /\ Goto(t, IF entry[TopIdx(at[t])] = Zero THEN "submap" ELSE "store")
      /\ UNCHANGED <<table, lock, work, at, pages, free, count>>
  BY DEF Slice
<1>2. Typed'
  BY <1>1 DEF MapInv, Typed, Goto, Registering
<1>3. Layout'
  BY <1>1, LayoutKept DEF MapInv
<1>4. /\ pc'[t] \in {"submap", "store"}
      /\ pc'[t] = "store" => entry[TopIdx(at[t])] # Zero
      /\ \A u \in Threads \ {t} : pc'[u] = pc[u] /\ work'[u] = work[u] /\ at'[u] = at[u]
  BY <1>1 DEF MapInv, Typed, Goto
<1>5. Progress(t)'
  BY <1>1, <1>4 DEF MapInv, Progress, Registering, lookup, table
<1> QED BY <1>1, <1>2, <1>3, <1>4, <1>5, TableKept, QuietStep

\* ensure_submap under the lock.
LEMMA EnsureSubmapStep ==
  ASSUME MapInv, NEW t \in Threads, EnsureSubmap(t)
  PROVE  MapInv'
<1> DEFINE r == TopIdx(at[t])
<1>1. /\ pc[t] = "submapLocked" /\ Goto(t, "store")
      /\ UNCHANGED <<top, submap, work, at, pages, free, count>>
  BY DEF EnsureSubmap
<1>2. /\ work[t] \in Works /\ at[t] \in Int /\ top
      /\ at[t] \in Extent(work[t]) /\ at[t] \in Slices
      /\ r \in Regions
  <2>1. work[t] \in Works /\ at[t] \in Int
    BY DEF MapInv, Typed
  <2>2. top /\ at[t] \in Extent(work[t])
    BY <1>1, <2>1 DEF MapInv, Progress, Registering, Extent, Works
  <2> QED BY <2>1, <2>2, CellsAreDistinct DEF MapInv, Layout
<1>3. /\ Tables'
      /\ \A s \in Slices : lookup(s)' = lookup(s)
      /\ \A q \in Regions : entry[q] # Zero => entry'[q] # Zero
      /\ entry'[r] # Zero
  <2>1. CASE entry[r] # Zero
    BY <1>1, <2>1 DEF EnsureSubmap, MapInv, Tables, lookup
  <2>2. CASE entry[r] = Zero
    <3>1. made < MaxSubmaps /\ made' = made + 1 /\ entry' = [entry EXCEPT ![r] = made + 1]
      BY <2>2 DEF EnsureSubmap
    <3>2. made + 1 # Zero /\ entry'[r] = made + 1
      BY <1>2, <3>1, PageMapAssumption DEF MapInv, Tables, Zero
    <3> HIDE DEF r
    <3>3. Tables /\ top
      BY <1>2 DEF MapInv
    <3>4. /\ Tables'
          /\ \A u \in Slices : lookup(u)' = lookup(u)
          /\ \A q \in Regions : entry[q] # Zero => entry'[q] = entry[q]
      BY <1>1, <1>2, <2>2, <3>1, <3>3, SubmapLookup
    <3> QED BY <3>2, <3>4
  <2> QED BY <2>1, <2>2
<1>4. Typed'
  BY <1>1 DEF MapInv, Typed, Goto, Registering
<1>5. Layout'
  BY <1>1, LayoutKept DEF MapInv
<1>6. /\ pc'[t] = "store"
      /\ \A u \in Threads \ {t} : pc'[u] = pc[u] /\ work'[u] = work[u] /\ at'[u] = at[u]
  BY <1>1 DEF MapInv, Typed, Goto
<1>7. Progress(t)'
  <2>1. \A s \in Extent(work[t]) : lookup(s)' = lookup(s)
    BY <1>3 DEF MapInv, Layout
  <2>2. entry'[TopIdx(at'[t])] # Zero
    BY <1>1, <1>3
  <2> QED BY <1>1, <1>2, <1>6, <2>1, <2>2 DEF MapInv, Progress, Registering
<1> QED BY <1>1, <1>3, <1>4, <1>5, <1>6, <1>7, QuietStep

\* No memory for a submap: the slices before this one are to be cleared again.
LEMMA EnsureSubmapFailsStep ==
  ASSUME MapInv, NEW t \in Threads, EnsureSubmapFails(t)
  PROVE  MapInv'
<1>1. /\ pc[t] = "submapLocked" /\ Goto(t, "clear")
      /\ work' = [work EXCEPT ![t].end = at[t] - 1]
      /\ at' = [at EXCEPT ![t] = work[t].lo]
      /\ UNCHANGED <<table, pages, free, count>>
  BY DEF EnsureSubmapFails
<1>2. work[t] \in Works /\ at[t] \in Int
  BY DEF MapInv, Typed
<1>3. /\ work'[t] = [work[t] EXCEPT !.end = at[t] - 1]
      /\ at'[t] = work[t].lo /\ pc'[t] = "clear"
      /\ \A u \in Threads \ {t} : pc'[u] = pc[u] /\ work'[u] = work[u] /\ at'[u] = at[u]
  BY <1>1 DEF MapInv, Typed, Goto
<1>4. /\ work'[t] \in Works /\ work'[t].id = work[t].id /\ work'[t].lo = work[t].lo
      /\ work'[t].hi = work[t].hi /\ work'[t].end = at[t] - 1
  BY <1>2, <1>3 DEF Works
<1>5. Typed'
  <2>1. work' \in [Threads -> Works]
    BY <1>1, <1>2, <1>3, <1>4 DEF MapInv, Typed
  <2>2. at' \in [Threads -> Int]
    BY <1>1, <1>2 DEF MapInv, Typed, Works
  <2> QED BY <1>1, <2>1, <2>2 DEF MapInv, Typed, Goto
<1>6. Layout'
  <2>1. \A u \in Threads : Extent(work'[u]) = Extent(work[u])
    BY <1>3, <1>4 DEF Extent
  <2> QED BY <1>1, <2>1, LayoutKept DEF MapInv
<1>7. Progress(t)'
  <2>1. /\ work[t].id > 0 /\ work[t].end = work[t].hi /\ at[t] <= work[t].hi
        /\ \A s \in Extent(work[t]) : lookup(s) = IF s < at[t] THEN work[t].id ELSE 0
    BY <1>1 DEF MapInv, Progress, Registering
  <2>2. /\ Extent(work'[t]) = Extent(work[t])
        /\ \A s \in Extent(work[t]) : lookup(s)' = lookup(s)
        /\ \A s \in Extent(work[t]) : s \in Int /\ work[t].lo <= s
    BY <1>1, <1>2, <1>4 DEF Extent, lookup, table, Works
  <2>3. \A s \in Extent(work'[t]) :
          lookup(s)' = IF at'[t] <= s /\ s <= work'[t].end THEN work'[t].id ELSE 0
    BY <1>2, <1>3, <1>4, <2>1, <2>2 DEF Works
  <2> QED BY <1>2, <1>3, <1>4, <2>1, <2>3 DEF Progress, Registering, Works
<1> QED BY <1>1, <1>3, <1>5, <1>6, <1>7, TableKept, QuietStep

\* All slices are written: the page is registered.
LEMMA RegisteredStep ==
  ASSUME MapInv, NEW t \in Threads, Registered(t)
  PROVE  MapInv'
<1>1. /\ pc[t] = "slice" /\ at[t] > work[t].end
      /\ pages' = pages \cup {work[t]}
      /\ work' = [work EXCEPT ![t] = NoWork]
      /\ Goto(t, "idle")
      /\ UNCHANGED <<table, lock, at, free, count>>
  BY DEF Registered
<1>2. work[t] \in Works /\ at[t] \in Int
  BY DEF MapInv, Typed
<1>3. /\ work'[t] = NoWork /\ pc'[t] = "idle"
      /\ \A u \in Threads \ {t} : pc'[u] = pc[u] /\ work'[u] = work[u] /\ at'[u] = at[u]
  BY <1>1 DEF MapInv, Typed, Goto
<1>4. Typed'
  <2>1. NoWork \in Works
    BY DEF NoWork, Works
  <2> QED BY <1>1, <1>2, <2>1 DEF MapInv, Typed, Goto
<1>5. Layout'
  <2>1. Extent(work'[t]) = {}
    BY <1>3 DEF Extent, NoWork
  <2> QED BY <1>1, <1>3, <2>1 DEF MapInv, Layout
<1>6. PICK w : w = work[t]
  OBVIOUS
<1>7. Mapped(w)'
  <2>1. \A s \in Extent(w) : s < at[t] /\ lookup(s)' = lookup(s)
    BY <1>1, <1>2, <1>6
       DEF MapInv, Progress, Registering, Extent, Works, lookup, table
  <2>2. \A s \in Extent(w) : lookup(s)' = w.id
    BY <1>1, <1>6, <2>1 DEF MapInv, Progress, Registering
  <2>3. w.id > 0 /\ w.lo <= w.hi /\ w.end = w.hi
    BY <1>1, <1>6 DEF MapInv, Progress, Registering
  <2> QED BY <2>2, <2>3 DEF Mapped
<1>8. Progress(t)'
  BY <1>3 DEF Progress, Registering
<1>9. \A pg \in pages' : pg \in pages \/ Mapped(pg)'
  BY <1>1, <1>6, <1>7
<1> QED BY <1>1, <1>3, <1>4, <1>5, <1>8, <1>9, TableKept, QuietStep

\* unregister takes a registered page.
LEMMA UnregisterStep ==
  ASSUME MapInv, NEW t \in Threads, NEW pg \in pages, Unregister(t, pg)
  PROVE  MapInv'
<1>1. /\ pc[t] = "idle" /\ pages' = pages \ {pg}
      /\ work' = [work EXCEPT ![t] = pg]
      /\ at' = [at EXCEPT ![t] = pg.lo]
      /\ Goto(t, "clear")
      /\ UNCHANGED <<table, lock, free, count>>
  BY DEF Unregister
<1>2. pg \in Works /\ pg.lo \in Int /\ pg.hi \in Int
  BY DEF MapInv, Typed, Works
<1>3. /\ work'[t] = pg /\ at'[t] = pg.lo /\ pc'[t] = "clear"
      /\ \A u \in Threads \ {t} : pc'[u] = pc[u] /\ work'[u] = work[u] /\ at'[u] = at[u]
  BY <1>1 DEF MapInv, Typed, Goto
<1>4. Typed'
  BY <1>1, <1>2 DEF MapInv, Typed, Goto
<1>5. Layout'
  BY <1>1, <1>3 DEF MapInv, Layout
<1>6. Progress(t)'
  <2>1. Mapped(pg) /\ \A s \in Extent(pg) : lookup(s)' = lookup(s)
    BY <1>1 DEF MapInv, lookup, table
  <2>2. \A s \in Extent(pg) : pg.lo <= s /\ s <= pg.hi
    BY <1>2 DEF Extent
  <2> QED BY <1>2, <1>3, <2>1, <2>2 DEF Progress, Registering, Mapped
<1> QED BY <1>1, <1>3, <1>4, <1>5, <1>6, TableKept, QuietStep

\* All entries are null again: the slices are given back.
LEMMA UnregisteredStep ==
  ASSUME MapInv, NEW t \in Threads, Unregistered(t)
  PROVE  MapInv'
<1>1. /\ pc[t] = "clear" /\ at[t] > work[t].end
      /\ free' = free \cup (work[t].lo..work[t].hi)
      /\ work' = [work EXCEPT ![t] = NoWork]
      /\ Goto(t, "idle")
      /\ UNCHANGED <<table, lock, at, pages, count>>
  BY DEF Unregistered
<1>2. Layout' /\ free' \subseteq Slices
  BY <1>1, GivesBack
<1>3. Typed'
  <2>1. NoWork \in Works
    BY DEF NoWork, Works
  <2> QED BY <1>1, <1>2, <2>1 DEF MapInv, Typed, Goto
<1>4. /\ pc'[t] = "idle" /\ work'[t] = NoWork
      /\ \A u \in Threads \ {t} : pc'[u] = pc[u] /\ work'[u] = work[u] /\ at'[u] = at[u]
  BY <1>1 DEF MapInv, Typed, Goto
<1>5. \A s \in Extent(work[t]) : lookup(s) = 0
  <2>1. work[t] \in Works /\ at[t] \in Int
    BY DEF MapInv, Typed
  <2>2. \A s \in Extent(work[t]) : ~(at[t] <= s /\ s <= work[t].end)
    BY <1>1, <2>1 DEF Extent, Works
  <2> QED BY <1>1, <2>2 DEF MapInv, Progress
<1>6. \A s \in free' : s \in free \/ lookup(s)' = 0
  BY <1>1, <1>2, <1>5, TableKept DEF Extent
<1>7. Progress(t)'
  BY <1>4 DEF Progress, Registering
<1> QED BY <1>1, <1>2, <1>3, <1>4, <1>6, <1>7, TableKept, QuietStep

(***************************************************************************)
(* A store at the slice a thread has come to concerns nobody else.         *)
(***************************************************************************)
LEMMA StoreStep ==
  ASSUME MapInv, NEW t \in Threads, NEW a \in Extent(work[t]), at[t] = a,
         top, entry[TopIdx(a)] # Zero,
         NEW id \in Nat, Store(a, id),
         at' = [at EXCEPT ![t] = @ + 1],
         NEW p \in {"slice", "clear"}, Goto(t, p),
         UNCHANGED <<top, entry, made, lock, work, pages, free, count>>,
         lookup(a)' = id /\ (\A u \in Slices : u # a => lookup(u)' = lookup(u))
           => Progress(t)'
  PROVE  MapInv'
<1>1. a \in Slices /\ a \in Int
  BY DEF MapInv, Layout, Typed
<1>2. /\ Tables' /\ lookup(a)' = id
      /\ \A u \in Slices : u # a => lookup(u)' = lookup(u)
  BY <1>1, StoreLookup DEF MapInv
<1>3. Typed'
  BY <1>1 DEF MapInv, Typed, Goto, Registering
<1>4. Layout'
  BY LayoutKept DEF MapInv
<1>5. \A pg \in pages' : Mapped(pg)'
  BY <1>2 DEF MapInv, Layout, Mapped
<1>6. FreeSlicesAreUnmapped'
  BY <1>1, <1>2 DEF MapInv, Layout, FreeSlicesAreUnmapped, Typed
<1>7. ASSUME NEW u \in Threads \ {t} PROVE Progress(u)'
  <2>1. pc'[u] = pc[u] /\ work'[u] = work[u] /\ at'[u] = at[u] /\ work[u] \in Works
    BY DEF MapInv, Typed, Goto
  <2>2. \A s \in Extent(work[u]) : lookup(s)' = lookup(s)
    BY <1>2 DEF MapInv, Layout
  <2> QED BY <2>1, <2>2 DEF MapInv, Progress
<1> QED BY <1>2, <1>3, <1>4, <1>5, <1>6, <1>7 DEF MapInv

\* register writes an entry.
LEMMA StoreEntryStep ==
  ASSUME MapInv, NEW t \in Threads, StoreEntry(t)
  PROVE  MapInv'
<1>1. /\ pc[t] = "store" /\ Store(at[t], work[t].id)
      /\ at' = [at EXCEPT ![t] = @ + 1] /\ Goto(t, "slice")
      /\ UNCHANGED <<top, entry, made, lock, work, pages, free, count>>
  BY DEF StoreEntry
<1>2. work[t] \in Works /\ at[t] \in Int
  BY DEF MapInv, Typed
<1>3. /\ at[t] \in Extent(work[t]) /\ top /\ entry[TopIdx(at[t])] # Zero
      /\ work[t].id \in Nat
  BY <1>1, <1>2 DEF MapInv, Progress, Registering, Extent, Works
<1>4. pc'[t] = "slice" /\ at'[t] = at[t] + 1 /\ work'[t] = work[t]
  BY <1>1 DEF MapInv, Typed, Goto
<1>5. PICK a, id : a = at[t] /\ id = work[t].id
  OBVIOUS
<1>6. ASSUME lookup(a)' = id,
             \A u \in Slices : u # a => lookup(u)' = lookup(u)
      PROVE  Progress(t)'
  <2>1. /\ work[t].id > 0 /\ work[t].end = work[t].hi /\ work[t].lo <= at[t]
        /\ work[t].lo <= work[t].hi /\ at[t] <= work[t].hi
        /\ \A s \in Extent(work[t]) : lookup(s) = IF s < at[t] THEN work[t].id ELSE 0
    BY <1>1 DEF MapInv, Progress, Registering
  <2>2. Extent(work[t]) \subseteq Slices /\ \A s \in Extent(work[t]) : s \in Int
    BY <1>2 DEF MapInv, Layout, Extent, Works
  <2>3. \A s \in Extent(work[t]) :
          lookup(s)' = IF s < at[t] + 1 THEN work[t].id ELSE 0
    BY <1>2, <1>6, <1>5, <2>1, <2>2
  <2> QED BY <1>1, <1>2, <1>3, <1>4, <2>1, <2>3 DEF Progress, Registering, Works
<1> QED BY <1>1, <1>3, <1>6, <1>5, StoreStep

\* unregister, or the undo of a failed register, clears one.
LEMMA ClearEntryStep ==
  ASSUME MapInv, NEW t \in Threads, ClearEntry(t)
  PROVE  MapInv'
<1>1. /\ pc[t] = "clear" /\ at[t] <= work[t].end /\ Store(at[t], 0)
      /\ at' = [at EXCEPT ![t] = @ + 1]
      /\ UNCHANGED <<top, entry, made, lock, pc, work, pages, free, count>>
  BY DEF ClearEntry
<1>2. work[t] \in Works /\ at[t] \in Int
  BY DEF MapInv, Typed
<1>3. /\ work[t].id > 0 /\ work[t].lo <= at[t] /\ work[t].end <= work[t].hi
      /\ \A s \in Extent(work[t]) :
           lookup(s) = IF at[t] <= s /\ s <= work[t].end THEN work[t].id ELSE 0
  BY <1>1 DEF MapInv, Progress
<1>4. at[t] \in Extent(work[t])
  BY <1>1, <1>2, <1>3 DEF Extent, Works
<1>5. lookup(at[t]) # 0
  BY <1>1, <1>2, <1>3, <1>4 DEF Works
<1>6. top /\ entry[TopIdx(at[t])] # Zero
  BY <1>5 DEF lookup
<1>7. pc'[t] = "clear" /\ at'[t] = at[t] + 1 /\ work'[t] = work[t] /\ Goto(t, "clear")
  BY <1>1 DEF MapInv, Typed, Goto
<1>8. PICK a : a = at[t]
  OBVIOUS
<1>9. ASSUME lookup(a)' = 0,
             \A u \in Slices : u # a => lookup(u)' = lookup(u)
      PROVE  Progress(t)'
  <2>1. Extent(work[t]) \subseteq Slices /\ \A s \in Extent(work[t]) : s \in Int
    BY <1>2 DEF MapInv, Layout, Extent, Works
  <2>2. \A s \in Extent(work[t]) :
          lookup(s)' = IF at[t] + 1 <= s /\ s <= work[t].end THEN work[t].id ELSE 0
    BY <1>2, <1>3, <1>9, <1>8, <2>1 DEF Works
  <2> QED BY <1>2, <1>3, <1>7, <2>2 DEF Progress, Registering, Works
<1> QED BY <1>1, <1>4, <1>6, <1>7, <1>9, <1>8, StoreStep

-----------------------------------------------------------------------------
\* Every step keeps the invariant.
LEMMA MapStep ==
  ASSUME MapInv, [Next]_vars
  PROVE  MapInv'
<1>1. CASE UNCHANGED vars
  <2>1. UNCHANGED <<pc, work, at, pages, free, count, table>>
    BY <1>1 DEF vars
  <2>2. Typed' /\ Layout'
    BY <2>1 DEF MapInv, Typed, Layout
  <2> QED BY <2>1, <2>2, TableKept, LookupsKept DEF MapInv, FreeSlicesAreUnmapped
<1>2. CASE Next
  BY <1>2, RegisterStep, UnregisterStep, LockStep, EnsureTopStep,
     EnsureTopFailsStep, SliceStep, EnsureSubmapStep, EnsureSubmapFailsStep,
     StoreEntryStep, RegisteredStep, ClearEntryStep, UnregisteredStep DEF Next
<1> QED BY <1>1, <1>2

\* The invariant holds throughout.
LEMMA MapInvariant == Spec => []MapInv
BY MapInit, MapStep, PTL DEF Spec

\* Every slice of a registered page leads to it, however registrations and
\* unregistrations of several threads meet on a missing table or submap.
THEOREM RegisteredIsAlwaysFound == Spec => []RegisteredIsFound
<1>1. MapInv => RegisteredIsFound
  BY DEF MapInv, Mapped, Extent, RegisteredIsFound
<1> QED BY <1>1, MapInvariant, PTL

\* page_map.rs: "the mapping is all-or-nothing".  A slice no page has leads
\* nowhere, also after a registration that failed halfway.
THEOREM FreeSlicesStayUnmapped == Spec => []FreeSlicesAreUnmapped
<1>1. MapInv => FreeSlicesAreUnmapped
  BY DEF MapInv
<1> QED BY <1>1, MapInvariant, PTL
=============================================================================
