------------------------------ MODULE PageMap -------------------------------
(***************************************************************************)
(* The two-level page map (src/src/page_map.rs): from a slice of the       *)
(* address space to the page it belongs to.  The top table and the submaps *)
(* are allocated on first use under INIT_LOCK, a spin lock; entries are    *)
(* written without it, by threads that own the slices they write.          *)
(*                                                                         *)
(* A step is one atomic access.  Submaps are numbered in the order the OS  *)
(* hands them out; number 0 is the shared, read-only ZERO_SUBMAP.  Pages   *)
(* are numbered in the order they are made; 0 is a null entry.             *)
(***************************************************************************)
EXTENDS Integers

CONSTANTS
  Threads,
  NSlices,      \* slices of the address space
  SubCount,     \* slices per submap
  MaxSubmaps,   \* submaps the OS can provide
  MaxRegisters, \* bound: registrations
  None

ASSUME PageMapAssumption ==
  /\ NSlices \in Nat /\ SubCount \in Nat \ {0}
  /\ MaxSubmaps \in Nat /\ MaxRegisters \in Nat /\ None \notin Threads

Slices == 0..(NSlices - 1)
TopIdx(s) == s \div SubCount
SubIdx(s) == s % SubCount
Regions == {TopIdx(s) : s \in Slices}
Submaps == 1..MaxSubmaps
Zero == 0

VARIABLES
  top,     \* TOP is published
  entry,   \* the top table: the submap of each region
  submap,  \* the submaps
  made,    \* submaps handed out by the OS
  lock,    \* INIT_LOCK
  pc,
  work,    \* the page a thread registers or unregisters: number, first and
           \* last slice, and the last slice to write or clear
  at,      \* the slice it has come to
  pages,   \* registered pages
  free,    \* slices no page has
  count    \* pages made so far

table == <<top, entry, submap, made>>
vars == <<table, lock, pc, work, at, pages, free, count>>

NoWork == [id |-> 0, lo |-> 0, hi |-> -1, end |-> -1]

Init ==
  /\ top = FALSE /\ made = 0
  /\ entry = [r \in Regions |-> Zero]
  /\ submap = [m \in Submaps |-> [i \in 0..(SubCount - 1) |-> 0]]
  /\ lock = None
  /\ pc = [t \in Threads |-> "idle"]
  /\ work = [t \in Threads |-> NoWork] /\ at = [t \in Threads |-> 0]
  /\ pages = {} /\ free = Slices /\ count = 0

Goto(t, where) == pc' = [pc EXCEPT ![t] = where]

\* lookup: null without a top table, else through the region's submap.
lookup(s) ==
  IF ~top \/ entry[TopIdx(s)] = Zero THEN 0
  ELSE submap[entry[TopIdx(s)]][SubIdx(s)]

\* A store through the region's submap.
Store(s, id) == submap' = [submap EXCEPT ![entry[TopIdx(s)]][SubIdx(s)] = id]

-----------------------------------------------------------------------------
(***************************************************************************)
(* register: ensure_top, then for each slice ensure_submap and a store.    *)
(***************************************************************************)
Register(t, lo, hi) ==
  /\ pc[t] = "idle" /\ count < MaxRegisters
  /\ lo <= hi /\ lo..hi \subseteq free
  /\ free' = free \ (lo..hi)
  /\ count' = count + 1
  /\ work' = [work EXCEPT ![t] = [id |-> count + 1, lo |-> lo, hi |-> hi, end |-> hi]]
  /\ at' = [at EXCEPT ![t] = lo]
  /\ Goto(t, IF top THEN "slice" ELSE "top")
  /\ UNCHANGED <<table, lock, pages>>

\* SpinLock::lock.
Lock(t) ==
  /\ pc[t] \in {"top", "submap"}
  /\ lock = None
  /\ lock' = t
  /\ Goto(t, IF pc[t] = "top" THEN "topLocked" ELSE "submapLocked")
  /\ UNCHANGED <<table, work, at, pages, free, count>>

\* ensure_top under the lock: already there, or filled with the zero submap
\* and published.
EnsureTop(t) ==
  /\ pc[t] = "topLocked"
  /\ lock' = None
  /\ top' = TRUE
  /\ Goto(t, "slice")
  /\ UNCHANGED <<entry, submap, made, work, at, pages, free, count>>

\* The OS has no memory for it; nothing is written yet.
EnsureTopFails(t) ==
  /\ pc[t] = "topLocked" /\ ~top
  /\ lock' = None
  /\ free' = free \cup (work[t].lo..work[t].hi)
  /\ work' = [work EXCEPT ![t] = NoWork]
  /\ Goto(t, "idle")
  /\ UNCHANGED <<table, at, pages, count>>

\* The next slice: its submap is there, or has to be made; or all are done.
Slice(t) ==
  /\ pc[t] = "slice" /\ at[t] <= work[t].end
  /\ Goto(t, IF entry[TopIdx(at[t])] = Zero THEN "submap" ELSE "store")
  /\ UNCHANGED <<table, lock, work, at, pages, free, count>>

\* mutant: not looked at again under the lock
EnsureSubmap_NoRecheck(t) ==
  /\ pc[t] = "submapLocked"
  /\ made < MaxSubmaps
  /\ made' = made + 1
  /\ entry' = [entry EXCEPT ![TopIdx(at[t])] = made + 1]
  /\ lock' = None
  /\ Goto(t, "store")
  /\ UNCHANGED <<top, submap, work, at, pages, free, count>>

\* ensure_submap under the lock: another thread has made it, or it is made.
EnsureSubmap(t) ==
  /\ pc[t] = "submapLocked"
  /\ lock' = None
  /\ Goto(t, "store")
  /\ \/ entry[TopIdx(at[t])] # Zero /\ UNCHANGED <<entry, made>>
     \/ /\ entry[TopIdx(at[t])] = Zero /\ made < MaxSubmaps
        /\ made' = made + 1
        /\ entry' = [entry EXCEPT ![TopIdx(at[t])] = made + 1]
  /\ UNCHANGED <<top, submap, work, at, pages, free, count>>

\* mutant: what has been registered so far stays
EnsureSubmapFails_NoRollback(t) ==
  /\ pc[t] = "submapLocked" /\ entry[TopIdx(at[t])] = Zero
  /\ lock' = None
  /\ free' = free \cup (work[t].lo..work[t].hi)
  /\ work' = [work EXCEPT ![t] = NoWork]
  /\ Goto(t, "idle")
  /\ UNCHANGED <<table, at, pages, count>>

\* No memory: register undoes the slices before this one.
EnsureSubmapFails(t) ==
  /\ pc[t] = "submapLocked" /\ entry[TopIdx(at[t])] = Zero
  /\ lock' = None
  /\ work' = [work EXCEPT ![t].end = at[t] - 1]
  /\ at' = [at EXCEPT ![t] = work[t].lo]
  /\ Goto(t, "clear")
  /\ UNCHANGED <<table, pages, free, count>>

StoreEntry(t) ==
  /\ pc[t] = "store"
  /\ Store(at[t], work[t].id)
  /\ at' = [at EXCEPT ![t] = @ + 1]
  /\ Goto(t, "slice")
  /\ UNCHANGED <<top, entry, made, lock, work, pages, free, count>>

Registered(t) ==
  /\ pc[t] = "slice" /\ at[t] > work[t].end
  /\ pages' = pages \cup {work[t]}
  /\ work' = [work EXCEPT ![t] = NoWork]
  /\ Goto(t, "idle")
  /\ UNCHANGED <<table, lock, at, free, count>>

-----------------------------------------------------------------------------
(***************************************************************************)
(* unregister: the entries one by one; then the slices are given back.  A  *)
(* failed registration ends the same way for the slices it had written.    *)
(***************************************************************************)
Unregister(t, pg) ==
  /\ pc[t] = "idle"
  /\ pages' = pages \ {pg}
  /\ work' = [work EXCEPT ![t] = pg]
  /\ at' = [at EXCEPT ![t] = pg.lo]
  /\ Goto(t, "clear")
  /\ UNCHANGED <<table, lock, free, count>>

ClearEntry(t) ==
  /\ pc[t] = "clear" /\ at[t] <= work[t].end
  /\ Store(at[t], 0)
  /\ at' = [at EXCEPT ![t] = @ + 1]
  /\ UNCHANGED <<top, entry, made, lock, pc, work, pages, free, count>>

Unregistered(t) ==
  /\ pc[t] = "clear" /\ at[t] > work[t].end
  /\ free' = free \cup (work[t].lo..work[t].hi)
  /\ work' = [work EXCEPT ![t] = NoWork]
  /\ Goto(t, "idle")
  /\ UNCHANGED <<table, lock, at, pages, count>>

Next == \E t \in Threads :
  \/ \E lo, hi \in Slices : Register(t, lo, hi)
  \/ \E pg \in pages : Unregister(t, pg)
  \/ Lock(t) \/ EnsureTop(t) \/ EnsureTopFails(t)
  \/ Slice(t) \/ EnsureSubmap(t) \/ EnsureSubmapFails(t) \/ StoreEntry(t)
  \/ Registered(t) \/ ClearEntry(t) \/ Unregistered(t)

Spec == Init /\ [][Next]_vars

-----------------------------------------------------------------------------
\* Every slice of a registered page leads to it: an entry is not lost when
\* two threads come to the same missing table or submap.
RegisteredIsFound ==
  \A pg \in pages : \A s \in pg.lo..pg.hi : lookup(s) = pg.id

\* "the mapping is all-or-nothing (no stale half-mapping)": a slice no page
\* has leads nowhere, also after a registration that failed halfway.
FreeSlicesAreUnmapped == \A s \in free : lookup(s) = 0

=============================================================================
