---------------------------- MODULE ChunkBitmap -----------------------------
(***************************************************************************)
(* One chunk of the concurrent bitmap (src/src/bitmap.rs) and its bit in   *)
(* the chunkmap, used the way an arena uses its free bitmap: a set bit is  *)
(* free; threads find and clear runs, and set them again.                  *)
(*                                                                         *)
(* A step is one atomic access to one field (a word of the chunk) or to    *)
(* the chunkmap.  A run inside a field is cleared at once; a run across    *)
(* fields is cleared field by field and rolled back when a field fails.    *)
(***************************************************************************)
EXTENDS Integers, FiniteSets

CONSTANTS
  Threads,
  NBits,      \* bits of the chunk (512 in the code)
  FieldBits   \* bits of a field (64 in the code)

ASSUME ChunkAssumption ==
  /\ NBits \in Nat \ {0} /\ FieldBits \in Nat \ {0}
  /\ NBits % FieldBits = 0

Bits == 0..(NBits - 1)
LastField == (NBits \div FieldBits) - 1
Field(f) == (f * FieldBits)..(f * FieldBits + FieldBits - 1)
InOneField(R) == \E f \in 0..LastField : R \subseteq Field(f)
Runs == {i..j : i \in Bits, j \in Bits} \ {{}}
FirstField(R) == CHOOSE f \in 0..LastField :
  R \cap Field(f) # {} /\ \A g \in 0..(f - 1) : R \cap Field(g) = {}

VARIABLES
  bits,   \* the set bits of the chunk
  map,    \* the chunk's bit in the chunkmap: the chunk may be non-empty
  pc,
  want,   \* the bits an operation still has to clear, set or restore
  got,    \* the bits a clear has claimed so far
  fld,    \* the next field is_all_clear reads
  owned,  \* the runs each thread has taken
  undone  \* history: bits a rollback set again, until the chunkmap bit is set

vars == <<bits, map, pc, want, got, fld, owned, undone>>

Pcs == {"idle", "find", "clear", "rollback", "check", "mapClear", "recheck",
        "set", "mapSet"}

TypeOK ==
  /\ bits \subseteq Bits /\ map \in BOOLEAN
  /\ pc \in [Threads -> Pcs]
  /\ want \in [Threads -> SUBSET Bits] /\ got \in [Threads -> SUBSET Bits]
  /\ fld \in [Threads -> 0..LastField]
  /\ owned \in [Threads -> SUBSET Runs]
  /\ undone \subseteq Bits

\* unsafe_set_n before the bitmap is shared: everything is free.
Init ==
  /\ bits = Bits /\ map = TRUE
  /\ pc = [t \in Threads |-> "idle"]
  /\ want = [t \in Threads |-> {}] /\ got = [t \in Threads |-> {}]
  /\ fld = [t \in Threads |-> 0]
  /\ owned = [t \in Threads |-> {}]
  /\ undone = {}

Goto(t, where) == pc' = [pc EXCEPT ![t] = where]

-----------------------------------------------------------------------------
(***************************************************************************)
(* try_find_and_clear_n: chunks whose chunkmap bit is clear are skipped.   *)
(***************************************************************************)
Look(t) ==
  /\ pc[t] = "idle"
  /\ map
  /\ Goto(t, "find")
  /\ UNCHANGED <<bits, map, want, got, fld, owned, undone>>

\* bf_find_and_clear_run: a run inside a field, in one step.
FindInField(t, R) ==
  /\ pc[t] = "find"
  /\ InOneField(R) /\ R \subseteq bits
  /\ bits' = bits \ R /\ undone' = undone \ R
  /\ got' = [got EXCEPT ![t] = R]
  /\ Goto(t, "check")
  /\ UNCHANGED <<map, want, fld, owned>>

\* find_and_clear_n_spanning: is_set_n holds for the run, try_clear_n starts.
FindSpanning(t, R) ==
  /\ pc[t] = "find"
  /\ ~InOneField(R) /\ R \subseteq bits
  /\ want' = [want EXCEPT ![t] = R]
  /\ Goto(t, "clear")
  /\ UNCHANGED <<bits, map, got, fld, owned, undone>>

\* No run of the length asked for (the caller may try another chunk).
NotFound(t) ==
  /\ pc[t] = "find"
  /\ \E R \in Runs : \A Q \in Runs : Cardinality(Q) = Cardinality(R)
                                     => ~(Q \subseteq bits)
  /\ Goto(t, "idle")
  /\ UNCHANGED <<bits, map, want, got, fld, owned, undone>>

\* mutant: a field is cleared although a bit of it is gone
ClearField_Partly(t) ==
  LET R == want[t] \cap Field(FirstField(want[t])) IN
  /\ pc[t] = "clear"
  /\ bits' = bits \ R /\ undone' = undone \ R
  /\ got' = [got EXCEPT ![t] = @ \cup R]
  /\ want' = [want EXCEPT ![t] = @ \ R]
  /\ Goto(t, IF want[t] = R THEN "check" ELSE "clear")
  /\ UNCHANGED <<map, fld, owned>>

\* try_clear_n, the next field: cleared if all its bits are set, else what
\* has been claimed is rolled back (and the search goes on).
ClearField(t) ==
  LET R == want[t] \cap Field(FirstField(want[t])) IN
  /\ pc[t] = "clear"
  /\ \/ /\ R \subseteq bits
        /\ bits' = bits \ R /\ undone' = undone \ R
        /\ got' = [got EXCEPT ![t] = @ \cup R]
        /\ want' = [want EXCEPT ![t] = @ \ R]
        /\ Goto(t, IF want[t] = R THEN "check" ELSE "clear")
     \/ /\ ~(R \subseteq bits)
        /\ want' = [want EXCEPT ![t] = {}]
        /\ Goto(t, IF got[t] = {} THEN "find" ELSE "rollback")
        /\ UNCHANGED <<bits, got, undone>>
  /\ UNCHANGED <<map, fld, owned>>

\* The fields are set again, one by one; the chunkmap is not touched.
Rollback(t) ==
  LET R == got[t] \cap Field(FirstField(got[t])) IN
  /\ pc[t] = "rollback"
  /\ bits' = bits \cup R /\ undone' = undone \cup R
  /\ got' = [got EXCEPT ![t] = @ \ R]
  /\ Goto(t, IF got[t] = R THEN "find" ELSE "rollback")
  /\ UNCHANGED <<map, want, fld, owned>>

-----------------------------------------------------------------------------
(***************************************************************************)
(* chunkmap_clear_if_empty: is_all_clear reads the fields one at a time;   *)
(* if they are all clear the chunkmap bit is cleared, and restored if a    *)
(* second look finds the chunk non-empty.                                  *)
(***************************************************************************)
\* The run is the thread's from here on.
Finish(t) ==
  /\ owned' = [owned EXCEPT ![t] = IF got[t] = {} THEN @ ELSE @ \cup {got[t]}]
  /\ got' = [got EXCEPT ![t] = {}]

CheckField(t) ==
  LET clear == bits \cap Field(fld[t]) = {} IN
  /\ pc[t] = "check"
  /\ \/ /\ ~clear
        /\ fld' = [fld EXCEPT ![t] = 0]
        /\ Finish(t) /\ Goto(t, "idle")
     \/ /\ clear /\ fld[t] < LastField
        /\ fld' = [fld EXCEPT ![t] = @ + 1]
        /\ UNCHANGED <<pc, got, owned>>
     \/ /\ clear /\ fld[t] = LastField
        /\ fld' = [fld EXCEPT ![t] = 0]
        /\ Goto(t, "mapClear")
        /\ UNCHANGED <<got, owned>>
  /\ UNCHANGED <<bits, map, want, undone>>

\* mutant: no second look
MapClear_NoRecheck(t) ==
  /\ pc[t] = "mapClear"
  /\ map' = FALSE
  /\ Finish(t) /\ Goto(t, "idle")
  /\ UNCHANGED <<bits, want, fld, undone>>

MapClear(t) ==
  /\ pc[t] = "mapClear"
  /\ map' = FALSE
  /\ \/ map /\ Goto(t, "recheck") /\ UNCHANGED <<got, owned>>
     \/ ~map /\ Finish(t) /\ Goto(t, "idle")
  /\ UNCHANGED <<bits, want, fld, undone>>

RecheckField(t) ==
  LET clear == bits \cap Field(fld[t]) = {} IN
  /\ pc[t] = "recheck"
  /\ \/ /\ ~clear
        /\ fld' = [fld EXCEPT ![t] = 0]
        /\ Goto(t, "mapSet")
        /\ UNCHANGED <<got, owned>>
     \/ /\ clear /\ fld[t] < LastField
        /\ fld' = [fld EXCEPT ![t] = @ + 1]
        /\ UNCHANGED <<pc, got, owned>>
     \/ /\ clear /\ fld[t] = LastField
        /\ fld' = [fld EXCEPT ![t] = 0]
        /\ Finish(t) /\ Goto(t, "idle")
  /\ UNCHANGED <<bits, map, want, undone>>

-----------------------------------------------------------------------------
(***************************************************************************)
(* set_n: the fields, then the chunkmap bit.                               *)
(***************************************************************************)
Set(t, R) ==
  /\ pc[t] = "idle"
  /\ owned' = [owned EXCEPT ![t] = @ \ {R}]
  /\ want' = [want EXCEPT ![t] = R]
  /\ Goto(t, "set")
  /\ UNCHANGED <<bits, map, got, fld, undone>>

SetField(t) ==
  LET R == want[t] \cap Field(FirstField(want[t])) IN
  /\ pc[t] = "set"
  /\ bits' = bits \cup R
  /\ want' = [want EXCEPT ![t] = @ \ R]
  /\ Goto(t, IF want[t] = R THEN "mapSet" ELSE "set")
  /\ UNCHANGED <<map, got, fld, owned, undone>>

MapSet(t) ==
  /\ pc[t] = "mapSet"
  /\ map' = TRUE /\ undone' = {}
  /\ Finish(t)
  /\ Goto(t, "idle")
  /\ UNCHANGED <<bits, want, fld>>

Step(t) ==
  \/ NotFound(t) \/ ClearField(t) \/ Rollback(t) \/ CheckField(t)
  \/ MapClear(t) \/ RecheckField(t) \/ SetField(t) \/ MapSet(t)
  \/ \E R \in Runs : FindInField(t, R) \/ FindSpanning(t, R)

Next == \E t \in Threads :
  \/ Look(t)
  \/ \E R \in owned[t] : Set(t, R)
  \/ Step(t)

Spec == Init /\ [][Next]_vars

-----------------------------------------------------------------------------
OwnedBits(t) == UNION owned[t]
InFlight(t) == got[t] \cup (IF pc[t] = "set" THEN want[t] ELSE {})

\* "no half-claimed run": every bit is free, or in one run of one thread, or
\* claimed by one operation under way.
EachBitInOnePlace ==
  /\ Bits = bits \cup UNION {OwnedBits(t) \cup InFlight(t) : t \in Threads}
  /\ \A t \in Threads :
       /\ bits \cap (OwnedBits(t) \cup InFlight(t)) = {}
       /\ OwnedBits(t) \cap InFlight(t) = {}
       /\ \A R, Q \in owned[t] : R = Q \/ R \cap Q = {}
       /\ \A u \in Threads \ {t} :
            (OwnedBits(t) \cup InFlight(t)) \cap (OwnedBits(u) \cup InFlight(u)) = {}

\* "bit c set iff chunk c may be non-empty": bits that were set are out of the
\* searches' reach only while some thread is about to set the chunkmap bit or to
\* look again.  The bits a rollback set again are left out: it does not touch
\* the chunkmap.
ChunkmapIsConservative ==
  bits \ undone # {} /\ ~map =>
    \E t \in Threads : pc[t] \in {"recheck", "set", "mapSet"}

\* However claims across fields, rollbacks and sets interleave, every bit is
\* accounted for.
BitsAreSound == TypeOK /\ EachBitInOnePlace

=============================================================================
