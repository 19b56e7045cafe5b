------------------------- MODULE ChunkBitmapProofs --------------------------
(***************************************************************************)
(* Proofs about ChunkBitmap, for every number of threads and every chunk   *)
(* and field width: a run across fields is claimed whole or given back,    *)
(* and the chunkmap bit is cleared only if the chunk is really empty or    *)
(* somebody is about to look again.                                        *)
(***************************************************************************)
EXTENDS ChunkBitmap, TLAPS

(***************************************************************************)
(* What an operation carries at each of its steps.                         *)
(***************************************************************************)
Carries(t) ==
  /\ pc[t] \in {"idle", "find"} => want[t] = {} /\ got[t] = {}
  /\ pc[t] = "clear" => want[t] \cup got[t] \in Runs
  /\ pc[t] \in {"check", "mapClear", "recheck"} =>
       want[t] = {} /\ got[t] \in Runs
  /\ pc[t] = "mapSet" => want[t] = {} /\ (got[t] = {} \/ got[t] \in Runs)
  /\ pc[t] = "rollback" => want[t] = {}
  /\ pc[t] = "set" => got[t] = {}

\* is_all_clear starts from the first field.
FieldsFromTheStart ==
  \A t \in Threads : pc[t] \notin {"check", "recheck"} => fld[t] = 0

BitsInv == TypeOK /\ EachBitInOnePlace /\ \A t \in Threads : Carries(t)

(***************************************************************************)
(* A bit that was set is in the searches' reach, or a thread will set the  *)
(* chunkmap bit, or one has still to read the field the bit is in.         *)
(***************************************************************************)
SetBitsAreSeen ==
  \A b \in bits \ undone : ~map =>
    \E t \in Threads :
      \/ pc[t] \in {"set", "mapSet"}
      \/ pc[t] = "recheck" /\ fld[t] * FieldBits <= b

ChunkInv == BitsInv /\ FieldsFromTheStart /\ SetBitsAreSeen

-----------------------------------------------------------------------------
(***************************************************************************)
(* The fields cover the chunk.                                             *)
(***************************************************************************)
LEMMA FieldsCover ==
  /\ LastField \in Nat
  /\ (LastField + 1) * FieldBits = NBits
  /\ 0 * FieldBits = 0
BY ChunkAssumption DEF LastField

\* A bit at or after the start of a field is in it or at or after the next.
LEMMA NextField ==
  ASSUME NEW f \in 0..LastField, NEW b \in Bits, f * FieldBits <= b
  PROVE  b \in Field(f) \/ (f + 1) * FieldBits <= b
<1>1. f \in Nat /\ FieldBits \in Nat /\ b \in Int
  BY FieldsCover, ChunkAssumption DEF Bits
<1>2. (f + 1) * FieldBits = f * FieldBits + FieldBits
  BY <1>1
<1>3. f * FieldBits \in Nat
  BY <1>1
<1> QED BY <1>1, <1>2, <1>3 DEF Field

\* Runs are non-empty sets of bits.
LEMMA RunsAreBits == \A R \in Runs : R \subseteq Bits /\ R # {}
BY ChunkAssumption DEF Runs, Bits

\* A step that leaves the operations and runs of the other threads alone.
Alone(t) == \A u \in Threads \ {t} :
  pc'[u] = pc[u] /\ want'[u] = want[u] /\ got'[u] = got[u] /\ owned'[u] = owned[u]

\* What a thread holds: its runs and the bits of its operation under way.
Held(t) == OwnedBits(t) \cup InFlight(t)

(***************************************************************************)
(* A step of one thread keeps every bit in one place if it only moves bits *)
(* between the chunk and what this thread holds.                           *)
(***************************************************************************)
LEMMA Moves ==
  ASSUME EachBitInOnePlace, NEW t \in Threads,
         Alone(t),
         (bits \cup Held(t))' = bits \cup Held(t),
         (bits \cap Held(t))' = {},
         (OwnedBits(t) \cap InFlight(t))' = {},
         \A R, Q \in owned'[t] : R = Q \/ R \cap Q = {}
  PROVE  EachBitInOnePlace'
<1>0. \A u \in Threads \ {t} : /\ Held(u)' = Held(u)
                                /\ OwnedBits(u)' = OwnedBits(u)
                                /\ InFlight(u)' = InFlight(u)
                                /\ owned'[u] = owned[u]
  BY DEF Alone, Held, OwnedBits, InFlight
<1>1. \A u \in Threads : bits \cap Held(u) = {}
  BY DEF EachBitInOnePlace, Held
<1>2. \A u, v \in Threads : u # v => Held(u) \cap Held(v) = {}
  BY DEF EachBitInOnePlace, Held
<1>3. \A u \in Threads \ {t} : Held(u)' \cap (bits \cup Held(t))' = {}
  BY <1>0, <1>1, <1>2
<1>4. ASSUME NEW x
      PROVE  x \in Bits <=> x \in bits' \/ \E u \in Threads : x \in Held(u)'
  <2>1. x \in Bits <=> x \in bits \/ \E u \in Threads : x \in Held(u)
    BY DEF EachBitInOnePlace, Held
  <2>2. x \in bits \/ x \in Held(t) <=> x \in bits' \/ x \in Held(t)'
    OBVIOUS
  <2> QED BY <1>0, <2>1, <2>2
<1>5. (Bits = bits \cup UNION {OwnedBits(u) \cup InFlight(u) : u \in Threads})'
  BY <1>4 DEF Held, Bits
<1>6. ASSUME NEW u \in Threads
      PROVE  (bits \cap (OwnedBits(u) \cup InFlight(u)))' = {}
  BY <1>0, <1>3 DEF Held
<1>7. ASSUME NEW u \in Threads
      PROVE  /\ (OwnedBits(u) \cap InFlight(u))' = {}
             /\ \A R, Q \in owned'[u] : R = Q \/ R \cap Q = {}
  BY <1>0 DEF EachBitInOnePlace
<1>8. ASSUME NEW u \in Threads, NEW v \in Threads \ {u}
      PROVE  Held(u)' \cap Held(v)' = {}
  BY <1>0, <1>2, <1>3
<1> QED BY <1>5, <1>6, <1>7, <1>8 DEF EachBitInOnePlace, Held

(***************************************************************************)
(* A step that changes no run and no bit of the chunk, nor what the        *)
(* operation carries, keeps every bit in place.                            *)
(***************************************************************************)
LEMMA KeepsPlaces ==
  ASSUME EachBitInOnePlace, NEW t \in Threads, Alone(t),
         bits' = bits, owned' = owned, InFlight(t)' = InFlight(t)
  PROVE  EachBitInOnePlace'
<1>1. OwnedBits(t)' = OwnedBits(t)
  BY DEF OwnedBits
<1>2. /\ (bits \cup Held(t))' = bits \cup Held(t)
      /\ (bits \cap Held(t))' = {}
      /\ (OwnedBits(t) \cap InFlight(t))' = {}
      /\ \A R, Q \in owned'[t] : R = Q \/ R \cap Q = {}
  BY <1>1 DEF EachBitInOnePlace, Held
<1> QED BY <1>2, Moves

(***************************************************************************)
(* An operation that moves bits R between the chunk and what it carries.   *)
(***************************************************************************)
LEMMA TakesBits ==
  ASSUME EachBitInOnePlace, NEW t \in Threads, Alone(t), owned' = owned,
         NEW R, R \subseteq bits, bits' = bits \ R,
         InFlight(t)' = InFlight(t) \cup R
  PROVE  EachBitInOnePlace'
<1>1. OwnedBits(t)' = OwnedBits(t)
  BY DEF OwnedBits
<1>2. /\ (bits \cup Held(t))' = bits \cup Held(t)
      /\ (bits \cap Held(t))' = {}
      /\ (OwnedBits(t) \cap InFlight(t))' = {}
      /\ \A P, Q \in owned'[t] : P = Q \/ P \cap Q = {}
  BY <1>1 DEF EachBitInOnePlace, Held
<1> QED BY <1>2, Moves

LEMMA GivesBits ==
  ASSUME EachBitInOnePlace, NEW t \in Threads, Alone(t), owned' = owned,
         NEW R, R \subseteq InFlight(t), bits' = bits \cup R,
         InFlight(t)' = InFlight(t) \ R
  PROVE  EachBitInOnePlace'
<1>1. OwnedBits(t)' = OwnedBits(t)
  BY DEF OwnedBits
<1>2. /\ (bits \cup Held(t))' = bits \cup Held(t)
      /\ (bits \cap Held(t))' = {}
      /\ (OwnedBits(t) \cap InFlight(t))' = {}
      /\ \A P, Q \in owned'[t] : P = Q \/ P \cap Q = {}
  BY <1>1 DEF EachBitInOnePlace, Held
<1> QED BY <1>2, Moves

(***************************************************************************)
(* The end of an operation: what it claimed becomes a run of the thread.   *)
(***************************************************************************)
LEMMA FinishKeepsPlaces ==
  ASSUME TypeOK, EachBitInOnePlace, NEW t \in Threads, Finish(t),
         pc[t] # "set", Goto(t, "idle"), want' = want, bits' = bits
  PROVE  EachBitInOnePlace'
<1>1. /\ owned'[t] = IF got[t] = {} THEN owned[t] ELSE owned[t] \cup {got[t]}
      /\ got'[t] = {} /\ pc'[t] = "idle" /\ Alone(t)
  BY DEF Finish, TypeOK, Goto, Alone
<1>2. InFlight(t) = got[t] /\ InFlight(t)' = {}
  BY <1>1 DEF InFlight
<1>3. OwnedBits(t)' = OwnedBits(t) \cup got[t]
  BY <1>1 DEF OwnedBits
<1>4. /\ (bits \cup Held(t))' = bits \cup Held(t)
      /\ (bits \cap Held(t))' = {}
      /\ (OwnedBits(t) \cap InFlight(t))' = {}
  BY <1>2, <1>3 DEF EachBitInOnePlace, Held
<1>5. \A Q \in owned[t] : Q \cap got[t] = {}
  BY <1>2 DEF EachBitInOnePlace, OwnedBits
<1>6. \A P, Q \in owned'[t] : P = Q \/ P \cap Q = {}
  BY <1>1, <1>5 DEF EachBitInOnePlace
<1> QED BY <1>1, <1>4, <1>6, Moves

\* set_n takes the run out of the thread's hands.
LEMMA SetKeepsPlaces ==
  ASSUME BitsInv, NEW t \in Threads, NEW R \in owned[t], Set(t, R)
  PROVE  EachBitInOnePlace'
<1>1. /\ owned'[t] = owned[t] \ {R} /\ want'[t] = R /\ got'[t] = {}
      /\ pc'[t] = "set" /\ Alone(t) /\ bits' = bits /\ got[t] = {}
  BY DEF Set, BitsInv, TypeOK, Goto, Alone, Carries
<1>2. InFlight(t) = {} /\ InFlight(t)' = R
  BY <1>1 DEF InFlight, Set
<1>3. \A Q \in owned[t] : R = Q \/ R \cap Q = {}
  BY DEF BitsInv, EachBitInOnePlace
<1>4. OwnedBits(t) = OwnedBits(t)' \cup R /\ OwnedBits(t)' \cap R = {}
  BY <1>1, <1>3 DEF OwnedBits
<1>5. /\ (bits \cup Held(t))' = bits \cup Held(t)
      /\ (bits \cap Held(t))' = {}
      /\ (OwnedBits(t) \cap InFlight(t))' = {}
  BY <1>1, <1>2, <1>4 DEF EachBitInOnePlace, Held, BitsInv
<1>6. \A P, Q \in owned'[t] : P = Q \/ P \cap Q = {}
  BY <1>1 DEF EachBitInOnePlace, BitsInv
<1> QED BY <1>1, <1>5, <1>6, Moves DEF BitsInv

-----------------------------------------------------------------------------
\* The chunk as unsafe_set_n leaves it.
LEMMA BitsInit == Init => BitsInv
<1> SUFFICES ASSUME Init PROVE BitsInv
  OBVIOUS
<1>1. TypeOK
  BY FieldsCover DEF Init, TypeOK, Pcs
<1>2. \A t \in Threads : Held(t) = {} /\ OwnedBits(t) = {} /\ InFlight(t) = {}
  BY DEF Init, Held, OwnedBits, InFlight
<1>3. EachBitInOnePlace
  <2>1. UNION {OwnedBits(t) \cup InFlight(t) : t \in Threads} = {}
    BY <1>2
  <2> QED BY <1>2, <2>1 DEF Init, EachBitInOnePlace
<1>4. \A t \in Threads : Carries(t)
  BY DEF Init, Carries
<1> QED BY <1>1, <1>3, <1>4 DEF BitsInv

\* Every step keeps every bit in one place.
LEMMA BitsStep ==
  ASSUME BitsInv, [Next]_vars
  PROVE  BitsInv'
<1> USE FieldsCover DEF BitsInv, TypeOK, Pcs, Goto, Carries
<1>1. ASSUME NEW t \in Threads, Look(t) PROVE BitsInv'
  <2>1. TypeOK' /\ \A u \in Threads : Carries(u)'
    BY <1>1 DEF Look
  <2>2. Alone(t) /\ InFlight(t)' = InFlight(t)
    BY <1>1 DEF Look, Alone, InFlight
  <2> QED BY <1>1, <2>1, <2>2, KeepsPlaces DEF Look
<1>2. ASSUME NEW t \in Threads, NEW R \in Runs, FindInField(t, R) PROVE BitsInv'
  <2>1. TypeOK' /\ \A u \in Threads : Carries(u)'
    BY <1>2, RunsAreBits DEF FindInField
  <2>2. Alone(t) /\ InFlight(t)' = InFlight(t) \cup R
    BY <1>2, RunsAreBits DEF FindInField, Alone, InFlight
  <2> QED BY <1>2, <2>1, <2>2, TakesBits DEF FindInField
<1>3. ASSUME NEW t \in Threads, NEW R \in Runs, FindSpanning(t, R) PROVE BitsInv'
  <2>1. TypeOK' /\ \A u \in Threads : Carries(u)'
    BY <1>3, RunsAreBits DEF FindSpanning
  <2>2. Alone(t) /\ InFlight(t)' = InFlight(t)
    BY <1>3 DEF FindSpanning, Alone, InFlight
  <2> QED BY <1>3, <2>1, <2>2, KeepsPlaces DEF FindSpanning
<1>4. ASSUME NEW t \in Threads, NotFound(t) PROVE BitsInv'
  <2>1. TypeOK' /\ \A u \in Threads : Carries(u)'
    BY <1>4 DEF NotFound
  <2>2. Alone(t) /\ InFlight(t)' = InFlight(t)
    BY <1>4 DEF NotFound, Alone, InFlight
  <2> QED BY <1>4, <2>1, <2>2, KeepsPlaces DEF NotFound
<1>5. ASSUME NEW t \in Threads, ClearField(t) PROVE BitsInv'
  <2> DEFINE R == want[t] \cap Field(FirstField(want[t]))
  <2>0. pc[t] = "clear" /\ UNCHANGED <<map, fld, owned>>
    BY <1>5 DEF ClearField
  <2>1. R \subseteq want[t]
    OBVIOUS
  <2>2. CASE /\ R \subseteq bits
             /\ bits' = bits \ R /\ undone' = undone \ R
             /\ got' = [got EXCEPT ![t] = @ \cup R]
             /\ want' = [want EXCEPT ![t] = @ \ R]
             /\ Goto(t, IF want[t] = R THEN "check" ELSE "clear")
    <3> HIDE DEF R
    <3>1. (want[t] \ R) \cup (got[t] \cup R) = want[t] \cup got[t]
      BY <2>1
    <3>2. TypeOK'
      BY <2>0, <2>1, <2>2
    <3>3. \A u \in Threads : Carries(u)'
      BY <2>0, <2>1, <2>2, <3>1
    <3>4. Alone(t) /\ InFlight(t)' = InFlight(t) \cup R
      BY <2>0, <2>2 DEF Alone, InFlight
    <3> QED BY <2>0, <2>2, <3>2, <3>3, <3>4, TakesBits
  <2>3. CASE /\ ~(R \subseteq bits)
             /\ want' = [want EXCEPT ![t] = {}]
             /\ Goto(t, IF got[t] = {} THEN "find" ELSE "rollback")
             /\ UNCHANGED <<bits, got, undone>>
    <3> HIDE DEF R
    <3>1. TypeOK' /\ \A u \in Threads : Carries(u)'
      BY <2>0, <2>3
    <3>2. Alone(t) /\ InFlight(t)' = InFlight(t)
      BY <2>0, <2>3 DEF Alone, InFlight
    <3> QED BY <2>0, <2>3, <3>1, <3>2, KeepsPlaces
  <2> QED BY <1>5, <2>2, <2>3 DEF ClearField
<1>6. ASSUME NEW t \in Threads, Rollback(t) PROVE BitsInv'
  <2> DEFINE R == got[t] \cap Field(FirstField(got[t]))
  <2>1. /\ R \subseteq got[t]
        /\ pc[t] = "rollback"
        /\ bits' = bits \cup R /\ undone' = undone \cup R
        /\ got' = [got EXCEPT ![t] = @ \ R]
        /\ Goto(t, IF got[t] = R THEN "find" ELSE "rollback")
        /\ UNCHANGED <<map, want, fld, owned>>
    BY <1>6 DEF Rollback
  <2> HIDE DEF R
  <2>2. TypeOK' /\ \A u \in Threads : Carries(u)'
    BY <2>1
  <2>3. Alone(t) /\ InFlight(t)' = InFlight(t) \ R /\ R \subseteq InFlight(t)
    BY <2>1 DEF Alone, InFlight
  <2> QED BY <2>1, <2>2, <2>3, GivesBits
<1>7. ASSUME NEW t \in Threads, CheckField(t) PROVE BitsInv'
  <2>1. pc[t] = "check" /\ UNCHANGED <<bits, map, want, undone>>
    BY <1>7 DEF CheckField
  <2>2. \/ /\ fld' = [fld EXCEPT ![t] = 0]
           /\ Finish(t) /\ Goto(t, "idle")
        \/ /\ fld[t] < LastField /\ fld' = [fld EXCEPT ![t] = @ + 1]
           /\ UNCHANGED <<pc, got, owned>>
        \/ /\ fld' = [fld EXCEPT ![t] = 0]
           /\ Goto(t, "mapClear")
           /\ UNCHANGED <<got, owned>>
    BY <1>7 DEF CheckField
  <2>3. fld' \in [Threads -> 0..LastField]
    BY <2>2
  <2>4. CASE Finish(t) /\ Goto(t, "idle")
    <3>1. TypeOK' /\ \A u \in Threads : Carries(u)'
      BY <2>1, <2>3, <2>4 DEF Finish
    <3> QED BY <2>1, <2>4, <3>1, FinishKeepsPlaces
  <2>5. CASE UNCHANGED <<got, owned>> /\ (UNCHANGED pc \/ Goto(t, "mapClear"))
    <3>1. TypeOK' /\ \A u \in Threads : Carries(u)'
      BY <2>1, <2>3, <2>5
    <3>2. Alone(t) /\ InFlight(t)' = InFlight(t)
      BY <2>1, <2>5 DEF Alone, InFlight
    <3> QED BY <2>1, <2>5, <3>1, <3>2, KeepsPlaces
  <2> QED BY <2>2, <2>4, <2>5
<1>8. ASSUME NEW t \in Threads, MapClear(t) PROVE BitsInv'
  <2>1. CASE Finish(t) /\ Goto(t, "idle")
    <3>1. TypeOK' /\ \A u \in Threads : Carries(u)'
      BY <1>8, <2>1 DEF MapClear, Finish
    <3> QED BY <1>8, <2>1, <3>1, FinishKeepsPlaces DEF MapClear
  <2>2. CASE UNCHANGED <<got, owned>> /\ Goto(t, "recheck")
    <3>1. TypeOK' /\ \A u \in Threads : Carries(u)'
      BY <1>8, <2>2 DEF MapClear
    <3>2. Alone(t) /\ InFlight(t)' = InFlight(t)
      BY <1>8, <2>2 DEF MapClear, Alone, InFlight
    <3> QED BY <1>8, <2>2, <3>1, <3>2, KeepsPlaces DEF MapClear
  <2> QED BY <1>8, <2>1, <2>2 DEF MapClear
<1>9. ASSUME NEW t \in Threads, RecheckField(t) PROVE BitsInv'
  <2>1. pc[t] = "recheck" /\ UNCHANGED <<bits, map, want, undone>>
    BY <1>9 DEF RecheckField
  <2>2. \/ /\ fld' = [fld EXCEPT ![t] = 0]
           /\ Finish(t) /\ Goto(t, "idle")
        \/ /\ fld[t] < LastField /\ fld' = [fld EXCEPT ![t] = @ + 1]
           /\ UNCHANGED <<pc, got, owned>>
        \/ /\ fld' = [fld EXCEPT ![t] = 0]
           /\ Goto(t, "mapSet")
           /\ UNCHANGED <<got, owned>>
    BY <1>9 DEF RecheckField
  <2>3. fld' \in [Threads -> 0..LastField]
    BY <2>2
  <2>4. CASE Finish(t) /\ Goto(t, "idle")
    <3>1. TypeOK' /\ \A u \in Threads : Carries(u)'
      BY <2>1, <2>3, <2>4 DEF Finish
    <3> QED BY <2>1, <2>4, <3>1, FinishKeepsPlaces
  <2>5. CASE UNCHANGED <<got, owned>> /\ (UNCHANGED pc \/ Goto(t, "mapSet"))
    <3>1. TypeOK' /\ \A u \in Threads : Carries(u)'
      BY <2>1, <2>3, <2>5
    <3>2. Alone(t) /\ InFlight(t)' = InFlight(t)
      BY <2>1, <2>5 DEF Alone, InFlight
    <3> QED BY <2>1, <2>5, <3>1, <3>2, KeepsPlaces
  <2> QED BY <2>2, <2>4, <2>5
<1>10. ASSUME NEW t \in Threads, NEW R \in owned[t], Set(t, R) PROVE BitsInv'
  <2>1. TypeOK' /\ \A u \in Threads : Carries(u)'
    BY <1>10, RunsAreBits DEF Set
  <2> QED BY <1>10, <2>1, SetKeepsPlaces
<1>11. ASSUME NEW t \in Threads, SetField(t) PROVE BitsInv'
  <2> DEFINE R == want[t] \cap Field(FirstField(want[t]))
  <2>1. /\ R \subseteq want[t]
        /\ pc[t] = "set"
        /\ bits' = bits \cup R
        /\ want' = [want EXCEPT ![t] = @ \ R]
        /\ Goto(t, IF want[t] = R THEN "mapSet" ELSE "set")
        /\ UNCHANGED <<map, got, fld, owned, undone>>
    BY <1>11 DEF SetField
  <2> HIDE DEF R
  <2>2. TypeOK' /\ \A u \in Threads : Carries(u)'
    BY <2>1
  <2>3. Alone(t) /\ InFlight(t)' = InFlight(t) \ R /\ R \subseteq InFlight(t)
    BY <2>1 DEF Alone, InFlight
  <2> QED BY <2>1, <2>2, <2>3, GivesBits
<1>12. ASSUME NEW t \in Threads, MapSet(t) PROVE BitsInv'
  <2>1. TypeOK' /\ \A u \in Threads : Carries(u)'
    BY <1>12 DEF MapSet, Finish
  <2> QED BY <1>12, <2>1, FinishKeepsPlaces DEF MapSet
<1>13. CASE UNCHANGED vars
  <2>1. TypeOK' /\ \A u \in Threads : Carries(u)'
    BY <1>13 DEF vars
  <2>2. EachBitInOnePlace'
    BY <1>13 DEF vars, EachBitInOnePlace, OwnedBits, InFlight
  <2> QED BY <2>1, <2>2
<1> QED BY <1>1, <1>2, <1>3, <1>4, <1>5, <1>6, <1>7, <1>8, <1>9, <1>10,
           <1>11, <1>12, <1>13 DEF Next, Step

\* However claims across fields, rollbacks and sets interleave, every bit of
\* the chunk is free, or in one run of one thread, or claimed by one operation
\* under way: no run is half claimed and none is handed out twice.
THEOREM BitsStaySound == Spec => []BitsAreSound
<1>1. BitsInv => BitsAreSound
  BY DEF BitsInv, BitsAreSound
<1> QED BY <1>1, BitsInit, BitsStep, PTL DEF Spec

-----------------------------------------------------------------------------
\* The field index is reset by every way out of is_all_clear.
LEMMA FieldsStep ==
  ASSUME BitsInv, FieldsFromTheStart, [Next]_vars
  PROVE  FieldsFromTheStart'
<1> USE DEF FieldsFromTheStart, BitsInv, TypeOK, Pcs, Goto
<1>1. ASSUME NEW t \in Threads, CheckField(t) PROVE FieldsFromTheStart'
  BY <1>1 DEF CheckField
<1>2. ASSUME NEW t \in Threads, RecheckField(t) PROVE FieldsFromTheStart'
  BY <1>2 DEF RecheckField
<1>3. ASSUME NEW t \in Threads, \/ Look(t) \/ NotFound(t) \/ MapSet(t)
                                \/ MapClear(t)
                                \/ \E R \in owned[t] : Set(t, R)
      PROVE FieldsFromTheStart'
  BY <1>3 DEF Look, NotFound, MapSet, MapClear, Set
<1>4. ASSUME NEW t \in Threads, \E R \in Runs : FindInField(t, R) \/ FindSpanning(t, R)
      PROVE FieldsFromTheStart'
  BY <1>4 DEF FindInField, FindSpanning
<1>5. ASSUME NEW t \in Threads, ClearField(t) \/ Rollback(t) \/ SetField(t)
      PROVE FieldsFromTheStart'
  <2>1. fld' = fld /\ pc[t] \in {"clear", "rollback", "set"} /\ \E w : Goto(t, w)
    BY <1>5 DEF ClearField, Rollback, SetField
  <2> QED BY <2>1
<1>6. CASE UNCHANGED vars
  BY <1>6 DEF vars
<1> QED BY <1>1, <1>2, <1>3, <1>4, <1>5, <1>6 DEF Next, Step

(***************************************************************************)
(* Every step keeps the set bits in reach: a set announces itself before   *)
(* the bits appear, the second look starts after the chunkmap bit is       *)
(* cleared and stays in front of the bits it has not read.                 *)
(***************************************************************************)
LEMMA SeenStep ==
  ASSUME ChunkInv, [Next]_vars
  PROVE  SetBitsAreSeen'
<1> USE DEF ChunkInv, BitsInv, TypeOK, Pcs, Goto
<1>1. ASSUME NEW t \in Threads,
             bits' \ undone' \subseteq bits \ undone, map' = map, fld' = fld,
             pc[t] \notin {"set", "mapSet", "recheck"},
             \E w : Goto(t, w)
      PROVE SetBitsAreSeen'
  BY <1>1 DEF SetBitsAreSeen
<1>2. ASSUME NEW t \in Threads, Look(t) \/ NotFound(t) PROVE SetBitsAreSeen'
  BY <1>1, <1>2 DEF Look, NotFound
<1>3. ASSUME NEW t \in Threads, NEW R \in Runs,
             FindInField(t, R) \/ FindSpanning(t, R)
      PROVE SetBitsAreSeen'
  BY <1>1, <1>3 DEF FindInField, FindSpanning
<1>4. ASSUME NEW t \in Threads, ClearField(t) PROVE SetBitsAreSeen'
  <2>1. /\ bits' \ undone' \subseteq bits \ undone /\ map' = map /\ fld' = fld
        /\ pc[t] = "clear" /\ \E w : Goto(t, w)
    BY <1>4 DEF ClearField
  <2> QED BY <1>1, <2>1
<1>5. ASSUME NEW t \in Threads, Rollback(t) PROVE SetBitsAreSeen'
  <2>1. /\ bits' \ undone' \subseteq bits \ undone /\ map' = map /\ fld' = fld
        /\ pc[t] = "rollback" /\ \E w : Goto(t, w)
    BY <1>5 DEF Rollback
  <2> QED BY <1>1, <2>1
<1>6. ASSUME NEW t \in Threads, CheckField(t) PROVE SetBitsAreSeen'
  <2>1. /\ bits' = bits /\ undone' = undone /\ map' = map
        /\ pc[t] = "check" /\ pc'[t] \in Pcs
        /\ \A u \in Threads \ {t} : pc'[u] = pc[u] /\ fld'[u] = fld[u]
    BY <1>6 DEF CheckField
  <2> QED BY <2>1 DEF SetBitsAreSeen
<1>7. ASSUME NEW t \in Threads, MapClear(t) PROVE SetBitsAreSeen'
  <2>1. CASE map
    <3>1. pc'[t] = "recheck" /\ fld'[t] = 0 /\ bits' \subseteq Bits
      BY <1>7, <2>1 DEF MapClear, FieldsFromTheStart
    <3>2. \A b \in bits' : fld'[t] * FieldBits <= b
      BY <3>1, FieldsCover, ChunkAssumption DEF Bits
    <3> QED BY <3>1, <3>2 DEF SetBitsAreSeen
  <2>2. CASE ~map
    BY <1>7, <2>2 DEF MapClear, SetBitsAreSeen
  <2> QED BY <2>1, <2>2
<1>8. ASSUME NEW t \in Threads, RecheckField(t) PROVE SetBitsAreSeen'
  <2>1. /\ bits' = bits /\ undone' = undone /\ map' = map /\ pc[t] = "recheck"
        /\ \A u \in Threads \ {t} : pc'[u] = pc[u] /\ fld'[u] = fld[u]
    BY <1>8 DEF RecheckField
  <2>2. SUFFICES ASSUME NEW b \in bits \ undone, ~map,
                        pc[t] = "recheck" /\ fld[t] * FieldBits <= b,
                        pc'[t] # "mapSet"
                 PROVE  pc'[t] = "recheck" /\ fld'[t] * FieldBits <= b
    BY <2>1 DEF SetBitsAreSeen
  <2>3. b \in Bits /\ bits \cap Field(fld[t]) = {}
    BY <1>8, <2>2 DEF RecheckField
  <2>4. (fld[t] + 1) * FieldBits <= b
    BY <2>2, <2>3, NextField
  <2>5. fld[t] # LastField
    BY <2>3, <2>4, FieldsCover, ChunkAssumption DEF Bits
  <2>6. pc' = pc /\ fld' = [fld EXCEPT ![t] = @ + 1]
    BY <1>8, <2>3, <2>5, <2>2 DEF RecheckField
  <2>7. fld'[t] = fld[t] + 1
    BY <2>6
  <2> QED BY <2>2, <2>4, <2>6, <2>7
<1>9. ASSUME NEW t \in Threads, NEW R \in owned[t], Set(t, R)
      PROVE SetBitsAreSeen'
  BY <1>9 DEF Set, SetBitsAreSeen
<1>10. ASSUME NEW t \in Threads, SetField(t) PROVE SetBitsAreSeen'
  <2>1. pc'[t] \in {"set", "mapSet"}
    BY <1>10 DEF SetField
  <2> QED BY <2>1 DEF SetBitsAreSeen
<1>11. ASSUME NEW t \in Threads, MapSet(t) PROVE SetBitsAreSeen'
  BY <1>11 DEF MapSet, SetBitsAreSeen
<1>12. CASE UNCHANGED vars
  BY <1>12 DEF vars, SetBitsAreSeen
<1> QED BY <1>2, <1>3, <1>4, <1>5, <1>6, <1>7, <1>8, <1>9, <1>10, <1>11,
           <1>12 DEF Next, Step

\* bitmap.rs: "bit c set iff chunk c may be non-empty".  A chunk with bits that
\* a set_n put there is out of the searches' reach only while some thread is
\* about to set the chunkmap bit or to look again.
THEOREM ChunkmapStaysConservative == Spec => []ChunkmapIsConservative
<1>1. Init => ChunkInv
  BY BitsInit DEF ChunkInv, Init, FieldsFromTheStart, SetBitsAreSeen
<1>2. ChunkInv /\ [Next]_vars => ChunkInv'
  BY BitsStep, FieldsStep, SeenStep DEF ChunkInv
<1>3. ChunkInv => ChunkmapIsConservative
  BY DEF ChunkInv, SetBitsAreSeen, ChunkmapIsConservative
<1> QED BY <1>1, <1>2, <1>3, PTL DEF Spec
=============================================================================
