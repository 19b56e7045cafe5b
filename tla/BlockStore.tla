----------------------------- MODULE BlockStore -----------------------------
(***************************************************************************)
(* What one mimalloc page promises the program: a store of blocks.  A      *)
(* block is handed out to one caller at a time, comes back through a free  *)
(* (at once, or after resting in a hand-over queue), and may be handed out *)
(* again only when it is back.  The memory of the page may be given away   *)
(* only when no block is handed out or resting in the queue, and nothing   *)
(* happens to the store afterwards.                                        *)
(*                                                                         *)
(* This is the specification that PageOwnership is shown to implement.     *)
(***************************************************************************)

CONSTANT Blocks    \* the blocks the page can hold

VARIABLES held,       \* blocks in the hands of the program
          returning,  \* blocks freed but not yet back in the store
          gone        \* the page's memory was given back

storeVars == <<held, returning, gone>>

StoreInit == held = {} /\ returning = {} /\ gone = FALSE

\* malloc: only a block that is neither held nor on its way back.
Malloc(b) ==
  /\ ~gone
  /\ b \notin held \cup returning
  /\ held' = held \cup {b}
  /\ UNCHANGED <<returning, gone>>

\* malloc that first takes blocks back from the hand-over queue.
MallocRecycle(b, S) ==
  /\ ~gone
  /\ S \subseteq returning
  /\ b \notin held \cup (returning \ S)
  /\ held' = held \cup {b}
  /\ returning' = returning \ S
  /\ UNCHANGED gone

\* free by the thread that runs the page: back at once.
FreeNow(b) ==
  /\ b \in held
  /\ held' = held \ {b}
  /\ UNCHANGED <<returning, gone>>

\* free by any other thread: the block starts its way back.
FreeLater(b) ==
  /\ b \in held
  /\ held' = held \ {b}
  /\ returning' = returning \cup {b}
  /\ UNCHANGED gone

Recycle(S) ==
  /\ ~gone
  /\ S \subseteq returning
  /\ returning' = returning \ S
  /\ UNCHANGED <<held, gone>>

GiveBack ==
  /\ ~gone
  /\ held = {} /\ returning = {}
  /\ gone' = TRUE
  /\ UNCHANGED <<held, returning>>

StoreNext ==
  \/ \E b \in Blocks : Malloc(b) \/ FreeNow(b) \/ FreeLater(b)
  \/ \E S \in SUBSET Blocks : Recycle(S)
  \/ \E b \in Blocks, S \in SUBSET Blocks : MallocRecycle(b, S)
  \/ GiveBack

StoreSpec == StoreInit /\ [][StoreNext]_storeVars

=============================================================================
