---------------------------- MODULE MCThreadHeap ----------------------------
(***************************************************************************)
(* Small instances of ThreadHeap.                                          *)
(***************************************************************************)
EXTENDS ThreadHeap, TLC

\* Sizes 1 and 2 share a size class and have a fast path each; size 3 has a
\* class of its own and no fast path.
MCSizes == 1..3
MCSizeBin == <<1, 1, 2>>
MCSmallSizes == {1, 2}

\* The countdown is 16 for small blocks and 4 for larger ones: here 2 and 1.
MCCyclesOf == <<2, 1>>

PageSymmetry == Permutations(Pages)

=============================================================================
