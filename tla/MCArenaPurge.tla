---------------------------- MODULE MCArenaPurge ----------------------------
(***************************************************************************)
(* The configurations of ArenaPurge that TLC checks.                       *)
(***************************************************************************)
EXTENDS ArenaPurge

\* A release build: memory committed on demand, which the OS may refuse.
Release == [field |-> 2, eager |-> FALSE, immediate |-> FALSE, decommits |-> TRUE,
            strips |-> FALSE, commitFails |-> TRUE, decommitFails |-> FALSE]

\* A secure build: decommit strips access, and the OS may refuse anything.
Secure == [Release EXCEPT !.strips = TRUE, !.decommitFails = TRUE]

\* An eagerly committed arena, purged by reset as soon as memory is released.
Reset == [Release EXCEPT !.eager = TRUE, !.immediate = TRUE, !.decommits = FALSE,
                         !.commitFails = FALSE]

MCConfigs == {Release, Secure, Reset}

=============================================================================
