----------------------------- MODULE SliceReuse -----------------------------
(***************************************************************************)
(* The successive pages that live at one slice of an arena, and the        *)
(* threads that look for abandoned pages there.                            *)
(*                                                                         *)
(* PageOwnership follows one page from its creation to its release.  Here  *)
(* a page is reduced to its header (the ownership bit and the size class)  *)
(* and the slice goes on after it: the memory keeps the header of a        *)
(* released page until a new page is made there or a purge hands the       *)
(* memory to the OS, which returns zeros.  What is kept in full is the     *)
(* search of the abandoned registry (Arena::reclaim_abandoned over         *)
(* Bitmap::try_find_and_claim), which reads the registry bit, then sets    *)
(* the ownership bit in whatever header is at the slice, then clears the   *)
(* registry bit.  Nothing keeps the slice from being released, purged and  *)
(* made into a page of another class between the first and the second of   *)
(* these steps.                                                            *)
(*                                                                         *)
(* Two history variables, which no guard reads, tell the searches that     *)
(* this happens to: the properties say what holds until such a search      *)
(* claims what it finds.                                                   *)
(*                                                                         *)
(* The names differ from those of PageOwnership, so that one module of     *)
(* proofs can extend both.                                                 *)
(***************************************************************************)
EXTENDS Naturals

CONSTANTS
  SliceThreads, \* the threads that have to do with the slice
  Bins,       \* the size classes pages are made for
  MaxLives,   \* bound: pages made at the slice
  NoBin,      \* the size class read from zeroed memory
  NoOwner     \* the page is in no queue

ASSUME ReuseAssumption ==
  /\ MaxLives \in Nat
  /\ NoBin \notin Bins /\ NoOwner \notin SliceThreads

VARIABLES
  allocated,  \* the arena's free bitmap: the slice belongs to a page
  hdrOwned,   \* the ownership bit in the header's xthread_free word
  hdrBin,     \* the size class in the header
  owner,      \* the thread that has the page in its queue
  registry,   \* the size classes whose abandoned bitmap shows the slice
  doing,      \* what each thread is doing with the slice
  want,       \* the size class a searching thread looks for
  lives,      \* pages made so far
  overtaken,  \* history: searches under way whose slice was purged, or became
              \* a page of another class, since they read the registry bit
  misled      \* history: a search claimed the page after it was overtaken

history == <<overtaken, misled>>
sliceVars == <<allocated, hdrOwned, hdrBin, owner, registry, doing, want, lives,
               history>>

SliceTypeOK ==
  /\ allocated \in BOOLEAN /\ hdrOwned \in BOOLEAN
  /\ hdrBin \in Bins \cup {NoBin}
  /\ owner \in SliceThreads \cup {NoOwner}
  /\ registry \subseteq Bins
  /\ doing \in [SliceThreads -> {"idle", "freeing", "seen", "clearBit", "adopt"}]
  /\ want \in [SliceThreads -> Bins]
  /\ lives \in 0..MaxLives
  /\ overtaken \subseteq SliceThreads /\ misled \in BOOLEAN

\* A fresh arena: zeroed memory, nothing registered.
SliceInit ==
  /\ allocated = FALSE /\ hdrOwned = FALSE /\ hdrBin = NoBin
  /\ owner = NoOwner /\ registry = {} /\ lives = 0
  /\ doing = [t \in SliceThreads |-> "idle"]
  /\ want \in [SliceThreads -> Bins]
  /\ overtaken = {} /\ misled = FALSE

MoveTo(t, where) == doing' = [doing EXCEPT ![t] = where]
Searching == {t \in SliceThreads : doing[t] = "seen"}

\* new_page: take the slice, write the header (owned), link the page.
NewPage(t, b) ==
  /\ doing[t] = "idle"
  /\ ~allocated /\ lives < MaxLives
  /\ allocated' = TRUE
  /\ hdrOwned' = TRUE /\ hdrBin' = b
  /\ owner' = t
  /\ lives' = lives + 1
  /\ overtaken' = {u \in Searching : want[u] # b}
  /\ UNCHANGED <<registry, doing, want, misled>>

\* Arena::page_abandon; a header of zeros names no arena to register with.
PageAbandoned == registry \cup ({hdrBin} \ {NoBin})

\* abandon_owned_page of a page with live blocks: registered unless full.
Abandon(t) ==
  /\ doing[t] = "idle" /\ owner = t
  /\ owner' = NoOwner
  /\ hdrOwned' = FALSE
  /\ registry' \in {PageAbandoned, registry}
  /\ UNCHANGED <<allocated, hdrBin, doing, want, lives, history>>

\* release_page_slices by the owner of an empty page.
OwnerRelease(t) ==
  /\ doing[t] = "idle" /\ owner = t
  /\ owner' = NoOwner
  /\ allocated' = FALSE
  /\ UNCHANGED <<hdrOwned, hdrBin, registry, doing, want, lives, history>>

\* A free pushes onto an unowned page and claims it ...
FreeClaim(t) ==
  /\ doing[t] = "idle"
  /\ allocated /\ ~hdrOwned
  /\ hdrOwned' = TRUE
  /\ MoveTo(t, "freeing")
  /\ UNCHANGED <<allocated, hdrBin, owner, registry, want, lives, history>>

\* mutant: the page is released while the registry shows it
FreeRelease_KeepsBit(t) ==
  /\ doing[t] = "freeing"
  /\ allocated' = FALSE
  /\ MoveTo(t, "idle")
  /\ UNCHANGED <<hdrOwned, hdrBin, owner, registry, want, lives, history>>

\* ... then unregisters and releases it if that was the last live block, or
\* registers it if it was full, and lets go of it.
FreeRelease(t) ==
  /\ doing[t] = "freeing"
  /\ registry' = registry \ {hdrBin}
  /\ allocated' = FALSE
  /\ MoveTo(t, "idle")
  /\ UNCHANGED <<hdrOwned, hdrBin, owner, want, lives, history>>

FreeUnown(t) ==
  /\ doing[t] = "freeing"
  /\ registry' = PageAbandoned
  /\ hdrOwned' = FALSE
  /\ MoveTo(t, "idle")
  /\ UNCHANGED <<allocated, hdrBin, owner, want, lives, history>>

\* Arena::run_purge: the memory of a free slice reads as zero afterwards.
Purge ==
  /\ ~allocated
  /\ hdrOwned' = FALSE /\ hdrBin' = NoBin
  /\ overtaken' = Searching
  /\ UNCHANGED <<allocated, owner, registry, doing, want, lives, misled>>

\* try_find_and_claim: the bit is read ...
SeeBit(t, b) ==
  /\ doing[t] = "idle"
  /\ b \in registry
  /\ want' = [want EXCEPT ![t] = b]
  /\ MoveTo(t, "seen")
  /\ UNCHANGED <<allocated, hdrOwned, hdrBin, owner, registry, lives, history>>

\* mutant: the claim does not look at the ownership bit
Claim_Always(t) ==
  /\ doing[t] = "seen"
  /\ hdrOwned' = TRUE
  /\ MoveTo(t, "clearBit")
  /\ misled' = (misled \/ t \in overtaken)
  /\ overtaken' = overtaken \ {t}
  /\ UNCHANGED <<allocated, hdrBin, owner, registry, want, lives>>

\* ... the ownership bit of the header at the slice is set if it is clear ...
Claim(t) ==
  /\ doing[t] = "seen"
  /\ hdrOwned' = TRUE
  /\ MoveTo(t, IF hdrOwned THEN "idle" ELSE "clearBit")
  /\ misled' = (misled \/ (t \in overtaken /\ ~hdrOwned))
  /\ overtaken' = overtaken \ {t}
  /\ UNCHANGED <<allocated, hdrBin, owner, registry, want, lives>>

\* ... and only then is the registry bit cleared.
ClearSeenBit(t) ==
  /\ doing[t] = "clearBit"
  /\ registry' = registry \ {want[t]}
  /\ MoveTo(t, "adopt")
  /\ UNCHANGED <<allocated, hdrOwned, hdrBin, owner, want, lives, history>>

\* try_reclaim: stamp the page with this thread and the bin it asked for.
Reclaim(t) ==
  /\ doing[t] = "adopt"
  /\ owner' = t
  /\ hdrBin' = want[t]
  /\ MoveTo(t, "idle")
  /\ UNCHANGED <<allocated, hdrOwned, registry, want, lives, history>>

SliceNext ==
  \/ Purge
  \/ \E t \in SliceThreads :
       \/ \E b \in Bins : NewPage(t, b) \/ SeeBit(t, b)
       \/ Abandon(t) \/ OwnerRelease(t)
       \/ FreeClaim(t) \/ FreeRelease(t) \/ FreeUnown(t)
       \/ Claim(t) \/ ClearSeenBit(t) \/ Reclaim(t)

SliceSpec == SliceInit /\ [][SliceNext]_sliceVars

-----------------------------------------------------------------------------
\* "a registered bit's slice index is a page start; the page header lives at
\* that slice and stays live while abandoned": whoever has claimed a page
\* through the registry has a live page of the size class it asked for.  This
\* is so until a search claims what it finds after the slice was purged, or was
\* made a page of another class, under it: try_find_and_claim does not look at
\* the registry again, so such a claim succeeds too.  Any number of releases,
\* new pages of the class sought, frees and other searches may come in between.
ClaimedPageIsTheOneSought ==
  ~misled =>
    \A t \in SliceThreads : doing[t] \in {"clearBit", "adopt"} =>
      allocated /\ hdrBin = want[t]

\* A slice has one owner at a time: no thread adopts the page while another
\* one has it in its queue or is busy with a claim of its own.
OneOwner ==
  \A t \in SliceThreads : doing[t] \in {"freeing", "clearBit", "adopt"} =>
    /\ owner = NoOwner
    /\ \A u \in SliceThreads \ {t} : doing[u] \notin {"freeing", "clearBit", "adopt"}

\* The registry never shows a page that a thread has in its queue, nor a free
\* slice (page_abandon's debug assertion that the bit was clear rests on it).
RegistryShowsOnlyAbandoned ==
  registry # {} => allocated /\ owner = NoOwner

\* However claims, releases, abandonments and purges follow each other at the
\* slice, it has one owner, and the registry shows it only while it is
\* abandoned; until a search is misled, which leaves the bit of the page's own
\* class behind, or makes two owners of a page.
SliceStateIsSound ==
  SliceTypeOK /\ (~misled => OneOwner /\ RegistryShowsOnlyAbandoned)

=============================================================================
