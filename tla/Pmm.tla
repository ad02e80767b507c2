-------------------------------- MODULE Pmm --------------------------------
(***************************************************************************)
(* The page allocator of src/kernel/mm/pmm.c after pmm_init: a bitmap with *)
(* one bit per page, a hint (last_free_page) where the search starts, and  *)
(* two passes, the second one over the pages below the hint.  Each turn of *)
(* the search loops is a step, so that the loop invariant can be stated.   *)
(***************************************************************************)
EXTENDS Integers

CONSTANTS
  max_pages,     \* number of pages the bitmap describes
  WORD,          \* pages per bitmap word (32 in the code)
  ReservedMaps,  \* the sets of pages that pmm_init may leave marked
  MaxRequest     \* bound on the size of a request

Pages == 0 .. max_pages - 1

\* pmm_init ends with BITMAP_SET(0): page 0 is marked in every map.
ASSUME PmmAssumption ==
  /\ max_pages \in Nat \ {0}
  /\ WORD \in Nat \ {0}
  /\ MaxRequest \in Nat
  /\ \A R \in ReservedMaps : R \subseteq Pages /\ 0 \in R

VARIABLES
  used,            \* the pages whose bit is set in bitmap
  last_free_page,
  pc,              \* "idle", or the pass pmm_alloc is in
  pages,           \* the argument of pmm_alloc
  i, consecutive, start_bit, search_limit,   \* its local variables
  nested,          \* TRUE: runs are released in the reverse order of the grants,
                   \* as exec.c and fb.c do; FALSE: in any order
  reserved,        \* history: the map pmm_init left
  live             \* history: runs granted and not released, each with the
                   \* pages that were in use when it was granted (below;
                   \* empty when nested is FALSE)

vars == <<used, last_free_page, pc, pages, i, consecutive, start_bit, search_limit,
          nested, reserved, live>>

Span(s, n) == s .. s + n - 1

Runs == [start : Pages, n : Nat \ {0}, below : SUBSET Pages]

TypeOK ==
  /\ used \in SUBSET Pages
  /\ last_free_page \in 0 .. max_pages
  /\ pc \in {"idle", "pass1", "pass2"}
  /\ pages \in 0 .. MaxRequest
  /\ i \in Nat
  /\ consecutive \in Nat
  /\ start_bit \in Nat
  /\ search_limit \in 0 .. max_pages
  /\ nested \in BOOLEAN
  /\ reserved \in ReservedMaps
  /\ live \in SUBSET Runs

Init ==
  /\ nested \in BOOLEAN
  /\ reserved \in ReservedMaps
  /\ used = reserved
  /\ last_free_page = 0
  /\ pc = "idle"
  /\ pages = 0
  /\ i = 0
  /\ consecutive = 0
  /\ start_bit = 0
  /\ search_limit = 0
  /\ live = {}

\* pmm_alloc is called; a call with 0 pages returns NULL and changes nothing.
pmm_alloc(n) ==
  /\ pc = "idle"
  /\ n # 0
  /\ pages' = n
  /\ consecutive' = 0
  /\ start_bit' = 0
  /\ i' = last_free_page
  /\ pc' = "pass1"
  /\ UNCHANGED <<used, last_free_page, search_limit, nested, reserved, live>>

\* Where the pass that is under way ends.
Limit == IF pc = "pass1" THEN max_pages ELSE search_limit

\* bitmap_words[i / 32] == (uint32_t)-1, for the pages the word describes.
WordFull(k) == \A j \in Span(k, WORD) : j \in Pages => j \in used

Skippable ==
  /\ i % WORD = 0
  /\ consecutive = 0
  /\ i \div WORD < max_pages \div WORD
  /\ pc = "pass2" => i + WORD <= search_limit
  /\ WordFull(i)

\* Mutants of SkipWord: the increment of the for loop comes on top; the cursor
\* is not advanced.
SkipWord_OnePageMore ==
  /\ pc # "idle" /\ i < Limit /\ Skippable
  /\ i' = i + WORD + 1
  /\ UNCHANGED <<used, last_free_page, pc, pages, consecutive, start_bit, search_limit,
                 nested, reserved, live>>

SkipWord_Stays ==
  /\ pc # "idle" /\ i < Limit /\ Skippable
  /\ UNCHANGED vars

\* The word skipping optimization: a word without a free page is passed over.
SkipWord ==
  /\ pc # "idle"
  /\ i < Limit
  /\ Skippable
  /\ i' = i + WORD
  /\ UNCHANGED <<used, last_free_page, pc, pages, consecutive, start_bit, search_limit,
                 nested, reserved, live>>

\* Mutant of PageUsed: the run found so far is not given up.
PageUsed_NoReset ==
  /\ pc # "idle" /\ i < Limit /\ ~ Skippable /\ i \in used
  /\ i' = i + 1
  /\ UNCHANGED <<used, last_free_page, pc, pages, consecutive, start_bit, search_limit,
                 nested, reserved, live>>

\* A bit that is set ends the run found so far.
PageUsed ==
  /\ pc # "idle"
  /\ i < Limit
  /\ ~ Skippable
  /\ i \in used
  /\ consecutive' = 0
  /\ i' = i + 1
  /\ UNCHANGED <<used, last_free_page, pc, pages, start_bit, search_limit, nested, reserved, live>>

\* The local variables are gone when pmm_alloc returns.
Return ==
  /\ pc' = "idle"
  /\ pages' = 0
  /\ i' = 0
  /\ consecutive' = 0
  /\ start_bit' = 0
  /\ search_limit' = 0

RunStart == IF consecutive = 0 THEN i ELSE start_bit

\* A clear bit extends the run, which is still too short.
PageFree ==
  /\ pc # "idle"
  /\ i < Limit
  /\ ~ Skippable
  /\ i \notin used
  /\ consecutive + 1 # pages
  /\ start_bit' = RunStart
  /\ consecutive' = consecutive + 1
  /\ i' = i + 1
  /\ UNCHANGED <<used, last_free_page, pc, pages, search_limit, nested, reserved, live>>

\* Recorded with a run only when the order of the releases depends on it.
Below == IF nested THEN used ELSE {}

\* Mutant of Found: the hint is one page too far.
Found_HintTooFar ==
  /\ pc # "idle" /\ i < Limit /\ ~ Skippable /\ i \notin used /\ consecutive + 1 = pages
  /\ used' = used \cup Span(RunStart, pages)
  /\ last_free_page' = RunStart + pages + 1
  /\ live' = live \cup {[start |-> RunStart, n |-> pages, below |-> Below]}
  /\ Return
  /\ UNCHANGED <<nested, reserved>>

\* A clear bit completes the run: mark it, move the hint behind it, return it.
Found ==
  /\ pc # "idle"
  /\ i < Limit
  /\ ~ Skippable
  /\ i \notin used
  /\ consecutive + 1 = pages
  /\ used' = used \cup Span(RunStart, pages)
  /\ last_free_page' = RunStart + pages
  /\ live' = live \cup {[start |-> RunStart, n |-> pages, below |-> Below]}
  /\ Return
  /\ UNCHANGED <<nested, reserved>>

\* The first pass reached the end: search the pages below the hint, and
\* forget the hint.
StartOver ==
  /\ pc = "pass1"
  /\ i >= Limit
  /\ last_free_page > 0
  /\ search_limit' = last_free_page
  /\ last_free_page' = 0
  /\ consecutive' = 0
  /\ i' = 0
  /\ pc' = "pass2"
  /\ UNCHANGED <<used, pages, start_bit, nested, reserved, live>>

\* return NULL
GiveUp ==
  /\ i >= Limit
  /\ \/ pc = "pass1" /\ last_free_page = 0
     \/ pc = "pass2"
  /\ Return
  /\ UNCHANGED <<used, last_free_page, nested, reserved, live>>

\* The callers release a run as they got it, with the same number of pages.
\* Nested callers release the youngest run first.
MayFree(r) == nested => used = r.below \cup Span(r.start, r.n)

\* Mutant of pmm_free: the loop stops one page early.
pmm_free_Short(r) ==
  /\ pc = "idle"
  /\ MayFree(r)
  /\ used' = used \ Span(r.start, r.n - 1)
  /\ last_free_page' = IF r.start < last_free_page THEN r.start ELSE last_free_page
  /\ live' = live \ {r}
  /\ UNCHANGED <<pc, pages, i, consecutive, start_bit, search_limit, nested, reserved>>

pmm_free(r) ==
  /\ pc = "idle"
  /\ MayFree(r)
  /\ used' = used \ {j \in Span(r.start, r.n) : j < max_pages}
  /\ last_free_page' = IF r.start < last_free_page THEN r.start ELSE last_free_page
  /\ live' = live \ {r}
  /\ UNCHANGED <<pc, pages, i, consecutive, start_bit, search_limit, nested, reserved>>

Search == SkipWord \/ PageUsed \/ PageFree \/ Found \/ StartOver \/ GiveUp

Next ==
  \/ \E n \in 1 .. MaxRequest : pmm_alloc(n)
  \/ Search
  \/ \E r \in live : pmm_free(r)

\* A call that has started runs on: interrupt handlers do not use the allocator.
Spec == Init /\ [][Next]_vars /\ WF_vars(Search)

-----------------------------------------------------------------------------
(* Properties *)

\* The bitmap says exactly which pages are taken: those pmm_init reserved
\* and those of the runs that pmm_alloc granted and pmm_free has not taken
\* back; no page belongs to two runs and no run touches a reserved page.
BitmapExact ==
  /\ used = reserved \cup UNION {Span(r.start, r.n) : r \in live}
  /\ \A r \in live : Span(r.start, r.n) \cap reserved = {}
  /\ \A r, s \in live : r # s => Span(r.start, r.n) \cap Span(s.start, s.n) = {}

FreeRun(s, n) == Span(s, n) \subseteq Pages \ used

\* A NULL from a pmm_alloc that started with the hint at 0 is final: there
\* is no run of that many free pages.  So a second attempt, right after a
\* NULL (which leaves the hint at 0), settles the matter.
RetryIsExact ==
  [][pc = "pass1" /\ pc' = "idle" /\ live' = live
       => \A s \in Pages : ~ FreeRun(s, pages)]_vars

\* Every call of pmm_alloc returns.
AllocReturns == pc # "idle" ~> pc = "idle"

(***************************************************************************)
(* What a NULL means.  When the runs are released in any order, the second *)
(* pass stops at the old hint although a run may lie across it, so a       *)
(* request for n pages may fail with up to 2n - 2 consecutive pages free;  *)
(* when they are released youngest first, the page below the hint is       *)
(* always in use and no run is missed (Slack in PageAlloc).                *)
(***************************************************************************)
Abstract == INSTANCE PageAlloc WITH
  live <- {[start |-> r.start, n |-> r.n] : r \in live},
  pending <- IF pc = "idle" THEN 0 ELSE pages

\* pmm_alloc and pmm_free with their bitmap, hint and two passes behave like
\* the abstract allocator: a granted run was free, a refused request had no
\* run of Slack(n) free pages, a released run is free again.
ImplementsPageAlloc == Abstract!Spec
=============================================================================
