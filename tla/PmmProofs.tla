----------------------------- MODULE PmmProofs -----------------------------
(***************************************************************************)
(* The page allocator for every number of pages, every word size, every    *)
(* map that pmm_init may leave and both orders of release.                 *)
(***************************************************************************)
EXTENDS Pmm, TLAPS

\* The page where the pass that is under way started.
Lo == IF pc = "pass1" THEN last_free_page ELSE 0

NoRunIn(lo, hi, n) ==
  \A s \in Pages : lo <= s /\ s + n <= hi => ~ FreeRun(s, n)

\* The run being collected ends at i, is free, and cannot be extended
\* downwards: the page before it is in use or belongs to the other pass.
Collected ==
  /\ consecutive < pages
  /\ consecutive > 0 =>
       /\ start_bit = i - consecutive
       /\ Lo <= start_bit
       /\ start_bit = Lo \/ start_bit - 1 \in used
       /\ Span(start_bit, consecutive) \subseteq Pages \ used
  /\ consecutive = 0 => i = Lo \/ i - 1 \in used \/ i > max_pages

\* The loop invariant of both passes of pmm_alloc.
Loop ==
  pc # "idle" =>
    /\ Lo <= i
    /\ NoRunIn(Lo, i, pages)
    /\ Collected
    /\ pc = "pass2" =>
         /\ last_free_page = 0
         /\ NoRunIn(search_limit, max_pages, pages)
         /\ nested => search_limit - 1 \in used

\* When runs are released youngest first, the page below the hint is in use,
\* and so was the page below each run when the run was granted.
Hint ==
  nested =>
    /\ last_free_page = 0 \/ last_free_page - 1 \in used
    /\ \A r \in live : r.start - 1 \in r.below

InRange == \A r \in live : Span(r.start, r.n) \subseteq Pages

IInv == TypeOK /\ Loop /\ Hint /\ InRange /\ BitmapExact

LEMMA PageZero == ASSUME TypeOK, BitmapExact PROVE 0 \in used
  BY PmmAssumption DEF TypeOK, BitmapExact

LEMMA InitIInv == Init => IInv
  BY PmmAssumption DEF Init, IInv, TypeOK, Loop, Hint, InRange, BitmapExact

-----------------------------------------------------------------------------
(* The search *)

LEMMA LimitBound == ASSUME TypeOK PROVE Limit \in Nat /\ Limit <= max_pages
  BY PmmAssumption DEF TypeOK, Limit

\* Nothing but the search's own variables changes while it goes on.
LEMMA SearchFrame ==
  ASSUME IInv, SkipWord \/ PageUsed \/ PageFree
  PROVE  Hint' /\ InRange' /\ BitmapExact' /\ Lo' = Lo
  BY DEF IInv, SkipWord, PageUsed, PageFree, Hint, InRange, BitmapExact, Lo

LEMMA SkipWordStep == ASSUME IInv, SkipWord PROVE IInv'
<1> USE PmmAssumption DEF IInv
<1>1. TypeOK'
  BY DEF SkipWord, TypeOK
<1>2. Hint' /\ InRange' /\ BitmapExact' /\ Lo' = Lo
  BY SearchFrame
<1>3. Lo \in Nat /\ Lo <= i
  BY DEF TypeOK, Lo, Loop, SkipWord
<1>4. NoRunIn(Lo, i, pages)'
  <2> SUFFICES ASSUME NEW s \in Pages, Lo <= s, s + pages <= i + WORD, FreeRun(s, pages)
               PROVE  FALSE
    BY <1>2 DEF SkipWord, NoRunIn, FreeRun
  <2>1. s + pages > i
    BY <1>3 DEF Loop, SkipWord, NoRunIn, TypeOK, Pages
  <2>2. pages > 0
    BY DEF Loop, SkipWord, Collected, TypeOK
  <2>3. s + pages - 1 \in Span(s, pages) /\ s + pages - 1 \in Span(i, WORD)
    BY <2>1, <2>2 DEF Span, Pages, TypeOK
  <2> QED BY <2>3 DEF SkipWord, Skippable, WordFull, FreeRun
<1>5. Collected'
  <2>1. i + WORD - 1 \in Span(i, WORD) /\ i + WORD - 1 \in Nat
    BY DEF Span, TypeOK
  <2>2. i + WORD - 1 \in Pages => i + WORD - 1 \in used
    BY <2>1 DEF SkipWord, Skippable, WordFull
  <2>3. i + WORD - 1 \in used \/ i + WORD > max_pages
    BY <2>1, <2>2 DEF Pages, TypeOK
  <2> QED BY <2>3 DEF SkipWord, Skippable, Collected, Loop, TypeOK
<1>6. Loop'
  BY <1>2, <1>3, <1>4, <1>5 DEF Loop, SkipWord, NoRunIn, FreeRun, TypeOK
<1> QED BY <1>1, <1>2, <1>6

LEMMA PageUsedStep == ASSUME IInv, PageUsed PROVE IInv'
<1> USE PmmAssumption DEF IInv
<1>1. TypeOK'
  BY DEF PageUsed, TypeOK
<1>2. Hint' /\ InRange' /\ BitmapExact' /\ Lo' = Lo
  BY SearchFrame
<1>3. Lo \in Nat /\ Lo <= i
  BY DEF TypeOK, Lo, Loop, PageUsed
<1>4. NoRunIn(Lo, i, pages)'
  <2> SUFFICES ASSUME NEW s \in Pages, Lo <= s, s + pages <= i + 1, FreeRun(s, pages)
               PROVE  FALSE
    BY <1>2 DEF PageUsed, NoRunIn, FreeRun
  <2>1. s + pages > i
    BY <1>3 DEF Loop, PageUsed, NoRunIn, TypeOK, Pages
  <2>2. pages > 0
    BY DEF Loop, PageUsed, Collected, TypeOK
  <2>3. i \in Span(s, pages)
    BY <2>1, <2>2 DEF Span, Pages, TypeOK
  <2> QED BY <2>3 DEF PageUsed, FreeRun
<1>5. Collected'
  BY DEF PageUsed, Collected, Loop, TypeOK
<1>6. Loop'
  BY <1>2, <1>3, <1>4, <1>5 DEF Loop, PageUsed, NoRunIn, FreeRun, TypeOK
<1> QED BY <1>1, <1>2, <1>6

\* A clear bit at i makes the pages from RunStart to i free.
LEMMA RunSoFar ==
  ASSUME IInv, pc # "idle", i < Limit, i \notin used
  PROVE  /\ RunStart \in Nat
         /\ RunStart = i - consecutive
         /\ Lo <= RunStart
         /\ RunStart = Lo \/ RunStart - 1 \in used
         /\ Span(RunStart, consecutive + 1) \subseteq Pages \ used
<1> USE PmmAssumption DEF IInv
<1>1. i \in Pages /\ consecutive \in Nat /\ start_bit \in Nat /\ Lo \in Nat
  BY LimitBound DEF TypeOK, Pages, Lo
<1>2. CASE consecutive = 0
  BY <1>1, <1>2 DEF RunStart, Loop, Collected, Span, Pages
<1>3. CASE consecutive > 0
  <2>1. RunStart = start_bit /\ start_bit = i - consecutive
    BY <1>1, <1>3 DEF RunStart, Loop, Collected
  <2>2. ASSUME NEW k \in Span(RunStart, consecutive + 1) PROVE k \in Pages \ used
    <3>1. k = i \/ k \in Span(start_bit, consecutive)
      BY <1>1, <2>1 DEF Span, Pages
    <3> QED BY <1>1, <1>3, <3>1 DEF Loop, Collected
  <2> QED BY <1>1, <1>3, <2>1, <2>2 DEF Loop, Collected
<1> QED BY <1>1, <1>2, <1>3

LEMMA PageFreeStep == ASSUME IInv, PageFree PROVE IInv'
<1> USE PmmAssumption DEF IInv
<1>0. /\ RunStart \in Nat /\ RunStart = i - consecutive /\ Lo <= RunStart
      /\ RunStart = Lo \/ RunStart - 1 \in used
      /\ Span(RunStart, consecutive + 1) \subseteq Pages \ used
  BY RunSoFar DEF PageFree
<1>1. TypeOK'
  BY <1>0 DEF PageFree, TypeOK
<1>2. Hint' /\ InRange' /\ BitmapExact' /\ Lo' = Lo
  BY SearchFrame
<1>3. Lo \in Nat /\ Lo <= i /\ pages \in Nat /\ consecutive < pages
  BY DEF TypeOK, Lo, Loop, Collected, PageFree
<1>4. NoRunIn(Lo, i, pages)'
  <2> SUFFICES ASSUME NEW s \in Pages, Lo <= s, s + pages <= i + 1, FreeRun(s, pages)
               PROVE  FALSE
    BY <1>2 DEF PageFree, NoRunIn, FreeRun
  <2>1. s + pages > i
    BY <1>3 DEF Loop, PageFree, NoRunIn, TypeOK, Pages
  <2>2. s < RunStart
    BY <1>0, <1>3, <2>1 DEF PageFree, TypeOK, Pages
  <2>3. RunStart - 1 \in used /\ RunStart - 1 \in Span(s, pages)
    BY <1>0, <1>3, <2>1, <2>2 DEF Span, Pages, TypeOK
  <2> QED BY <2>3 DEF FreeRun
<1>5. Collected'
  BY <1>0, <1>2, <1>3 DEF PageFree, Collected, TypeOK
<1>6. Loop'
  BY <1>2, <1>3, <1>4, <1>5 DEF Loop, PageFree, NoRunIn, FreeRun, TypeOK
<1> QED BY <1>1, <1>2, <1>6

LEMMA FoundStep == ASSUME IInv, Found PROVE IInv'
<1> USE PmmAssumption DEF IInv
<1> DEFINE new == [start |-> RunStart, n |-> pages, below |-> Below]
<1>0. /\ RunStart \in Nat /\ RunStart = i - consecutive /\ Lo <= RunStart
      /\ RunStart = Lo \/ RunStart - 1 \in used
      /\ Span(RunStart, pages) \subseteq Pages \ used
  BY RunSoFar DEF Found
<1>1. /\ pages \in Nat \ {0} /\ i \in Pages /\ consecutive \in Nat
      /\ RunStart + pages = i + 1 /\ RunStart \in Pages
  BY <1>0, LimitBound DEF Found, TypeOK, Pages
<1>2. new \in Runs
  BY <1>1 DEF Runs, Below, TypeOK
<1>3. TypeOK'
  <2>1. used' \in SUBSET Pages /\ live' \in SUBSET Runs
    BY <1>0, <1>2 DEF Found, TypeOK
  <2>2. last_free_page' \in 0 .. max_pages
    BY <1>0, <1>1 DEF Found, Pages
  <2> QED BY <2>1, <2>2 DEF Found, Return, TypeOK
<1>4. Loop'
  BY DEF Found, Return, Loop
<1>5. InRange'
  BY <1>0 DEF Found, InRange
<1>6. BitmapExact'
  <2>1. used' = used \cup Span(new.start, new.n) /\ live' = live \cup {new}
        /\ reserved' = reserved
    BY DEF Found
  <2>2. \A r \in live : Span(r.start, r.n) \subseteq used
    BY DEF BitmapExact
  <2>3. Span(new.start, new.n) \cap used = {} /\ reserved \subseteq used
    BY <1>0 DEF BitmapExact
  <2> HIDE DEF new
  <2>4. used' = reserved' \cup UNION {Span(r.start, r.n) : r \in live'}
    BY <2>1 DEF BitmapExact
  <2>5. \A r \in live' : Span(r.start, r.n) \cap reserved' = {}
    BY <2>1, <2>3 DEF BitmapExact
  <2>6. ASSUME NEW r \in live', NEW s \in live', r # s
        PROVE  Span(r.start, r.n) \cap Span(s.start, s.n) = {}
    BY <2>1, <2>2, <2>3, <2>6 DEF BitmapExact
  <2> QED BY <2>4, <2>5, <2>6 DEF BitmapExact
<1>7. Hint'
  <2> SUFFICES ASSUME nested
               PROVE  last_free_page' - 1 \in used' /\ \A r \in live' : r.start - 1 \in r.below
    BY DEF Hint, Found
  <2>1. last_free_page' - 1 \in used'
    BY <1>1 DEF Found, Span, Pages
  <2>2. 0 \in used
    BY PageZero
  <2>3. RunStart # 0
    BY <1>0, <1>1, <2>2 DEF Span
  <2>4. RunStart - 1 \in used
    BY <1>0, <2>3 DEF Lo, Hint
  <2>5. new.start - 1 \in new.below
    BY <2>4 DEF Below
  <2> QED BY <2>1, <2>5 DEF Found, Hint
<1> QED BY <1>3, <1>4, <1>5, <1>6, <1>7

LEMMA StartOverStep == ASSUME IInv, StartOver PROVE IInv'
<1> USE PmmAssumption DEF IInv
<1>1. TypeOK' /\ InRange' /\ BitmapExact' /\ Hint'
  BY DEF StartOver, TypeOK, InRange, BitmapExact, Hint
<1>2. pages \in Nat \ {0}
  BY DEF StartOver, TypeOK, Loop, Collected
<1>3. NoRunIn(0, 0, pages)'
  BY <1>2 DEF StartOver, NoRunIn, Pages
<1>4. NoRunIn(search_limit, max_pages, pages)'
  BY DEF StartOver, NoRunIn, Loop, Lo, Limit, FreeRun, TypeOK, Pages
<1>5. nested => (search_limit - 1 \in used)'
  BY DEF StartOver, Hint
<1>6. Collected'
  BY <1>2 DEF StartOver, Collected, Lo
<1>7. Loop'
  BY <1>3, <1>4, <1>5, <1>6 DEF StartOver, Loop, Lo
<1> QED BY <1>1, <1>7

LEMMA FreeStep == ASSUME IInv, NEW r \in live, pmm_free(r) PROVE IInv'
<1> USE PmmAssumption DEF IInv
<1>1. /\ r \in Runs /\ r.start \in Nat /\ r.n \in Nat \ {0}
      /\ Span(r.start, r.n) \subseteq Pages
  BY DEF TypeOK, InRange, Runs, Pages
<1>2. used' = used \ Span(r.start, r.n)
  BY <1>1 DEF pmm_free, Pages, TypeOK
<1>3. TypeOK'
  BY <1>1, <1>2 DEF pmm_free, TypeOK
<1>4. InRange' /\ Loop'
  BY DEF pmm_free, InRange, Loop
<1>5. BitmapExact'
  <2>1. used' = (reserved \cup UNION {Span(s.start, s.n) : s \in live})'
    BY <1>2 DEF pmm_free, BitmapExact
  <2> QED BY <2>1 DEF pmm_free, BitmapExact
<1>6. Hint'
  <2> SUFFICES ASSUME nested
               PROVE  last_free_page' = 0 \/ last_free_page' - 1 \in used'
    BY DEF pmm_free, Hint
  <2>1. used = r.below \cup Span(r.start, r.n)
    BY DEF pmm_free, MayFree
  <2>2. r.start - 1 \in used /\ r.start - 1 \notin Span(r.start, r.n)
    BY <1>1, <2>1 DEF Hint, Span
  <2>3. last_free_page <= r.start => last_free_page - 1 \notin Span(r.start, r.n)
    BY <1>1 DEF Span, TypeOK
  <2> QED BY <1>1, <1>2, <2>2, <2>3 DEF pmm_free, Hint, TypeOK
<1> QED BY <1>3, <1>4, <1>5, <1>6

LEMMA NextIInv == IInv /\ [Next]_vars => IInv'
<1> SUFFICES ASSUME IInv, [Next]_vars PROVE IInv'
  OBVIOUS
<1>1. ASSUME NEW n \in 1 .. MaxRequest, pmm_alloc(n) PROVE IInv'
  <2> USE PmmAssumption DEF IInv
  <2>1. TypeOK' /\ InRange' /\ BitmapExact' /\ Hint'
    BY <1>1 DEF pmm_alloc, TypeOK, InRange, BitmapExact, Hint
  <2>2. NoRunIn(Lo, i, pages)'
    BY <1>1 DEF pmm_alloc, NoRunIn, Lo, TypeOK, Pages
  <2>3. Loop'
    BY <1>1, <2>2 DEF pmm_alloc, Loop, Collected, Lo, TypeOK
  <2> QED BY <2>1, <2>3
<1>2. CASE Search
  <2>1. CASE GiveUp
    BY <2>1, PmmAssumption DEF GiveUp, Return, IInv, TypeOK, Loop, Hint, InRange, BitmapExact
  <2> QED BY <1>2, <2>1, SkipWordStep, PageUsedStep, PageFreeStep, FoundStep,
             StartOverStep DEF Search
<1>3. ASSUME NEW r \in live, pmm_free(r) PROVE IInv'
  BY <1>3, FreeStep
<1>4. CASE UNCHANGED vars
  BY <1>4 DEF vars, IInv, TypeOK, Loop, Lo, NoRunIn, FreeRun, Collected, Hint, InRange,
     BitmapExact
<1> QED BY <1>1, <1>2, <1>3, <1>4 DEF Next

\* The loop invariant of the two passes and the facts about hint and bitmap
\* hold in every state.
THEOREM Inductive == Spec => []IInv
  BY InitIInv, NextIInv, PTL DEF Spec

\* The variables of pmm.c keep their types: the hint never exceeds max_pages
\* and no bit outside the bitmap is set.
THEOREM TypeCorrect == Spec => []TypeOK
<1>1. IInv => TypeOK
  BY DEF IInv
<1> QED BY <1>1, Inductive, PTL

\* The bits that are set are those of the reserved pages and of the runs
\* granted and not released, and no page has two owners.
THEOREM BitmapIsExact == Spec => []BitmapExact
<1>1. IInv => BitmapExact
  BY DEF IInv
<1> QED BY <1>1, Inductive, PTL

-----------------------------------------------------------------------------
(* What a refusal means *)

\* A pass that started at page 0 and reached the end has seen every run.
LEMMA FirstPassIsComplete ==
  ASSUME IInv, pc = "pass1", last_free_page = 0, i >= Limit, NEW s \in Pages
  PROVE  ~ FreeRun(s, pages)
<1> USE PmmAssumption DEF IInv
<1>1. pages \in Nat \ {0} /\ NoRunIn(0, i, pages) /\ i >= max_pages
  BY DEF Loop, Lo, Collected, TypeOK, Limit
<1> SUFFICES ASSUME FreeRun(s, pages) PROVE FALSE
  OBVIOUS
<1>2. s + pages - 1 \in Pages
  BY <1>1 DEF FreeRun, Span, Pages
<1> QED BY <1>1, <1>2 DEF NoRunIn, Pages, TypeOK

\* The two passes together have seen every run, except those that lie across
\* the hint; under nested releases there is none of these.
LEMMA BothPassesMiss ==
  ASSUME IInv, pc = "pass2", i >= Limit, NEW s \in Pages
  PROVE  ~ FreeRun(s, Abstract!Slack(pages))
<1> USE PmmAssumption DEF IInv
<1>1. /\ pages \in Nat \ {0} /\ search_limit \in 0 .. max_pages /\ s \in Nat
      /\ NoRunIn(0, search_limit, pages)
      /\ NoRunIn(search_limit, max_pages, pages)
      /\ nested => search_limit - 1 \in used
  BY DEF Loop, Lo, Collected, TypeOK, Limit, NoRunIn, Pages
<1> SUFFICES ASSUME FreeRun(s, Abstract!Slack(pages)) PROVE FALSE
  OBVIOUS
<1>2. CASE nested
  <2>1. FreeRun(s, pages)
    BY <1>2 DEF Abstract!Slack
  <2>2. s + pages - 1 \in Pages
    BY <1>1, <2>1 DEF FreeRun, Span, Pages
  <2>3. ~ (s + pages <= search_limit) /\ ~ (search_limit <= s)
    BY <1>1, <2>1, <2>2 DEF NoRunIn, Pages
  <2>4. search_limit - 1 \in Span(s, pages)
    BY <1>1, <2>3 DEF Span
  <2> QED BY <1>1, <1>2, <2>1, <2>4 DEF FreeRun
<1>3. CASE ~ nested
  <2>1. FreeRun(s, 2 * pages - 1)
    BY <1>3 DEF Abstract!Slack
  <2>2. s + 2 * pages - 2 \in Pages
    BY <1>1, <2>1 DEF FreeRun, Span, Pages
  <2>3. FreeRun(s, pages) /\ FreeRun(s + pages - 1, pages)
    BY <1>1, <2>1 DEF FreeRun, Span
  <2>4. s + pages - 1 \in Pages
    BY <1>1, <2>2 DEF Pages
  <2> QED BY <1>1, <2>2, <2>3, <2>4 DEF NoRunIn, Pages
<1> QED BY <1>2, <1>3

\* A NULL from a call that started with the hint at 0 is final.
THEOREM RetryExact == Spec => RetryIsExact
<1> DEFINE Final == pc = "pass1" /\ pc' = "idle" /\ live' = live
                      => \A s \in Pages : ~ FreeRun(s, pages)
<1>1. ASSUME IInv, [Next]_vars PROVE [Final]_vars
  <2> SUFFICES ASSUME pc = "pass1", pc' = "idle", live' = live, NEW s \in Pages
               PROVE  ~ FreeRun(s, pages)
    OBVIOUS
  <2>1. ~ Found
    <3> SUFFICES ASSUME Found PROVE FALSE
      OBVIOUS
    <3>1. /\ Span(RunStart, pages) \cap used = {} /\ RunStart \in Nat
          /\ pages \in Nat \ {0}
      BY <1>1, RunSoFar DEF Found, IInv, TypeOK, Loop, Collected
    <3>2. [start |-> RunStart, n |-> pages, below |-> Below] \in live
      BY DEF Found
    <3>3. Span(RunStart, pages) \subseteq used
      BY <1>1, <3>2 DEF IInv, BitmapExact
    <3>4. RunStart \in Span(RunStart, pages)
      BY <3>1 DEF Span
    <3> QED BY <3>1, <3>3, <3>4
  <2>2. GiveUp /\ last_free_page = 0 /\ i >= Limit
    BY <1>1, <2>1 DEF Next, Search, vars, pmm_alloc, pmm_free, SkipWord, PageUsed, PageFree,
       StartOver, GiveUp
  <2> QED BY <1>1, <2>2, FirstPassIsComplete
<1> QED BY <1>1, Inductive, PTL DEF Spec, RetryIsExact

-----------------------------------------------------------------------------
(* The refinement *)

\* The runs as the abstract allocator sees them.
Shown == {[start |-> r.start, n |-> r.n] : r \in live}

LEMMA HeldIsUsed == ASSUME IInv PROVE Abstract!Held = used
<1> DEFINE A == UNION {Abstract!Span(q.start, q.n) : q \in Shown}
           B == UNION {Span(r.start, r.n) : r \in live}
<1>1. A = B
  <2>1. ASSUME NEW k \in A PROVE k \in B
    <3>1. PICK q \in Shown : k \in Abstract!Span(q.start, q.n)
      OBVIOUS
    <3>2. PICK r \in live : q = [start |-> r.start, n |-> r.n]
      BY DEF Shown
    <3>3. k \in Span(r.start, r.n)
      BY <3>1, <3>2 DEF Abstract!Span, Span
    <3> QED BY <3>3
  <2>2. ASSUME NEW k \in B PROVE k \in A
    <3>1. PICK r \in live : k \in Span(r.start, r.n)
      OBVIOUS
    <3>2. [start |-> r.start, n |-> r.n] \in Shown
      BY DEF Shown
    <3>3. k \in Abstract!Span([start |-> r.start, n |-> r.n].start,
                              [start |-> r.start, n |-> r.n].n)
      BY <3>1 DEF Abstract!Span, Span
    <3> QED BY <3>2, <3>3
  <2> HIDE DEF A, B
  <2> QED BY <2>1, <2>2
<1> QED BY <1>1 DEF Abstract!Held, Shown, IInv, BitmapExact

LEMMA FreeRunsAgree ==
  ASSUME IInv, NEW s, NEW n PROVE Abstract!FreeRun(s, n) <=> FreeRun(s, n)
  BY HeldIsUsed DEF Abstract!FreeRun, FreeRun, Abstract!Span, Span, Pages

\* Every step of the search, of pmm_alloc and of pmm_free is a step of the
\* abstract allocator, or leaves what it shows unchanged; in particular NULL
\* is returned only if no run of Slack(n) pages is free.
THEOREM Refinement == Spec => ImplementsPageAlloc
<1>1. Init => Abstract!Init
  BY PmmAssumption DEF Init, Abstract!Init
<1>2. ASSUME IInv, [Next]_vars PROVE [Abstract!Next]_(Abstract!vars)
  <2> USE PmmAssumption
  <2>1. ASSUME NEW n \in 1 .. MaxRequest, pmm_alloc(n) PROVE Abstract!Next
    <3>1. Abstract!Request(n)
      BY <2>1 DEF pmm_alloc, Abstract!Request
    <3> QED BY <3>1 DEF Abstract!Next
  <2>2. CASE SkipWord \/ PageUsed \/ PageFree \/ StartOver
    BY <2>2 DEF SkipWord, PageUsed, PageFree, StartOver, Abstract!vars
  <2>3. CASE Found
    <3>1. /\ RunStart \in Pages /\ pages # 0
          /\ Span(RunStart, pages) \subseteq Pages \ used
      <4>1. /\ RunStart \in Nat /\ pages \in Nat \ {0}
            /\ Span(RunStart, pages) \subseteq Pages \ used
        BY <1>2, <2>3, RunSoFar DEF Found, IInv, TypeOK, Loop, Collected
      <4>2. RunStart \in Span(RunStart, pages)
        BY <4>1 DEF Span
      <4> QED BY <4>1, <4>2
    <3>2. Abstract!FreeRun(RunStart, pages)
      BY <1>2, <3>1, FreeRunsAgree DEF FreeRun
    <3> DEFINE new == [start |-> RunStart, n |-> pages, below |-> Below]
    <3>3. Shown' = Shown \cup {[start |-> RunStart, n |-> pages]}
      <4>1. live' = live \cup {new} /\ new.start = RunStart /\ new.n = pages
        BY <2>3 DEF Found
      <4> HIDE DEF new
      <4>2. Shown' = Shown \cup {[start |-> new.start, n |-> new.n]}
        BY <4>1 DEF Shown
      <4> QED BY <4>1, <4>2
    <3>4. PICK k \in 0 .. max_pages - 1 : k = RunStart
      BY <3>1 DEF Pages
    <3>5. Abstract!Grant(k)
      BY <2>3, <3>1, <3>2, <3>3, <3>4 DEF Found, Return, Abstract!Grant, Shown
    <3> QED BY <3>5 DEF Abstract!Next
  <2>4. CASE GiveUp
    <3>1. pc # "idle" /\ pages \in Nat \ {0}
      BY <1>2, <2>4 DEF GiveUp, IInv, Loop, Collected, TypeOK
    <3>2. ASSUME NEW s \in Pages PROVE ~ FreeRun(s, Abstract!Slack(pages))
      <4>1. CASE pc = "pass2"
        BY <1>2, <2>4, <4>1, BothPassesMiss DEF GiveUp
      <4>2. CASE pc = "pass1"
        <5>1. ~ FreeRun(s, pages)
          BY <1>2, <2>4, <4>2, FirstPassIsComplete DEF GiveUp
        <5>2. FreeRun(s, Abstract!Slack(pages)) => FreeRun(s, pages)
          BY <3>1 DEF Abstract!Slack, FreeRun, Span, Pages
        <5> QED BY <5>1, <5>2
      <4> QED BY <2>4, <4>1, <4>2 DEF GiveUp
    <3>3. \A s \in 0 .. max_pages - 1 : ~ Abstract!FreeRun(s, Abstract!Slack(pages))
      BY <1>2, <3>2, FreeRunsAgree DEF Pages
    <3>4. Abstract!Refuse
      BY <2>4, <3>1, <3>3 DEF GiveUp, Return, Abstract!Refuse
    <3> QED BY <3>4 DEF Abstract!Next
  <2>5. ASSUME NEW r \in live, pmm_free(r) PROVE Abstract!Next
    <3> DEFINE q == [start |-> r.start, n |-> r.n]
    <3>1. q \in Shown
      BY DEF Shown
    <3>2. Shown' = Shown \ {q}
      <4>1. \A s \in live : s # r => [start |-> s.start, n |-> s.n] # q
        <5> SUFFICES ASSUME NEW s \in live, s # r, s.start = r.start, s.n = r.n
                     PROVE  FALSE
          OBVIOUS
        <5>1. Span(r.start, r.n) \cap Span(s.start, s.n) = {}
          BY <1>2 DEF IInv, BitmapExact
        <5>2. r.start \in Span(r.start, r.n)
          BY <1>2 DEF IInv, TypeOK, Runs, Pages, Span
        <5> QED BY <5>1, <5>2
      <4>2. live' = live \ {r}
        BY <2>5 DEF pmm_free
      <4> QED BY <4>1, <4>2 DEF Shown
    <3>3. Abstract!Release(q)
      BY <2>5, <3>2 DEF pmm_free, Abstract!Release, Shown
    <3> QED BY <3>1, <3>3 DEF Abstract!Next, Shown
  <2>6. CASE UNCHANGED vars
    BY <2>6 DEF vars, Abstract!vars
  <2> QED BY <1>2, <2>1, <2>2, <2>3, <2>4, <2>5, <2>6 DEF Next, Search
<1> QED BY <1>1, <1>2, Inductive, PTL DEF Spec, Abstract!Spec, ImplementsPageAlloc
=============================================================================
