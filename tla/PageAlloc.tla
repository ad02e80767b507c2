----------------------------- MODULE PageAlloc -----------------------------
(***************************************************************************)
(* What a caller of pmm_alloc and pmm_free (src/kernel/mm/pmm.h) may rely  *)
(* on, without the bitmap and the search: a request is answered with a run *)
(* of pages that nobody else holds, or refused; a run goes back as a whole.*)
(***************************************************************************)
EXTENDS Integers

CONSTANTS
  max_pages,   \* number of page frames
  MaxRequest   \* bound on the size of a request

VARIABLES
  nested,      \* whether the youngest run is always released first
  reserved,    \* the pages that are never handed out
  live,        \* the runs handed out and not yet released
  pending      \* the size of the request being served, 0 if there is none

vars == <<nested, reserved, live, pending>>

\* The pages of a run.
Span(s, n) == s .. s + n - 1

Held == reserved \cup UNION {Span(r.start, r.n) : r \in live}

FreeRun(s, n) == Span(s, n) \subseteq (0 .. max_pages - 1) \ Held

\* A request for n pages is refused only if no run of Slack(n) consecutive
\* pages is free.
Slack(n) == IF nested THEN n ELSE 2 * n - 1

Init ==
  /\ nested \in BOOLEAN
  /\ 0 \in reserved
  /\ live = {}
  /\ pending = 0

Request(n) ==
  /\ pending = 0
  /\ pending' = n
  /\ UNCHANGED <<nested, reserved, live>>

Grant(s) ==
  /\ pending # 0
  /\ FreeRun(s, pending)
  /\ live' = live \cup {[start |-> s, n |-> pending]}
  /\ pending' = 0
  /\ UNCHANGED <<nested, reserved>>

Refuse ==
  /\ pending # 0
  /\ \A s \in 0 .. max_pages - 1 : ~ FreeRun(s, Slack(pending))
  /\ pending' = 0
  /\ UNCHANGED <<nested, reserved, live>>

Release(r) ==
  /\ pending = 0
  /\ live' = live \ {r}
  /\ UNCHANGED <<nested, reserved, pending>>

Next ==
  \/ \E n \in 1 .. MaxRequest : Request(n)
  \/ \E s \in 0 .. max_pages - 1 : Grant(s)
  \/ Refuse
  \/ \E r \in live : Release(r)

Spec == Init /\ [][Next]_vars
=============================================================================
