------------------------------ MODULE KeyQueue ------------------------------
(***************************************************************************)
(* What get_key promises its caller: the characters typed come out in the  *)
(* order they were typed, each once; a character is lost only when Cap of  *)
(* them are waiting.                                                       *)
(***************************************************************************)
EXTENDS Integers, Sequences

CONSTANTS
  Chars,   \* the characters
  Cap,     \* how many of them can wait
  None     \* no character

VARIABLES
  queue,   \* the characters that wait
  hand,    \* the character taken out and not yet returned, or None
  lost     \* the number of characters lost, modulo 2: a loss is a visible step

vars == <<queue, hand, lost>>

Init ==
  /\ queue = <<>>
  /\ hand = None
  /\ lost = 0

Put(c) ==
  /\ Len(queue) < Cap
  /\ queue' = Append(queue, c)
  /\ UNCHANGED <<hand, lost>>

Lose ==
  /\ Len(queue) = Cap
  /\ lost' = 1 - lost
  /\ UNCHANGED <<queue, hand>>

Take ==
  /\ hand = None
  /\ queue # <<>>
  /\ hand' = Head(queue)
  /\ queue' = Tail(queue)
  /\ UNCHANGED lost

GiveToCaller ==
  /\ hand # None
  /\ hand' = None
  /\ UNCHANGED <<queue, lost>>

Next ==
  \/ \E c \in Chars : Put(c)
  \/ Lose
  \/ Take
  \/ GiveToCaller

Spec == Init /\ [][Next]_vars
=============================================================================
