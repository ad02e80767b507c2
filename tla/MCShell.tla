------------------------------ MODULE MCShell ------------------------------
(* A line of five characters, one command word, one other letter, on a     *)
(* screen of two lines of four columns of which three are visible.         *)
(* task1 draws in two cells of the second line.  The user never presses    *)
(* Esc, or presses neither tab nor the other letter.                       *)
EXTENDS Shell

CONSTANT Letter   \* that one

MiddleOfScreen == <<2, 1>>

VARIABLE used   \* the keys that the user presses

MCInit ==
  /\ Init
  /\ used \in {Keys \ {Escape}, Keys \ {Tab, Letter}}

MCNext ==
  /\ ShowPrompt \/ (\E c \in used : Key(c)) \/ task1 \/ Run
  /\ UNCHANGED used

MCSpec == MCInit /\ [][MCNext]_<<vars, used>>
=============================================================================
