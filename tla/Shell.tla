------------------------------- MODULE Shell -------------------------------
(***************************************************************************)
(* The command line of src/kernel/core/shell.c: the keys that get_key      *)
(* returns are edited into a fixed buffer of characters, echoed on the     *)
(* terminal (Tty), and the finished line is taken apart with strtok and by *)
(* adding the length of the command word to the address of the buffer.     *)
(*                                                                         *)
(* A command word is modelled by one letter, so that its argument starts   *)
(* at chars + 2; in the code it is chars + 6 for touch, chars + 4 for cat  *)
(* and chars + 5 for exec, in each case the length of the word plus one.   *)
(***************************************************************************)
EXTENDS Integers, Sequences, SequencesExt

CONSTANTS
  LINE,      \* sizeof(chars) (128 in the code)
  Letters,   \* the other characters, those with a glyph
  Words,     \* the letters that name a command with an argument
  Space, Tab, Backspace, Newline,
  Escape,    \* the character 27 of the Esc key, which has no glyph
  Prompt,    \* the character '>'
  NUL,       \* the character 0
  COLS, ROWS, FBCOLS, FBROWS, CHAR_W,  \* see Tty
  Middle,    \* column and row of task1's counter (80 and 45 in the code)
  LABEL      \* length of the text before it (15)

T == INSTANCE Tty WITH Printable <- Letters \cup {Prompt}

\* A line and the prompt fit the screen.
ASSUME ShellAssumption ==
  /\ LINE \in Nat /\ LINE > 3 /\ Words \subseteq Letters
  /\ {COLS, ROWS, FBCOLS, FBROWS, CHAR_W} \subseteq Nat \ {0}
  /\ LINE + 2 < COLS * ROWS
  /\ LABEL \in Nat /\ Middle \in Nat \X Nat /\ LABEL < Middle[1]

\* The characters are different ones, and none is called like a picture.
ASSUME CharsAssumption ==
  /\ Letters \cap {Space, Tab, Escape, Backspace, Newline, Prompt, NUL} = {}
  /\ Space \notin {Tab, Escape, Backspace, Newline, Prompt, NUL}
  /\ Escape \notin {Tab, Backspace, Newline, Prompt, NUL}
  /\ Tab \notin {Backspace, Newline, Prompt, NUL}
  /\ Prompt \notin {Backspace, Newline} /\ Backspace # Newline
  /\ Letters \cap {"blank", "cursor", "old", "counter"} = {}

VARIABLES
  chars, i,  \* the buffer and the cursor
  pc,        \* "prompt", "edit", or "run" when a line is complete
  term,      \* the terminal
  home,      \* history: the position behind the prompt
  bent,      \* history: a tab was typed in this line, or a backspace found the
             \* cursor in the top left corner of the screen
  typed,     \* history: the line as the user means it
  ran        \* what the last line made the shell do

vars == <<chars, i, pc, term, home, bent, typed, ran>>

Typeable == Letters \cup {Space, Tab, Escape}
Keys == Typeable \cup {Backspace, Newline}

Zeroed == [k \in 0 .. LINE - 1 |-> NUL]
Nothing == [what |-> "nothing", arg |-> <<>>, line |-> <<>>]

\* The number of a position of the screen, line by line.
Place(t) == t.cy * COLS + t.cx

TypeOK ==
  /\ chars \in [0 .. LINE - 1 -> Typeable \cup {NUL}]
  /\ i \in 0 .. LINE - 1
  /\ pc \in {"prompt", "edit", "run"}
  /\ term \in T!Terminals
  /\ home \in 0 .. COLS * ROWS - 1
  /\ bent \in BOOLEAN
  /\ typed \in Seq(Typeable) /\ Len(typed) = i
  /\ ran \in [what : {"nothing", "command", "unknown"},
              arg : Seq(Typeable), line : Seq(Typeable)]

\* The terminal after some output: the cursor is anywhere.
AfterOutput ==
  [cx : 0 .. COLS - 1, cy : 0 .. ROWS - 1, cell : {[v \in T!Visible |-> "old"]}]

\* The log of the kernel is on the screen.
Init ==
  /\ chars = Zeroed
  /\ i = 0
  /\ pc = "prompt"
  /\ term \in AfterOutput
  /\ home = 0
  /\ bent = FALSE
  /\ typed = <<>>
  /\ ran = Nothing

\* puts("> ")
ShowPrompt ==
  /\ pc = "prompt"
  /\ term' = T!tty_puts(term, <<Prompt, Space>>)
  /\ home' = Place(term')
  /\ ran' = Nothing
  /\ pc' = "edit"
  /\ UNCHANGED <<chars, i, bent, typed>>

\* The cursor moves back; the character stays in the buffer.
Erase ==
  /\ i > 0
  /\ i' = i - 1
  /\ term' = T!tty_putc(term, Backspace)
  /\ bent' = (bent \/ Place(term) = 0)
  /\ typed' = Front(typed)
  /\ UNCHANGED <<chars, pc, home, ran>>

\* The buffer is full: the line is cut here, and the key is lost.
LineFull ==
  /\ i >= LINE - 1
  /\ chars' = [chars EXCEPT ![i] = NUL]
  /\ pc' = "run"
  /\ UNCHANGED <<i, term, home, bent, typed, ran>>

\* Mutant of Enter: the newline is dropped, but no 0 is put in its place.
Enter_NoTerminator ==
  /\ i < LINE - 1
  /\ term' = T!tty_putc(term, Newline)
  /\ pc' = "run"
  /\ UNCHANGED <<chars, i, home, bent, typed, ran>>

\* The newline is echoed, stored and then replaced by 0.
Enter ==
  /\ i < LINE - 1
  /\ term' = T!tty_putc(term, Newline)
  /\ chars' = [chars EXCEPT ![i] = NUL]
  /\ pc' = "run"
  /\ UNCHANGED <<i, home, bent, typed, ran>>

\* Mutant of Store: room for the final 0 is not kept.
Store_NoRoom(c) ==
  /\ i < LINE
  /\ term' = T!tty_putc(term, c)
  /\ chars' = [chars EXCEPT ![i] = c]
  /\ i' = i + 1
  /\ bent' = (bent \/ c = Tab)
  /\ typed' = Append(typed, c)
  /\ UNCHANGED <<pc, home, ran>>

Store(c) ==
  /\ i < LINE - 1
  /\ term' = T!tty_putc(term, c)
  /\ chars' = [chars EXCEPT ![i] = c]
  /\ i' = i + 1
  /\ bent' = (bent \/ c = Tab)
  /\ typed' = Append(typed, c)
  /\ UNCHANGED <<pc, home, ran>>

\* Where task1 draws: the label, a gap and the digit.
Counter == ((Middle[1] - LABEL - 1 .. Middle[1]) \ {Middle[1] - 1}) \X {Middle[2]}

\* While the shell waits for a key it yields, and task1 draws its counter.
task1 ==
  LET cleared == T!fbcstr(term, Middle[1], Middle[2], <<"blank">>)
      label == T!fbcstr(cleared, Middle[1] - LABEL - 1, Middle[2], [k \in 1 .. LABEL |-> "counter"])
  IN
  /\ pc = "edit"
  /\ term' = T!fbcstr(label, Middle[1], Middle[2], <<"counter">>)
  /\ UNCHANGED <<chars, i, pc, home, bent, typed, ran>>

\* One turn of the editing loop with the key c from get_key.
Key(c) ==
  /\ pc = "edit"
  /\ \/ c = Backspace /\ Erase
     \/ c # Backspace /\ LineFull
     \/ c = Newline /\ Enter
     \/ c \in Typeable /\ Store(c)

\* The C string at an address of the buffer.
CString(b, from) ==
  LET end == CHOOSE e \in from .. LINE - 1 :
               b[e] = NUL /\ \A k \in from .. e - 1 : b[k] # NUL
  IN [k \in 1 .. end - from |-> b[from + k - 1]]

\* Mutants of Cut: the line is not cut; every space is cut.
Cut_Nothing(b) == b

Cut_EverySpace(b) == [k \in DOMAIN b |-> IF b[k] = Space THEN NUL ELSE b[k]]

\* strtok(chars, " ") ends the first word by overwriting the space behind it.
Cut(b) ==
  LET line == CString(b, 0)
      gap == SelectInSeq(line, LAMBDA c : c = Space)
  IN IF gap = 0 THEN b ELSE [b EXCEPT ![gap - 1] = NUL]

\* The chain of comparisons: a command runs with chars + 2 as its argument;
\* another word is reported, unless it is empty.  What is printed is left open;
\* clear makes the screen empty.
\* Then the loop starts again: memset(chars, 0, sizeof(chars)), i = 0.
Run ==
  LET b == Cut(chars)
      word == CString(b, 0)
      known == Len(word) = 1 /\ word[1] \in Words
  IN
  /\ pc = "run"
  /\ ran' = [what |-> IF known THEN "command"
                      ELSE IF word # <<>> THEN "unknown" ELSE "nothing",
             arg  |-> IF known THEN CString(b, 2) ELSE <<>>,
             line |-> typed]
  /\ term' \in AfterOutput \cup {T!tty_clear(term)}
  /\ chars' = Zeroed
  /\ i' = 0
  /\ home' = 0
  /\ bent' = FALSE
  /\ typed' = <<>>
  /\ pc' = "prompt"

Next == ShowPrompt \/ (\E c \in Keys : Key(c)) \/ task1 \/ Run

Spec == Init /\ [][Next]_vars

-----------------------------------------------------------------------------
(* Properties *)

\* When a line is complete, the string in chars is the line the user has
\* typed, whatever was erased and typed over before, and also when the buffer
\* ran full.
LineIsTyped == pc = "run" => CString(chars, 0) = typed

\* Where the k-th character of the line is shown.
At(k) == LET n == (home + k) % (COLS * ROWS) IN <<n % COLS, n \div COLS>>

\* The echo is exact at every moment: of the characters on the screen that were
\* typed in this line, each is at its place, there are no others, and the
\* cursor is behind the last one.  This holds across the ends of lines and,
\* unless the line is edited back over it, the end of the screen; not for lines
\* with a tab, which backspace takes back by one column only, and not where
\* task1 draws its counter over the text.
EchoIsExact ==
  pc # "prompt" /\ ~ bent =>
    /\ {<<v, term.cell[v]>> : v \in {u \in T!Visible \ Counter : term.cell[u] \in Letters}}
         = {<<At(k), chars[k]>> :
              k \in {j \in 0 .. i - 1 : chars[j] \in Letters /\ At(j) \in T!Visible \ Counter}}
    /\ pc = "edit" => Place(term) = (home + i) % (COLS * ROWS)

\* The shell decides by what was typed: it runs a command exactly if the first
\* word of the line names one.
CommandIsFirstWord ==
  LET n == SelectInSeq(ran.line, LAMBDA c : c = Space)
      first == IF n = 0 THEN ran.line ELSE SubSeq(ran.line, 1, n - 1)
  IN ran.what = "command" <=> Len(first) = 1 /\ first[1] \in Words

\* If the line goes on after the command word, the argument is the rest of it.
ArgumentIsRest ==
  ran.what = "command" /\ Len(ran.line) > 1
    => ran.arg = SubSeq(ran.line, 3, Len(ran.line))

\* A command gets as its argument what the line has behind the command word,
\* and nothing if it ends there.
ArgumentIsTyped ==
  ran.what = "command" => ran.arg = SubSeq(ran.line, 3, Len(ran.line))
=============================================================================
