---------------------------- MODULE ShellProofs ----------------------------
(***************************************************************************)
(* The command line for buffers and screens of every size, every sequence  *)
(* of keys, and task1 drawing between any two of them.                     *)
(***************************************************************************)
EXTENDS Shell, SequenceTheorems, WellFoundedInduction, TLAPS

-----------------------------------------------------------------------------
(* Strings in the buffer *)

Buffers == [0 .. LINE - 1 -> Typeable \cup {NUL}]

LEMMA NulIsNotTyped == NUL \notin Typeable
  BY CharsAssumption DEF Typeable

\* Every set of numbers has a least one.
LEMMA Least ==
  ASSUME NEW A \in SUBSET Nat, A # {}
  PROVE  \E m \in A : \A k \in A : m <= k
<1>1. PICK m \in A : \A k \in A : ~ (<<k, m>> \in OpToRel(<, Nat))
  BY NatLessThanWellFounded, WFMin
<1>2. ASSUME NEW k \in A PROVE m <= k
  <2>1. k < m => <<k, m>> \in OpToRel(<, Nat)
    BY DEF OpToRel
  <2>2. ~ (k < m)
    BY <1>1, <2>1
  <2> QED BY <2>2
<1> QED BY <1>2

\* The string at an address ends at the first 0 behind it.
LEMMA CStringIs ==
  ASSUME NEW b \in Buffers, NEW from \in Nat, NEW e \in from .. LINE - 1,
         b[e] = NUL, \A k \in from .. e - 1 : b[k] # NUL
  PROVE  CString(b, from) = [k \in 1 .. e - from |-> b[from + k - 1]]
<1>1. LINE \in Nat
  BY ShellAssumption
<1>2. ASSUME NEW d \in from .. LINE - 1, b[d] = NUL, \A k \in from .. d - 1 : b[k] # NUL
      PROVE  d = e
  <2>1. ~ (d < e)
    BY <1>1, <1>2
  <2>2. ~ (e < d)
    BY <1>1, <1>2
  <2> QED BY <1>1, <2>1, <2>2
<1>3. (CHOOSE d \in from .. LINE - 1 : b[d] = NUL /\ \A k \in from .. d - 1 : b[k] # NUL) = e
  BY <1>2
<1> QED BY <1>3 DEF CString

\* With a 0 in its last byte the buffer holds a string at every address.
LEMMA CStringType ==
  ASSUME NEW b \in Buffers, b[LINE - 1] = NUL, NEW from \in 0 .. LINE - 1
  PROVE  CString(b, from) \in Seq(Typeable)
<1>1. LINE \in Nat /\ LINE > 3
  BY ShellAssumption
<1> DEFINE A == {e \in from .. LINE - 1 : b[e] = NUL}
<1>2. A \in SUBSET Nat /\ A # {}
  BY <1>1
<1> HIDE DEF A
<1>3. PICK e \in A : \A k \in A : e <= k
  BY <1>2, Least
<1> USE DEF A
<1>4. e \in from .. LINE - 1 /\ b[e] = NUL
  OBVIOUS
<1>5. ASSUME NEW k \in from .. e - 1 PROVE b[k] # NUL /\ b[k] \in Typeable
  <2>1. k \in from .. LINE - 1 /\ k \in 0 .. LINE - 1 /\ ~ (e <= k)
    BY <1>1, <1>4
  <2>2. b[k] # NUL
    BY <1>3, <2>1
  <2> QED BY <2>1, <2>2 DEF Buffers
<1>6. CString(b, from) = [k \in 1 .. e - from |-> b[from + k - 1]]
  BY <1>1, <1>4, <1>5, CStringIs
<1>7. \A k \in 1 .. e - from : b[from + k - 1] \in Typeable
  <2> SUFFICES ASSUME NEW k \in 1 .. e - from PROVE b[from + k - 1] \in Typeable
    OBVIOUS
  <2>1. from + k - 1 \in from .. e - 1
    BY <1>1, <1>4
  <2> QED BY <1>5, <2>1
<1>8. e - from \in Nat
  BY <1>1, <1>4
<1> QED BY <1>6, <1>7, <1>8

\* A buffer that starts with the characters of s, and then a 0, holds s.
LEMMA CStringOf ==
  ASSUME NEW b \in Buffers, NEW s \in Seq(Typeable), Len(s) <= LINE - 1,
         \A k \in 1 .. Len(s) : b[k - 1] = s[k], b[Len(s)] = NUL
  PROVE  CString(b, 0) = s
<1>1. LINE \in Nat /\ Len(s) \in Nat /\ Len(s) \in 0 .. LINE - 1
  BY ShellAssumption
<1>2. ASSUME NEW k \in 0 .. Len(s) - 1 PROVE b[k] # NUL
  <2>1. k + 1 \in 1 .. Len(s) /\ (k + 1) - 1 = k
    BY <1>1
  <2>2. b[k] = s[k + 1] /\ s[k + 1] \in Typeable
    BY <2>1
  <2> QED BY <2>2, NulIsNotTyped
<1>3. CString(b, 0) = [k \in 1 .. Len(s) - 0 |-> b[0 + k - 1]]
  BY <1>1, <1>2, CStringIs
<1>4. s = [k \in 1 .. Len(s) |-> s[k]]
  OBVIOUS
<1>5. \A k \in 1 .. Len(s) : b[0 + k - 1] = s[k]
  BY <1>1
<1> QED BY <1>1, <1>3, <1>4, <1>5

\* The place of the first space in a line.
Gap(s) == SelectInSeq(s, LAMBDA c : c = Space)

LEMMA GapIs ==
  ASSUME NEW s \in Seq(Typeable)
  PROVE  /\ Gap(s) \in 0 .. Len(s)
         /\ Gap(s) # 0 => s[Gap(s)] = Space
<1> DEFINE I == {k \in 1 .. Len(s) : s[k] = Space}
<1>1. Gap(s) = IF I # {} THEN Min(I) ELSE 0
  BY DEF Gap, SelectInSeq
<1>2. CASE I = {}
  BY <1>1, <1>2
<1>3. CASE I # {}
  <2>1. I \in SUBSET Nat
    OBVIOUS
  <2> HIDE DEF I
  <2>2. Min(I) \in I
    BY <1>3, <2>1, Least DEF Min
  <2> QED BY <1>1, <1>3, <2>2 DEF I
<1> QED BY <1>2, <1>3

\* The first word of a line.
First(s) == IF Gap(s) = 0 THEN s ELSE SubSeq(s, 1, Gap(s) - 1)

\* The line as strtok leaves it: the first word, and behind its space the rest.
LEMMA CutIs ==
  ASSUME NEW b \in Buffers, b[LINE - 1] = NUL, NEW s \in Seq(Typeable), Len(s) <= LINE - 1,
         \A k \in 1 .. Len(s) : b[k - 1] = s[k], b[Len(s)] = NUL
  PROVE  /\ Cut(b) \in Buffers /\ Cut(b)[LINE - 1] = NUL
         /\ CString(Cut(b), 0) = First(s) /\ First(s) \in Seq(Typeable)
         /\ Len(First(s)) = 1 /\ Len(s) > 1 => CString(Cut(b), 2) = SubSeq(s, 3, Len(s))
<1> DEFINE g == Gap(s)
           c == Cut(b)
<1>1. LINE \in Nat /\ LINE > 3 /\ Len(s) \in Nat
  BY ShellAssumption
<1>2. c = IF g = 0 THEN b ELSE [b EXCEPT ![g - 1] = NUL]
  <2>1. CString(b, 0) = s
    BY CStringOf
  <2> QED BY <2>1 DEF Cut, Gap
<1>3. g \in 0 .. Len(s)
  BY GapIs
<1>4. CString(b, 0) = s
  BY CStringOf
<1> HIDE DEF g, c
<1>5. CASE g = 0
  <2>1. First(s) = s /\ c = b
    BY <1>2, <1>5 DEF First, g
  <2>2. ASSUME Len(s) = 1, Len(s) > 1 PROVE FALSE
    BY <1>1, <2>2
  <2> QED BY <1>4, <2>1, <2>2 DEF c
<1>6. CASE g # 0
  <2> DEFINE first == SubSeq(s, 1, g - 1)
  <2>1. g \in 1 .. Len(s) /\ g - 1 \in 0 .. LINE - 1 /\ g - 1 \in Nat
    BY <1>1, <1>3, <1>6
  <2>2. c \in Buffers /\ c[g - 1] = NUL /\ \A k \in 0 .. LINE - 1 : k # g - 1 => c[k] = b[k]
    BY <1>2, <1>6, <2>1 DEF Buffers
  <2>3. first \in Seq(Typeable) /\ Len(first) = g - 1 /\ \A k \in 1 .. g - 1 : first[k] = s[k]
    <3>1. \A k \in 1 .. g - 1 : s[k] \in Typeable
      BY <1>1, <2>1
    <3> QED BY <1>1, <2>1, <3>1, SubSeqProperties
  <2> HIDE DEF first
  <2>4. CString(c, 0) = first
    <3>1. ASSUME NEW k \in 1 .. Len(first) PROVE c[k - 1] = first[k]
      <4>1. k \in 1 .. Len(s) /\ k - 1 \in 0 .. LINE - 1 /\ k - 1 # g - 1 /\ k \in 1 .. g - 1
        BY <1>1, <2>1, <2>3
      <4> QED BY <2>2, <2>3, <4>1
    <3>2. Len(first) <= LINE - 1 /\ c[Len(first)] = NUL
      BY <1>1, <2>1, <2>2, <2>3
    <3> QED BY <2>2, <2>3, <3>1, <3>2, CStringOf
  <2>5. ASSUME Len(first) = 1 PROVE CString(c, 2) = SubSeq(s, 3, Len(s))
    <3> DEFINE e == Len(s)
               sub == SubSeq(s, 3, e)
    <3>1. g = 2 /\ e \in Nat /\ e >= 2 /\ e \in 2 .. LINE - 1 /\ e - 2 \in Nat
      <4>1. g - 1 = 1
        BY <2>3, <2>5
      <4>2. g = 2 /\ g <= e
        BY <1>1, <2>1, <4>1
      <4> QED BY <1>1, <4>2
    <3>2. c[e] = NUL
      BY <1>1, <2>2, <3>1
    <3>3. ASSUME NEW k \in 2 .. e - 1 PROVE c[k] # NUL /\ c[k] = s[k + 1]
      <4>1. k + 1 \in 1 .. Len(s) /\ (k + 1) - 1 = k /\ k \in 0 .. LINE - 1 /\ k # g - 1
        BY <1>1, <3>1
      <4>2. c[k] = s[k + 1] /\ s[k + 1] \in Typeable
        BY <2>2, <4>1
      <4> QED BY <4>2, NulIsNotTyped
    <3>4. CString(c, 2) = [k \in 1 .. e - 2 |-> c[2 + k - 1]]
      BY <2>2, <3>1, <3>2, <3>3, CStringIs
    <3>5. sub \in Seq(Typeable) /\ Len(sub) = e - 2 /\ \A k \in 1 .. e - 2 : sub[k] = s[k + 2]
      <4>1. \A k \in 3 .. e : s[k] \in Typeable
        BY <3>1
      <4>2. /\ sub \in Seq(Typeable) /\ Len(sub) = IF 3 <= e THEN e - 3 + 1 ELSE 0
            /\ \A k \in 1 .. e - 3 + 1 : sub[k] = s[3 + k - 1]
        BY <3>1, <4>1, SubSeqProperties
      <4> HIDE DEF sub, e
      <4>3. \A k \in 1 .. e - 2 : sub[k] = s[3 + k - 1] /\ 3 + k - 1 = k + 2
        BY <3>1, <4>2
      <4> QED BY <3>1, <4>2, <4>3
    <3> HIDE DEF sub, e
    <3>6. \A k \in 1 .. e - 2 : c[2 + k - 1] = sub[k]
      <4> SUFFICES ASSUME NEW k \in 1 .. e - 2 PROVE c[2 + k - 1] = sub[k]
        OBVIOUS
      <4>1. 2 + k - 1 \in 2 .. e - 1 /\ (2 + k - 1) + 1 = k + 2
        BY <3>1
      <4> QED BY <3>3, <3>5, <4>1
    <3>7. sub = [k \in 1 .. e - 2 |-> sub[k]]
      BY <3>5
    <3> QED BY <3>4, <3>6, <3>7 DEF sub, e
  <2>6. c[LINE - 1] = NUL
    BY <1>1, <2>1, <2>2
  <2>7. First(s) = first
    BY <1>6 DEF First, first, g
  <2> QED BY <2>2, <2>3, <2>4, <2>5, <2>6, <2>7 DEF c
<1> QED BY <1>5, <1>6

-----------------------------------------------------------------------------
(* The terminal *)

Screen == COLS * ROWS

LEMMA ScreenSizes ==
  COLS \in Nat \ {0} /\ ROWS \in Nat \ {0} /\ CHAR_W \in Nat \ {0} /\ Screen \in Nat \ {0}
<1>1. COLS \in Nat \ {0} /\ ROWS \in Nat \ {0} /\ CHAR_W \in Nat \ {0}
  BY ShellAssumption
<1> QED BY <1>1 DEF Screen

LEMMA TermFields ==
  ASSUME NEW t \in T!Terminals
  PROVE  /\ t.cx \in 0 .. COLS - 1 /\ t.cy \in 0 .. ROWS - 1
         /\ t.cell \in [T!Visible -> T!Glyphs]
  BY DEF T!Terminals

\* A position is a column and a row, and back.
LEMMA PlaceIs ==
  ASSUME NEW x \in 0 .. COLS - 1, NEW y \in 0 .. ROWS - 1
  PROVE  /\ y * COLS + x \in 0 .. Screen - 1
         /\ (y * COLS + x) % COLS = x /\ (y * COLS + x) \div COLS = y
<1>1. COLS \in Nat \ {0} /\ ROWS \in Nat \ {0}
  BY ScreenSizes
<1>2. y \in Nat /\ x \in Nat
  BY <1>1
<1>3. (y * COLS + x) % COLS = x /\ (y * COLS + x) \div COLS = y
  BY <1>1, <1>2
<1> QED BY <1>1, <1>3 DEF Screen

\* Drawing changes one cell.
LEMMA PutIs ==
  ASSUME NEW t \in T!Terminals, NEW x, NEW y, NEW g \in T!Glyphs
  PROVE  LET u == T!fbcputchar(t, x, y, g) IN
         /\ u \in T!Terminals /\ u.cx = t.cx /\ u.cy = t.cy
         /\ \A v \in T!Visible : u.cell[v] = IF v = <<x, y>> THEN g ELSE t.cell[v]
  BY DEF T!fbcputchar, T!Terminals

LEMMA NextLineIs ==
  ASSUME NEW t \in T!Terminals
  PROVE  T!NextLine(t) \in T!Terminals /\ T!NextLine(t).cell = t.cell
<1> DEFINE y == IF t.cy + 1 >= ROWS THEN 0 ELSE t.cy + 1
<1>1. y \in 0 .. ROWS - 1 /\ 0 \in 0 .. COLS - 1
  BY TermFields, ScreenSizes
<1>2. T!NextLine(t) = [t EXCEPT !.cx = 0, !.cy = y]
  BY DEF T!NextLine
<1> HIDE DEF y
<1> QED BY <1>1, <1>2 DEF T!Terminals

\* One step forward goes to the next position, from the last one to the first.
LEMMA ForwardIs ==
  ASSUME NEW t \in T!Terminals, NEW n \in Nat
  PROVE  LET u == T!Forward(t, n) IN
         /\ u \in T!Terminals /\ u.cell = t.cell
         /\ n = 1 => Place(u) = (Place(t) + 1) % Screen
<1> DEFINE u == T!Forward(t, n)
<1>1. t.cx \in 0 .. COLS - 1 /\ t.cy \in 0 .. ROWS - 1
  BY TermFields
<1>2. u \in T!Terminals /\ u.cell = t.cell
  <2>1. CASE t.cx + n >= COLS
    BY <2>1, NextLineIs DEF T!Forward
  <2>2. CASE ~ (t.cx + n >= COLS)
    <3>1. t.cx + n \in 0 .. COLS - 1
      BY <1>1, <2>2, ScreenSizes
    <3> QED BY <2>2, <3>1 DEF T!Forward, T!Terminals
  <2> QED BY <2>1, <2>2
<1>3. ASSUME n = 1 PROVE Place(u) = (Place(t) + 1) % Screen
  <2>1. Place(t) = t.cy * COLS + t.cx /\ Place(t) \in 0 .. Screen - 1
    BY <1>1, PlaceIs DEF Place
  <2>2. CASE t.cx + 1 >= COLS /\ t.cy + 1 >= ROWS
    <3>1. u.cx = 0 /\ u.cy = 0
      BY <1>3, <2>2 DEF T!Forward, T!NextLine, T!Terminals
    <3>2. Place(t) + 1 = Screen
      <4>1. t.cx = COLS - 1 /\ t.cy = ROWS - 1
        BY <1>1, <2>2, ScreenSizes
      <4> QED BY <2>1, <4>1, ScreenSizes DEF Screen
    <3>3. Screen % Screen = 0 /\ 0 * COLS + 0 = 0
      BY ScreenSizes
    <3> QED BY <3>1, <3>2, <3>3 DEF Place
  <2>3. CASE t.cx + 1 >= COLS /\ t.cy + 1 < ROWS
    <3>1. u.cx = 0 /\ u.cy = t.cy + 1
      BY <1>1, <1>3, <2>3, ScreenSizes DEF T!Forward, T!NextLine, T!Terminals
    <3>2. Place(u) = Place(t) + 1
      <4>1. t.cx = COLS - 1
        BY <1>1, <2>3, ScreenSizes
      <4>2. (t.cy + 1) * COLS + 0 = (t.cy * COLS + (COLS - 1)) + 1
        BY <1>1, ScreenSizes
      <4> QED BY <2>1, <3>1, <4>1, <4>2 DEF Place
    <3>3. Place(u) \in 0 .. Screen - 1
      <4>1. u.cx \in 0 .. COLS - 1 /\ u.cy \in 0 .. ROWS - 1
        BY <1>2, TermFields
      <4> QED BY <4>1, PlaceIs DEF Place
    <3> QED BY <2>1, <3>2, <3>3, ScreenSizes
  <2>4. CASE t.cx + 1 < COLS
    <3>1. u.cx = t.cx + 1 /\ u.cy = t.cy
      BY <1>1, <1>3, <2>4, ScreenSizes DEF T!Forward, T!Terminals
    <3>2. Place(u) = Place(t) + 1
      <4>1. t.cy * COLS \in Int
        BY <1>1, ScreenSizes
      <4> QED BY <1>1, <2>1, <3>1, <4>1, ScreenSizes DEF Place
    <3>3. Place(u) \in 0 .. Screen - 1
      <4>1. u.cx \in 0 .. COLS - 1 /\ u.cy \in 0 .. ROWS - 1
        BY <1>2, TermFields
      <4> QED BY <4>1, PlaceIs DEF Place
    <3> QED BY <2>1, <3>2, <3>3, ScreenSizes
  <2> QED BY <1>1, <2>2, <2>3, <2>4, ScreenSizes
<1> QED BY <1>2, <1>3

\* One step back undoes it, except in the top left corner.
LEMMA BackIs ==
  ASSUME NEW t \in T!Terminals
  PROVE  LET u == T!Back(t) IN
         /\ u \in T!Terminals /\ u.cell = t.cell
         /\ Place(t) # 0 => Place(u) = Place(t) - 1
<1> DEFINE u == T!Back(t)
<1>1. t.cx \in 0 .. COLS - 1 /\ t.cy \in 0 .. ROWS - 1
  BY TermFields
<1>2. Place(t) = t.cy * COLS + t.cx
  BY DEF Place
<1>3. CASE t.cx >= 1
  <2>1. u = [t EXCEPT !.cx = t.cx - 1] /\ t.cx - 1 \in 0 .. COLS - 1
    BY <1>1, <1>3, ScreenSizes DEF T!Back
  <2>2. u \in T!Terminals /\ u.cell = t.cell /\ u.cx = t.cx - 1 /\ u.cy = t.cy
    BY <2>1 DEF T!Terminals
  <2>3. t.cy * COLS \in Int
    BY <1>1, ScreenSizes
  <2>4. Place(u) = Place(t) - 1
    BY <1>1, <1>2, <2>2, <2>3, ScreenSizes DEF Place
  <2> QED BY <2>2, <2>4
<1>4. CASE t.cx = 0 /\ t.cy >= 1
  <2>1. /\ u = [t EXCEPT !.cy = t.cy - 1, !.cx = COLS - 1]
        /\ t.cy - 1 \in 0 .. ROWS - 1 /\ COLS - 1 \in 0 .. COLS - 1
    BY <1>1, <1>4, ScreenSizes DEF T!Back
  <2>2. u \in T!Terminals /\ u.cell = t.cell /\ u.cx = COLS - 1 /\ u.cy = t.cy - 1
    BY <2>1 DEF T!Terminals
  <2>3. (t.cy - 1) * COLS + (COLS - 1) = (t.cy * COLS + 0) - 1
    BY <1>1, ScreenSizes
  <2>4. Place(u) = Place(t) - 1
    BY <1>2, <1>4, <2>2, <2>3 DEF Place
  <2> QED BY <2>2, <2>4
<1>5. CASE t.cx = 0 /\ t.cy = 0
  <2>1. u = t
    BY <1>5 DEF T!Back
  <2>2. Place(t) = 0
    BY <1>2, <1>5, ScreenSizes
  <2> QED BY <2>1, <2>2
<1> QED BY <1>1, <1>3, <1>4, <1>5, ScreenSizes

\* The cells that every tty_putc clears or covers.
Under(t) == <<t.cx, t.cy>>
Beside(t) == <<t.cx + 1, t.cy>>

LEMMA GlyphsAre ==
  /\ {"blank", "cursor", "old", "counter"} \subseteq T!Glyphs
  /\ Letters \cup {Prompt} \subseteq T!Glyphs
  BY DEF T!Glyphs

LEMMA CellsDiffer ==
  ASSUME NEW t \in T!Terminals PROVE Under(t) # Beside(t)
  BY TermFields, ScreenSizes DEF Under, Beside

\* A character goes to the cell under the cursor, which moves on by one.
LEMMA PutcCharacter ==
  ASSUME NEW t \in T!Terminals, NEW c, c \notin {Newline, Backspace, Tab}
  PROVE  LET u == T!tty_putc(t, c) IN
         /\ u \in T!Terminals
         /\ Place(u) = (Place(t) + 1) % Screen
         /\ \A v \in T!Visible :
              u.cell[v] = IF v = Under(t) THEN IF c \in Letters \cup {Prompt} THEN c ELSE "blank"
                          ELSE IF v = Beside(t) THEN "cursor" ELSE t.cell[v]
<1> DEFINE under == T!fbcputchar(t, t.cx, t.cy, "blank")
           shown == T!fbcputchar(under, t.cx + 1, t.cy, "cursor")
           drawn == IF c \in Letters \cup {Prompt} THEN T!fbcputchar(shown, t.cx, t.cy, c) ELSE shown
           u == T!Forward(drawn, 1)
<1>1. T!tty_putc(t, c) = u
  BY DEF T!tty_putc
<1>2. /\ under \in T!Terminals /\ under.cx = t.cx /\ under.cy = t.cy
      /\ \A v \in T!Visible : under.cell[v] = IF v = Under(t) THEN "blank" ELSE t.cell[v]
  BY PutIs, GlyphsAre DEF Under
<1> HIDE DEF under
<1>3. /\ shown \in T!Terminals /\ shown.cx = t.cx /\ shown.cy = t.cy
      /\ \A v \in T!Visible : shown.cell[v] = IF v = Beside(t) THEN "cursor" ELSE under.cell[v]
  BY <1>2, PutIs, GlyphsAre DEF Beside
<1> HIDE DEF shown
<1>4. /\ drawn \in T!Terminals /\ drawn.cx = t.cx /\ drawn.cy = t.cy
      /\ \A v \in T!Visible :
           drawn.cell[v] = IF v = Under(t) /\ c \in Letters \cup {Prompt} THEN c ELSE shown.cell[v]
  BY <1>3, PutIs, GlyphsAre DEF Under
<1> HIDE DEF drawn
<1>5. u \in T!Terminals /\ u.cell = drawn.cell /\ Place(u) = (Place(drawn) + 1) % Screen
  BY <1>4, ForwardIs
<1>6. Place(drawn) = Place(t)
  BY <1>4 DEF Place
<1> HIDE DEF u
<1>7. ASSUME NEW v \in T!Visible
      PROVE  u.cell[v] = IF v = Under(t) THEN IF c \in Letters \cup {Prompt} THEN c ELSE "blank"
                         ELSE IF v = Beside(t) THEN "cursor" ELSE t.cell[v]
  BY <1>2, <1>3, <1>4, <1>5, CellsDiffer
<1> QED BY <1>1, <1>5, <1>6, <1>7

\* The other characters clear both cells first.
LEMMA Cleared ==
  ASSUME NEW t \in T!Terminals
  PROVE  LET u == T!fbcputchar(T!fbcputchar(t, t.cx, t.cy, "blank"), t.cx + 1, t.cy, "blank") IN
         /\ u \in T!Terminals /\ Place(u) = Place(t) /\ u.cx = t.cx /\ u.cy = t.cy
         /\ \A v \in T!Visible :
              u.cell[v] = IF v \in {Under(t), Beside(t)} THEN "blank" ELSE t.cell[v]
<1> DEFINE under == T!fbcputchar(t, t.cx, t.cy, "blank")
           u == T!fbcputchar(under, t.cx + 1, t.cy, "blank")
<1>1. /\ under \in T!Terminals /\ under.cx = t.cx /\ under.cy = t.cy
      /\ \A v \in T!Visible : under.cell[v] = IF v = Under(t) THEN "blank" ELSE t.cell[v]
  BY PutIs, GlyphsAre DEF Under
<1> HIDE DEF under
<1>2. /\ u \in T!Terminals /\ u.cx = t.cx /\ u.cy = t.cy
      /\ \A v \in T!Visible : u.cell[v] = IF v = Beside(t) THEN "blank" ELSE under.cell[v]
  BY <1>1, PutIs, GlyphsAre DEF Beside
<1> HIDE DEF u
<1>3. Place(u) = Place(t)
  BY <1>2 DEF Place
<1>4. \A v \in T!Visible : u.cell[v] = IF v \in {Under(t), Beside(t)} THEN "blank" ELSE t.cell[v]
  BY <1>1, <1>2
<1> QED BY <1>2, <1>3, <1>4 DEF u, under

LEMMA PutcNewline ==
  ASSUME NEW t \in T!Terminals
  PROVE  LET u == T!tty_putc(t, Newline) IN
         /\ u \in T!Terminals
         /\ \A v \in T!Visible :
              u.cell[v] = IF v \in {Under(t), Beside(t)} THEN "blank" ELSE t.cell[v]
<1> DEFINE clean == T!fbcputchar(T!fbcputchar(t, t.cx, t.cy, "blank"), t.cx + 1, t.cy, "blank")
<1>1. T!tty_putc(t, Newline) = T!NextLine(clean)
  BY CharsAssumption DEF T!tty_putc
<1>2. /\ clean \in T!Terminals
      /\ \A v \in T!Visible :
           clean.cell[v] = IF v \in {Under(t), Beside(t)} THEN "blank" ELSE t.cell[v]
  BY Cleared
<1> HIDE DEF clean
<1> QED BY <1>1, <1>2, NextLineIs

\* Backspace shows the cursor on the cell before, where it goes.
LEMMA PutcBackspace ==
  ASSUME NEW t \in T!Terminals
  PROVE  LET u == T!tty_putc(t, Backspace) IN
         /\ u \in T!Terminals
         /\ Place(t) # 0 => Place(u) = Place(t) - 1
         /\ \A v \in T!Visible :
              u.cell[v] = IF v = Under(u) THEN "cursor"
                          ELSE IF v \in {Under(t), Beside(t)} THEN "blank" ELSE t.cell[v]
<1> DEFINE clean == T!fbcputchar(T!fbcputchar(t, t.cx, t.cy, "blank"), t.cx + 1, t.cy, "blank")
           back == T!Back(clean)
           u == T!fbcputchar(back, back.cx, back.cy, "cursor")
<1>1. T!tty_putc(t, Backspace) = u
  BY CharsAssumption DEF T!tty_putc
<1>2. /\ clean \in T!Terminals /\ Place(clean) = Place(t)
      /\ \A v \in T!Visible :
           clean.cell[v] = IF v \in {Under(t), Beside(t)} THEN "blank" ELSE t.cell[v]
  BY Cleared
<1> HIDE DEF clean
<1>3. /\ back \in T!Terminals /\ back.cell = clean.cell
      /\ Place(t) # 0 => Place(back) = Place(t) - 1
  BY <1>2, BackIs
<1> HIDE DEF back
<1>4. /\ u \in T!Terminals /\ u.cx = back.cx /\ u.cy = back.cy
      /\ \A v \in T!Visible :
           u.cell[v] = IF v = <<back.cx, back.cy>> THEN "cursor" ELSE back.cell[v]
  BY <1>3, PutIs, GlyphsAre
<1> HIDE DEF u
<1>5. Under(u) = <<back.cx, back.cy>> /\ Place(u) = Place(back)
  BY <1>4 DEF Under, Place
<1> QED BY <1>1, <1>2, <1>3, <1>4, <1>5

\* A tab keeps the cursor on the screen.
LEMMA PutcTab ==
  ASSUME NEW t \in T!Terminals
  PROVE  T!tty_putc(t, Tab) \in T!Terminals
<1> DEFINE clean == T!fbcputchar(T!fbcputchar(t, t.cx, t.cy, "blank"), t.cx + 1, t.cy, "blank")
           tab == T!Forward(clean, T!TabWidth(t.cx))
<1>1. T!tty_putc(t, Tab) = T!fbcputchar(tab, tab.cx, tab.cy, "cursor")
  BY CharsAssumption DEF T!tty_putc
<1>2. clean \in T!Terminals
  BY Cleared
<1> HIDE DEF clean
<1>3. T!TabWidth(t.cx) \in Nat
  <2>1. t.cx * CHAR_W \in Nat
    BY TermFields, ScreenSizes
  <2> QED BY <2>1 DEF T!TabWidth
<1>4. tab \in T!Terminals
  BY <1>2, <1>3, ForwardIs
<1> HIDE DEF tab
<1> QED BY <1>1, <1>4, PutIs, GlyphsAre

\* puts("> "), character by character.
LEMMA PutsPrompt ==
  ASSUME NEW t \in T!Terminals
  PROVE  T!tty_puts(t, <<Prompt, Space>>) = T!tty_putc(T!tty_putc(t, Prompt), Space)
<1> DEFINE s == <<Prompt, Space>>
           t1 == T!tty_putc(t, Prompt)
           t2 == T!tty_putc(t1, Space)
           Rec(f) == f = [k \in 0 .. Len(s) |-> IF k = 0 THEN t ELSE T!tty_putc(f[k - 1], s[k])]
           f == [k \in 0 .. 2 |-> IF k = 0 THEN t ELSE IF k = 1 THEN t1 ELSE t2]
<1>1. Len(s) = 2 /\ s[1] = Prompt /\ s[2] = Space
  OBVIOUS
<1>2. \A k \in 0 .. 2 : k = 0 \/ k = 1 \/ k = 2
  OBVIOUS
<1>3. Rec(f)
  <2>1. f[0] = t /\ f[1] = t1 /\ f[2] = t2
    OBVIOUS
  <2>2. \A k \in 0 .. 2 : f[k] = IF k = 0 THEN t ELSE T!tty_putc(f[k - 1], s[k])
    <3> SUFFICES ASSUME NEW k \in 0 .. 2
                 PROVE  f[k] = IF k = 0 THEN t ELSE T!tty_putc(f[k - 1], s[k])
      OBVIOUS
    <3>1. CASE k = 0
      BY <2>1, <3>1
    <3>2. CASE k = 1
      <4>1. k - 1 = 0
        BY <3>2
      <4> QED BY <1>1, <2>1, <3>2, <4>1
    <3>3. CASE k = 2
      <4>1. k - 1 = 1
        BY <3>3
      <4> QED BY <1>1, <2>1, <3>3, <4>1
    <3> QED BY <1>2, <3>1, <3>2, <3>3
  <2>3. f = [k \in 0 .. 2 |-> f[k]]
    OBVIOUS
  <2> HIDE DEF f
  <2> QED BY <1>1, <2>2, <2>3
<1> DEFINE g == CHOOSE g : Rec(g)
<1>4. Rec(g)
  BY <1>3
<1>5. T!tty_puts(t, s) = g[Len(s)]
  BY DEF T!tty_puts
<1> HIDE DEF g
<1>6. \A k \in 0 .. 2 : g[k] = IF k = 0 THEN t ELSE T!tty_putc(g[k - 1], s[k])
  BY <1>1, <1>4
<1>7. g[0] = t
  BY <1>6
<1>8. g[1] = t1
  <2>1. 1 \in 0 .. 2 /\ 1 - 1 = 0
    OBVIOUS
  <2> QED BY <1>1, <1>6, <1>7, <2>1
<1>9. g[2] = t2
  <2>1. 2 \in 0 .. 2 /\ 2 - 1 = 1
    OBVIOUS
  <2> QED BY <1>1, <1>6, <1>8, <2>1
<1> QED BY <1>1, <1>5, <1>9

NoLetters(t) == \A v \in T!Visible : t.cell[v] \notin Letters

LEMMA PromptShown ==
  ASSUME NEW t \in T!Terminals, NoLetters(t)
  PROVE  LET u == T!tty_puts(t, <<Prompt, Space>>) IN
         u \in T!Terminals /\ NoLetters(u) /\ Place(u) \in 0 .. Screen - 1
<1> DEFINE t1 == T!tty_putc(t, Prompt)
           u == T!tty_putc(t1, Space)
<1>1. Prompt \notin {Newline, Backspace, Tab} /\ Space \notin {Newline, Backspace, Tab}
  BY CharsAssumption
<1>2. /\ Prompt \notin Letters
      /\ \A g \in {"blank", "cursor", "old", "counter"} : g \notin Letters
  BY CharsAssumption
<1>3. Space \notin Letters \cup {Prompt}
  BY CharsAssumption
<1>4. t1 \in T!Terminals /\ NoLetters(t1)
  BY <1>1, <1>2, PutcCharacter DEF NoLetters
<1> HIDE DEF t1
<1>5. u \in T!Terminals /\ NoLetters(u)
  <2>1. /\ u \in T!Terminals
        /\ \A v \in T!Visible : u.cell[v] \in {"blank", "cursor", t1.cell[v]}
    BY <1>1, <1>3, <1>4, PutcCharacter
  <2> HIDE DEF u
  <2> QED BY <1>2, <1>4, <2>1 DEF NoLetters
<1> HIDE DEF u
<1>6. Place(u) \in 0 .. Screen - 1
  <2>1. u.cx \in 0 .. COLS - 1 /\ u.cy \in 0 .. ROWS - 1
    BY <1>5, TermFields
  <2> QED BY <2>1, PlaceIs DEF Place
<1>7. T!tty_puts(t, <<Prompt, Space>>) = u
  BY PutsPrompt DEF u, t1
<1> QED BY <1>5, <1>6, <1>7

\* fbcstr changes the cells of its text only.
LEMMA StringIs ==
  ASSUME NEW t \in T!Terminals, NEW x \in Int, NEW y \in Int, NEW s \in Seq(T!Glyphs)
  PROVE  LET u == T!fbcstr(t, x, y, s) IN
         /\ u \in T!Terminals /\ u.cx = t.cx /\ u.cy = t.cy
         /\ \A v \in T!Visible :
              v[2] # y \/ v[1] - x + 1 \notin 1 .. Len(s) => u.cell[v] = t.cell[v]
<1> DEFINE cell == [v \in T!Visible |->
                      IF v[2] = y /\ v[1] - x + 1 \in DOMAIN s THEN s[v[1] - x + 1] ELSE t.cell[v]]
<1>1. t.cell \in [T!Visible -> T!Glyphs]
  BY TermFields
<1>2. DOMAIN s = 1 .. Len(s) /\ \A k \in 1 .. Len(s) : s[k] \in T!Glyphs
  OBVIOUS
<1>3. cell \in [T!Visible -> T!Glyphs]
  BY <1>1, <1>2
<1>4. \A v \in T!Visible :
        v[2] # y \/ v[1] - x + 1 \notin 1 .. Len(s) => cell[v] = t.cell[v]
  BY <1>2
<1>5. T!fbcstr(t, x, y, s) = [t EXCEPT !.cell = cell]
  BY DEF T!fbcstr
<1> HIDE DEF cell
<1>6. LET u == [t EXCEPT !.cell = cell] IN
      u \in T!Terminals /\ u.cx = t.cx /\ u.cy = t.cy /\ u.cell = cell
  BY <1>3 DEF T!Terminals
<1> QED BY <1>4, <1>5, <1>6

\* What task1 draws is in the cells of its counter.
LEMMA CounterDrawn ==
  ASSUME NEW t \in T!Terminals
  PROVE  LET cleared == T!fbcstr(t, Middle[1], Middle[2], <<"blank">>)
             label == T!fbcstr(cleared, Middle[1] - LABEL - 1, Middle[2],
                               [k \in 1 .. LABEL |-> "counter"])
             u == T!fbcstr(label, Middle[1], Middle[2], <<"counter">>)
         IN
         /\ u \in T!Terminals /\ u.cx = t.cx /\ u.cy = t.cy
         /\ \A v \in T!Visible \ Counter : u.cell[v] = t.cell[v]
<1> DEFINE x == Middle[1]
           y == Middle[2]
           text == [k \in 1 .. LABEL |-> "counter"]
           cleared == T!fbcstr(t, x, y, <<"blank">>)
           label == T!fbcstr(cleared, x - LABEL - 1, y, text)
           u == T!fbcstr(label, x, y, <<"counter">>)
<1>1. x \in Nat /\ y \in Nat /\ LABEL \in Nat /\ LABEL < x /\ x - LABEL - 1 \in Int
  BY ShellAssumption
<1>2. /\ <<"blank">> \in Seq(T!Glyphs) /\ Len(<<"blank">>) = 1
      /\ <<"counter">> \in Seq(T!Glyphs) /\ Len(<<"counter">>) = 1
      /\ text \in Seq(T!Glyphs) /\ Len(text) = LABEL
  BY <1>1, GlyphsAre
<1>3. ASSUME NEW v \in T!Visible \ Counter
      PROVE  /\ v[2] # y \/ v[1] - x + 1 \notin 1 .. 1
             /\ v[2] # y \/ v[1] - (x - LABEL - 1) + 1 \notin 1 .. LABEL
  <2>1. v = <<v[1], v[2]>> /\ v[1] \in Int
    BY DEF T!Visible
  <2>2. v[2] = y => v[1] \notin (x - LABEL - 1 .. x) \ {x - 1}
    BY <2>1 DEF Counter
  <2> QED BY <1>1, <2>1, <2>2
<1> HIDE DEF text, x, y
<1>4. /\ cleared \in T!Terminals /\ cleared.cx = t.cx /\ cleared.cy = t.cy
      /\ \A v \in T!Visible \ Counter : cleared.cell[v] = t.cell[v]
  BY <1>1, <1>2, <1>3, StringIs
<1> HIDE DEF cleared
<1>5. /\ label \in T!Terminals /\ label.cx = t.cx /\ label.cy = t.cy
      /\ \A v \in T!Visible \ Counter : label.cell[v] = t.cell[v]
  BY <1>1, <1>2, <1>3, <1>4, StringIs
<1> HIDE DEF label
<1>6. /\ u \in T!Terminals /\ u.cx = t.cx /\ u.cy = t.cy
      /\ \A v \in T!Visible \ Counter : u.cell[v] = t.cell[v]
  <2> DEFINE digit == <<"counter">>
  <2>1. digit \in Seq(T!Glyphs) /\ Len(digit) = 1
    BY <1>2
  <2>2. u = T!fbcstr(label, x, y, digit)
    OBVIOUS
  <2> HIDE DEF digit, u
  <2>3. x \in Int /\ y \in Int /\ label \in T!Terminals
    BY <1>1, <1>5
  <2>4. /\ u \in T!Terminals /\ u.cx = label.cx /\ u.cy = label.cy
        /\ \A v \in T!Visible :
             v[2] # y \/ v[1] - x + 1 \notin 1 .. Len(digit) => u.cell[v] = label.cell[v]
    BY <2>1, <2>2, <2>3, StringIs, ZenonT(40)
  <2>5. \A v \in T!Visible :
          v[2] # y \/ v[1] - x + 1 \notin 1 .. 1 => u.cell[v] = label.cell[v]
    BY <2>1, <2>4
  <2> QED BY <1>3, <1>5, <2>4, <2>5
<1> QED BY <1>6 DEF u, label, cleared, text, x, y

-----------------------------------------------------------------------------
(* The invariant *)

\* The position of the k-th character of a line that starts at position h.
Pos(h, k) == LET n == (h + k) % Screen IN <<n % COLS, n \div COLS>>

\* Outside of the counter the letters on the screen are those of the first n
\* characters of the buffer b, shown from position h on.
Echoes(t, b, n, h) ==
  \A v \in T!Visible \ Counter :
    /\ t.cell[v] \in Letters => \E k \in 0 .. n - 1 : Pos(h, k) = v /\ b[k] = t.cell[v]
    /\ \A k \in 0 .. n - 1 : Pos(h, k) = v /\ b[k] \in Letters => t.cell[v] = b[k]

\* The buffer holds what was typed.  Behind the cursor may be characters that
\* were erased, but the last byte is never written: every string ends.
LineInv ==
  /\ chars \in Buffers /\ chars[LINE - 1] = NUL
  /\ i \in 0 .. LINE - 1
  /\ typed \in Seq(Typeable) /\ Len(typed) = i
  /\ \A k \in 1 .. i : chars[k - 1] = typed[k]
  /\ pc \in {"prompt", "edit", "run"}
  /\ pc = "run" => chars[i] = NUL
  /\ pc = "prompt" => i = 0

\* What the shell did with a line is what the line says.
Does(r) ==
  /\ r \in [what : {"nothing", "command", "unknown"}, arg : Seq(Typeable), line : Seq(Typeable)]
  /\ r.what = "command" <=> Len(First(r.line)) = 1 /\ First(r.line)[1] \in Words
  /\ r.what = "command" /\ Len(r.line) > 1 => r.arg = SubSeq(r.line, 3, Len(r.line))

\* What the screen shows.
ScreenInv ==
  /\ term \in T!Terminals /\ home \in 0 .. Screen - 1
  /\ pc = "prompt" => NoLetters(term)
  /\ pc = "edit" /\ ~ bent => Place(term) = (home + i) % Screen
  /\ pc # "prompt" /\ ~ bent => Echoes(term, chars, i, home)

IInv == LineInv /\ Does(ran) /\ ScreenInv /\ bent \in BOOLEAN

-----------------------------------------------------------------------------
(* Positions *)

\* A line that reaches the end of the screen goes on at its start.
LEMMA Wrap ==
  ASSUME NEW h \in 0 .. Screen - 1, NEW k \in 0 .. Screen - 1
  PROVE  /\ (h + k) % Screen = IF h + k < Screen THEN h + k ELSE h + k - Screen
         /\ (h + k) % Screen \in 0 .. Screen - 1
  BY ScreenSizes

LEMMA WrapNothing ==
  ASSUME NEW h \in 0 .. Screen - 1 PROVE (h + 0) % Screen = h
  BY ScreenSizes

\* A position number is its row and its column.
LEMMA Digits ==
  ASSUME NEW m \in 0 .. Screen - 1
  PROVE  m = (m \div COLS) * COLS + (m % COLS) /\ m % COLS \in Int /\ m \div COLS \in Int
<1>1. COLS \in Nat \ {0} /\ m \in Nat
  BY ScreenSizes
<1>2. m % COLS \in Int /\ m \div COLS \in Int
  BY <1>1
<1>3. m = COLS * (m \div COLS) + (m % COLS)
  BY <1>1
<1>4. COLS * (m \div COLS) = (m \div COLS) * COLS
  BY <1>1, <1>2
<1> QED BY <1>2, <1>3, <1>4

\* The cursor is on the cell of the next character.
LEMMA UnderIs ==
  ASSUME NEW t \in T!Terminals, NEW h \in 0 .. Screen - 1, NEW n \in Nat,
         Place(t) = (h + n) % Screen
  PROVE  Pos(h, n) = Under(t)
<1>1. t.cx \in 0 .. COLS - 1 /\ t.cy \in 0 .. ROWS - 1
  BY TermFields
<1>2. Place(t) % COLS = t.cx /\ Place(t) \div COLS = t.cy
  BY <1>1, PlaceIs DEF Place
<1> QED BY <1>2 DEF Pos, Under

\* Neither it nor the cell beside it is the cell of an earlier one.
LEMMA BehindIs ==
  ASSUME NEW t \in T!Terminals, NEW h \in 0 .. Screen - 1, NEW n \in Nat, n + 1 < Screen,
         Place(t) = (h + n) % Screen, NEW k \in 0 .. n - 1
  PROVE  Pos(h, k) # Under(t) /\ Pos(h, k) # Beside(t)
<1> DEFINE m == (h + k) % Screen
<1>1. t.cx \in 0 .. COLS - 1 /\ t.cy \in 0 .. ROWS - 1
  BY TermFields
<1>2. Screen \in Nat /\ COLS \in Nat /\ n \in 0 .. Screen - 1 /\ k \in 0 .. Screen - 1
  BY ScreenSizes
<1>3. /\ m = IF h + k < Screen THEN h + k ELSE h + k - Screen
      /\ m \in 0 .. Screen - 1
  BY <1>2, Wrap
<1>4. Place(t) = IF h + n < Screen THEN h + n ELSE h + n - Screen
  BY <1>2, Wrap
<1>5. m # Place(t) /\ m # Place(t) + 1
  BY <1>2, <1>3, <1>4
<1>6. Pos(h, k) = <<m % COLS, m \div COLS>>
  BY DEF Pos
<1> HIDE DEF m
<1>7. m = (m \div COLS) * COLS + (m % COLS) /\ m % COLS \in Int /\ m \div COLS \in Int
  BY <1>3, Digits
<1>8. Place(t) = t.cy * COLS + t.cx /\ t.cy * COLS \in Int
  BY <1>1, <1>2 DEF Place
<1>9. Pos(h, k) = Under(t) => m = Place(t)
  <2> SUFFICES ASSUME Pos(h, k) = Under(t) PROVE m = Place(t)
    OBVIOUS
  <2>1. m % COLS = t.cx /\ m \div COLS = t.cy
    BY <1>6 DEF Under
  <2> QED BY <1>7, <1>8, <2>1, Zenon
<1>10. Pos(h, k) = Beside(t) => m = Place(t) + 1
  <2> SUFFICES ASSUME Pos(h, k) = Beside(t) PROVE m = Place(t) + 1
    OBVIOUS
  <2>1. m % COLS = t.cx + 1 /\ m \div COLS = t.cy
    BY <1>6 DEF Beside
  <2>2. m = t.cy * COLS + (t.cx + 1)
    BY <1>7, <2>1, Zenon
  <2> QED BY <1>1, <1>2, <1>8, <2>2
<1> QED BY <1>5, <1>9, <1>10

\* The next position, and the one before it.
LEMMA Steps ==
  ASSUME NEW h \in 0 .. Screen - 1, NEW n \in 0 .. Screen - 2
  PROVE  /\ (((h + n) % Screen) + 1) % Screen = (h + (n + 1)) % Screen
         /\ (h + (n + 1)) % Screen # 0 => ((h + (n + 1)) % Screen) - 1 = (h + n) % Screen
<1> DEFINE p == (h + n) % Screen
           q == (h + (n + 1)) % Screen
<1>1. Screen \in Nat /\ n \in 0 .. Screen - 1 /\ n + 1 \in 0 .. Screen - 1 /\ 1 \in 0 .. Screen - 1
  BY ScreenSizes
<1>2. p = (IF h + n < Screen THEN h + n ELSE h + n - Screen) /\ p \in 0 .. Screen - 1
  BY <1>1, Wrap
<1>3. q = (IF h + (n + 1) < Screen THEN h + (n + 1) ELSE h + (n + 1) - Screen)
  BY <1>1, Wrap
<1> HIDE DEF p, q
<1>4. (p + 1) % Screen = IF p + 1 < Screen THEN p + 1 ELSE p + 1 - Screen
  BY <1>1, <1>2, Wrap
<1>5. (p + 1) % Screen = q
  BY <1>1, <1>2, <1>3, <1>4
<1>6. q # 0 => q - 1 = p
  BY <1>1, <1>2, <1>3
<1> QED BY <1>5, <1>6 DEF p, q

\* The line is shorter than the screen.
LEMMA LineFits ==
  ASSUME NEW n \in 0 .. LINE - 1
  PROVE  n \in Nat /\ n + 2 < Screen /\ n \in 0 .. Screen - 2 /\ n \in 0 .. Screen - 1
<1>1. LINE \in Nat /\ Screen \in Nat /\ LINE + 2 < Screen
  BY ShellAssumption, ScreenSizes DEF Screen
<1> QED BY <1>1

LEMMA PicturesAreNoLetters ==
  "blank" \notin Letters /\ "cursor" \notin Letters /\ "old" \notin Letters
  BY CharsAssumption

\* A character that is stored is shown at its place.
LEMMA EchoStore ==
  ASSUME NEW t \in T!Terminals, NEW b \in Buffers, NEW n \in 0 .. LINE - 2,
         NEW h \in 0 .. Screen - 1, NEW c \in Letters \cup {Space, Escape},
         Place(t) = (h + n) % Screen, Echoes(t, b, n, h)
  PROVE  /\ Place(T!tty_putc(t, c)) = (h + (n + 1)) % Screen
         /\ Echoes(T!tty_putc(t, c), [b EXCEPT ![n] = c], n + 1, h)
<1> DEFINE u == T!tty_putc(t, c)
           d == [b EXCEPT ![n] = c]
<1>1. LINE \in Nat /\ n \in 0 .. LINE - 1
  BY ShellAssumption
<1>2. n \in Nat /\ n + 1 < Screen /\ n \in 0 .. Screen - 2 /\ Screen \in Nat
  BY <1>1, LineFits, ScreenSizes
<1>3. /\ Place(u) = (Place(t) + 1) % Screen
      /\ \A v \in T!Visible :
           u.cell[v] = IF v = Under(t) THEN IF c \in Letters \cup {Prompt} THEN c ELSE "blank"
                       ELSE IF v = Beside(t) THEN "cursor" ELSE t.cell[v]
  BY CharsAssumption, PutcCharacter
<1> HIDE DEF u
<1>4. Place(u) = (h + (n + 1)) % Screen
  BY <1>2, <1>3, Steps
<1>5. Pos(h, n) = Under(t) /\ \A k \in 0 .. n - 1 : Pos(h, k) # Under(t) /\ Pos(h, k) # Beside(t)
  BY <1>2, UnderIs, BehindIs
<1>6. d[n] = c /\ \A k \in 0 .. n - 1 : d[k] = b[k]
  BY <1>1 DEF Buffers
<1>7. \A k \in 0 .. (n + 1) - 1 : k \in 0 .. n - 1 \/ k = n
  BY <1>2
<1>8. n \in 0 .. (n + 1) - 1 /\ \A k \in 0 .. n - 1 : k \in 0 .. (n + 1) - 1
  BY <1>2
<1> HIDE DEF d
<1>9. ASSUME NEW v \in T!Visible \ Counter, u.cell[v] \in Letters
      PROVE  \E k \in 0 .. (n + 1) - 1 : Pos(h, k) = v /\ d[k] = u.cell[v]
  <2>1. CASE v = Under(t)
    <3>1. u.cell[v] = c
      BY <1>3, <1>9, <2>1, PicturesAreNoLetters
    <3> QED BY <1>5, <1>6, <1>8, <2>1, <3>1
  <2>2. CASE v # Under(t)
    <3>1. u.cell[v] = t.cell[v]
      BY <1>3, <1>9, <2>2, PicturesAreNoLetters
    <3>2. PICK k \in 0 .. n - 1 : Pos(h, k) = v /\ b[k] = t.cell[v]
      BY <1>9, <3>1 DEF Echoes
    <3>3. Pos(h, k) = v /\ d[k] = u.cell[v] /\ k \in 0 .. (n + 1) - 1
      BY <1>6, <1>8, <3>1, <3>2
    <3> QED BY <3>3
  <2> QED BY <2>1, <2>2
<1>10. ASSUME NEW v \in T!Visible \ Counter, NEW k \in 0 .. (n + 1) - 1,
              Pos(h, k) = v, d[k] \in Letters
       PROVE  u.cell[v] = d[k]
  <2>1. CASE k = n
    BY <1>3, <1>5, <1>6, <1>10, <2>1
  <2>2. CASE k # n
    <3>1. k \in 0 .. n - 1
      BY <1>7, <2>2
    <3>2. v # Under(t) /\ v # Beside(t) /\ d[k] = b[k]
      BY <1>5, <1>6, <1>10, <3>1
    <3>3. t.cell[v] = b[k]
      BY <1>10, <3>1, <3>2 DEF Echoes
    <3> QED BY <1>3, <3>2, <3>3
  <2> QED BY <2>1, <2>2
<1>11. Echoes(u, d, n + 1, h)
  BY <1>9, <1>10 DEF Echoes
<1> QED BY <1>4, <1>11 DEF u, d

\* Backspace takes the last character off the screen.
LEMMA EchoErase ==
  ASSUME NEW t \in T!Terminals, NEW b \in Buffers, NEW n \in 0 .. LINE - 2,
         NEW h \in 0 .. Screen - 1,
         Place(t) = (h + (n + 1)) % Screen, Place(t) # 0, Echoes(t, b, n + 1, h)
  PROVE  /\ Place(T!tty_putc(t, Backspace)) = (h + n) % Screen
         /\ Echoes(T!tty_putc(t, Backspace), b, n, h)
<1> DEFINE u == T!tty_putc(t, Backspace)
<1>1. LINE \in Nat /\ n \in 0 .. LINE - 1 /\ n + 1 \in 0 .. LINE - 1
  BY ShellAssumption
<1>2. /\ n \in Nat /\ n + 1 \in Nat /\ n + 1 < Screen /\ (n + 1) + 1 < Screen
      /\ n \in 0 .. Screen - 2 /\ Screen \in Nat
  BY <1>1, LineFits, ScreenSizes
<1>3. /\ u \in T!Terminals
      /\ Place(u) = Place(t) - 1
      /\ \A v \in T!Visible :
           u.cell[v] = IF v = Under(u) THEN "cursor"
                       ELSE IF v \in {Under(t), Beside(t)} THEN "blank" ELSE t.cell[v]
  BY PutcBackspace
<1> HIDE DEF u
<1>4. Place(u) = (h + n) % Screen
  BY <1>2, <1>3, Steps
<1>5. Pos(h, n) = Under(u) /\ \A k \in 0 .. n - 1 : Pos(h, k) # Under(u)
  BY <1>2, <1>3, <1>4, UnderIs, BehindIs
<1>6. \A k \in 0 .. (n + 1) - 1 : Pos(h, k) # Under(t) /\ Pos(h, k) # Beside(t)
  <2>1. n + 1 \in Nat /\ (n + 1) + 1 < Screen
    BY <1>2
  <2> DEFINE m == n + 1
  <2> HIDE DEF m
  <2>2. \A k \in 0 .. m - 1 : Pos(h, k) # Under(t) /\ Pos(h, k) # Beside(t)
    BY <2>1, BehindIs DEF m
  <2> QED BY <2>2 DEF m
<1>7. \A k \in 0 .. (n + 1) - 1 : k \in 0 .. n - 1 \/ k = n
  BY <1>2
<1>8. \A k \in 0 .. n - 1 : k \in 0 .. (n + 1) - 1
  BY <1>2
<1>9. ASSUME NEW v \in T!Visible \ Counter, u.cell[v] \in Letters
      PROVE  \E k \in 0 .. n - 1 : Pos(h, k) = v /\ b[k] = u.cell[v]
  <2>1. u.cell[v] = t.cell[v] /\ v # Under(u)
    BY <1>3, <1>9, PicturesAreNoLetters
  <2>2. PICK k \in 0 .. (n + 1) - 1 : Pos(h, k) = v /\ b[k] = t.cell[v]
    BY <1>9, <2>1 DEF Echoes
  <2>3. k # n
    BY <1>5, <2>1, <2>2
  <2>4. k \in 0 .. n - 1
    BY <1>7, <2>3
  <2> QED BY <2>1, <2>2, <2>4
<1>10. ASSUME NEW v \in T!Visible \ Counter, NEW k \in 0 .. n - 1, Pos(h, k) = v, b[k] \in Letters
       PROVE  u.cell[v] = b[k]
  <2>1. v # Under(u) /\ v # Under(t) /\ v # Beside(t) /\ k \in 0 .. (n + 1) - 1
    BY <1>5, <1>6, <1>8, <1>10
  <2>2. t.cell[v] = b[k]
    BY <1>10, <2>1 DEF Echoes
  <2> QED BY <1>3, <2>1, <2>2
<1>11. Echoes(u, b, n, h)
  BY <1>9, <1>10 DEF Echoes
<1> QED BY <1>4, <1>11 DEF u

\* The newline leaves the line on the screen.
LEMMA EchoEnter ==
  ASSUME NEW t \in T!Terminals, NEW b, NEW n \in 0 .. LINE - 2, NEW h \in 0 .. Screen - 1,
         Place(t) = (h + n) % Screen, Echoes(t, b, n, h)
  PROVE  Echoes(T!tty_putc(t, Newline), b, n, h)
<1> DEFINE u == T!tty_putc(t, Newline)
<1>1. LINE \in Nat /\ n \in 0 .. LINE - 1
  BY ShellAssumption
<1>2. n \in Nat /\ n + 1 < Screen
  BY <1>1, LineFits, ScreenSizes
<1>3. \A v \in T!Visible :
        u.cell[v] = IF v \in {Under(t), Beside(t)} THEN "blank" ELSE t.cell[v]
  BY PutcNewline
<1> HIDE DEF u
<1>4. \A k \in 0 .. n - 1 : Pos(h, k) # Under(t) /\ Pos(h, k) # Beside(t)
  BY <1>2, BehindIs
<1>5. ASSUME NEW v \in T!Visible \ Counter, u.cell[v] \in Letters
      PROVE  \E k \in 0 .. n - 1 : Pos(h, k) = v /\ b[k] = u.cell[v]
  <2>1. u.cell[v] = t.cell[v]
    BY <1>3, <1>5, PicturesAreNoLetters
  <2> QED BY <1>5, <2>1 DEF Echoes
<1>6. ASSUME NEW v \in T!Visible \ Counter, NEW k \in 0 .. n - 1, Pos(h, k) = v, b[k] \in Letters
      PROVE  u.cell[v] = b[k]
  <2>1. v # Under(t) /\ v # Beside(t)
    BY <1>4, <1>6
  <2>2. t.cell[v] = b[k]
    BY <1>6 DEF Echoes
  <2> QED BY <1>3, <2>1, <2>2
<1>7. Echoes(u, b, n, h)
  BY <1>5, <1>6 DEF Echoes
<1> QED BY <1>7 DEF u

\* Only the first n characters of the buffer matter.
LEMMA EchoBuffer ==
  ASSUME NEW t, NEW b, NEW d, NEW n \in Nat, NEW h, Echoes(t, b, n, h),
         \A k \in 0 .. n - 1 : d[k] = b[k]
  PROVE  Echoes(t, d, n, h)
  BY DEF Echoes

\* task1 draws elsewhere.
LEMMA EchoCounter ==
  ASSUME NEW t, NEW u, NEW b, NEW n \in Nat, NEW h, Echoes(t, b, n, h),
         \A v \in T!Visible \ Counter : u.cell[v] = t.cell[v]
  PROVE  Echoes(u, b, n, h)
  BY DEF Echoes

-----------------------------------------------------------------------------
(* The steps *)

LEMMA EmptyHasNoWord == First(<<>>) = <<>>
<1>1. <<>> \in Seq(Typeable) /\ Len(<<>>) = 0
  OBVIOUS
<1>2. Gap(<<>>) \in 0 .. 0
  BY <1>1, GapIs
<1>3. Gap(<<>>) = 0
  BY <1>2
<1> QED BY <1>3 DEF First

LEMMA NothingDone == Does(Nothing)
<1>1. Nothing.what = "nothing" /\ Nothing.line = <<>> /\ Nothing.arg = <<>>
  BY DEF Nothing
<1>2. Nothing \in [what : {"nothing", "command", "unknown"}, arg : Seq(Typeable), line : Seq(Typeable)]
  BY DEF Nothing
<1>3. Len(First(Nothing.line)) = 0
  BY <1>1, EmptyHasNoWord
<1> QED BY <1>1, <1>2, <1>3 DEF Does

\* Output and clear leave no letters of the line on the screen.
LEMMA OutputIs ==
  ASSUME NEW t \in T!Terminals, NEW u \in AfterOutput \cup {T!tty_clear(t)}
  PROVE  u \in T!Terminals /\ NoLetters(u)
<1>1. CASE u \in AfterOutput
  <2>1. u.cell = [v \in T!Visible |-> "old"] /\ u \in T!Terminals
    BY <1>1, GlyphsAre DEF AfterOutput, T!Terminals
  <2> QED BY <2>1, PicturesAreNoLetters DEF NoLetters
<1>2. CASE u = T!tty_clear(t)
  <2>1. /\ u.cell = [v \in T!Visible |-> "blank"] /\ u.cx = 0 /\ u.cy = 0
        /\ u = [cx |-> 0, cy |-> 0, cell |-> [v \in T!Visible |-> "blank"]]
    BY <1>2 DEF T!tty_clear, T!fb_fill, T!Terminals
  <2>2. 0 \in 0 .. COLS - 1 /\ 0 \in 0 .. ROWS - 1
    BY ScreenSizes
  <2>3. u \in T!Terminals
    BY <2>1, <2>2, GlyphsAre DEF T!Terminals
  <2> QED BY <2>1, <2>3, PicturesAreNoLetters DEF NoLetters
<1> QED BY <1>1, <1>2

LEMMA ZeroedIs == Zeroed \in Buffers /\ Zeroed[LINE - 1] = NUL /\ 0 \in 0 .. LINE - 1
<1>1. LINE \in Nat /\ LINE > 3
  BY ShellAssumption
<1> QED BY <1>1 DEF Zeroed, Buffers

LEMMA InitIInv == Init => IInv
<1> SUFFICES ASSUME Init PROVE IInv
  OBVIOUS
<1>1. 0 \in 0 .. Screen - 1 /\ 0 \in Nat
  BY ScreenSizes
<1>2. LineInv
  <2>1. <<>> \in Seq(Typeable) /\ Len(<<>>) = 0
    OBVIOUS
  <2>2. \A k \in 1 .. 0 : FALSE
    OBVIOUS
  <2> QED BY <2>1, <2>2, ZeroedIs DEF Init, LineInv
<1>3. Does(ran)
  BY NothingDone DEF Init
<1>4. term \in T!Terminals /\ NoLetters(term)
  <2>1. term \in AfterOutput
    BY DEF Init
  <2>2. term.cell = [v \in T!Visible |-> "old"] /\ term \in T!Terminals
    BY <2>1, GlyphsAre DEF AfterOutput, T!Terminals
  <2> QED BY <2>2, PicturesAreNoLetters DEF NoLetters
<1>5. ScreenInv
  BY <1>1, <1>4 DEF Init, ScreenInv
<1> QED BY <1>2, <1>3, <1>5 DEF Init, IInv

LEMMA ShowPromptIInv == IInv /\ ShowPrompt => IInv'
<1> SUFFICES ASSUME IInv, ShowPrompt PROVE IInv'
  OBVIOUS
<1>1. LineInv'
  <2>1. pc = "prompt" /\ pc' = "edit" /\ UNCHANGED <<chars, i, typed>>
    BY DEF ShowPrompt
  <2> QED BY <2>1 DEF IInv, LineInv
<1>2. Does(ran')
  BY NothingDone DEF ShowPrompt
<1>3. term' \in T!Terminals /\ NoLetters(term') /\ home' \in 0 .. Screen - 1
  BY PromptShown DEF IInv, ScreenInv, ShowPrompt
<1>4. i' = 0 /\ pc' = "edit" /\ home' = Place(term')
  BY DEF IInv, LineInv, ShowPrompt
<1>5. Place(term') = (home' + i') % Screen
  <2>1. (home' + 0) % Screen = home'
    BY <1>3, WrapNothing
  <2> QED BY <1>4, <2>1
<1>6. Echoes(term', chars', i', home')
  <2>1. \A k \in 0 .. 0 - 1 : FALSE
    OBVIOUS
  <2> QED BY <1>3, <1>4, <2>1 DEF Echoes, NoLetters
<1>7. ScreenInv'
  BY <1>3, <1>4, <1>5, <1>6 DEF ScreenInv
<1> QED BY <1>1, <1>2, <1>7 DEF IInv, ShowPrompt

LEMMA task1IInv == IInv /\ task1 => IInv'
<1> SUFFICES ASSUME IInv, task1 PROVE IInv'
  OBVIOUS
<1>1. UNCHANGED <<chars, i, pc, home, bent, typed, ran>>
  BY DEF task1
<1>2. LineInv'
  BY <1>1 DEF IInv, LineInv
<1>3. Does(ran')
  BY <1>1 DEF IInv
<1>4. /\ term' \in T!Terminals /\ term'.cx = term.cx /\ term'.cy = term.cy
      /\ \A v \in T!Visible \ Counter : term'.cell[v] = term.cell[v]
  BY CounterDrawn DEF IInv, ScreenInv, task1
<1>5. pc = "edit" /\ Place(term') = Place(term) /\ i \in Nat
  BY <1>4, LineFits DEF task1, Place, IInv, LineInv
<1>6. ~ bent => Echoes(term', chars, i, home)
  BY <1>4, <1>5, EchoCounter DEF IInv, ScreenInv
<1>7. ScreenInv'
  BY <1>1, <1>4, <1>5, <1>6 DEF IInv, ScreenInv
<1> QED BY <1>1, <1>2, <1>3, <1>7 DEF IInv

LEMMA EraseIInv == IInv /\ pc = "edit" /\ Erase => IInv'
<1> SUFFICES ASSUME IInv, pc = "edit", Erase PROVE IInv'
  OBVIOUS
<1> DEFINE n == i - 1
<1>1. LINE \in Nat /\ i \in 0 .. LINE - 1 /\ i > 0
  BY ShellAssumption DEF IInv, LineInv, Erase
<1>2. n \in Nat /\ n \in 0 .. LINE - 2 /\ n \in 0 .. LINE - 1 /\ n + 1 = i /\ i' = n
  BY <1>1 DEF Erase
<1>3. /\ typed' \in Seq(Typeable) /\ Len(typed') = n
      /\ \A k \in 1 .. n : typed'[k] = typed[k] /\ k \in 1 .. i
  <2>1. typed \in Seq(Typeable) /\ Len(typed) = i /\ typed' = SubSeq(typed, 1, Len(typed) - 1)
    BY DEF IInv, LineInv, Erase, Front
  <2>2. \A k \in 1 .. n : k \in 1 .. i
    BY <1>1, <1>2
  <2>3. \A k \in 1 .. n : typed[k] \in Typeable
    BY <2>1, <2>2
  <2>4. /\ SubSeq(typed, 1, n) \in Seq(Typeable) /\ Len(SubSeq(typed, 1, n)) = n
        /\ \A k \in 1 .. n : SubSeq(typed, 1, n)[k] = typed[k]
    <3> HIDE DEF n
    <3> QED BY <1>2, <2>3, SubSeqProperties
  <2> QED BY <2>1, <2>2, <2>4
<1>4. chars' = chars /\ pc' = pc /\ home' = home /\ ran' = ran
  BY DEF Erase
<1> HIDE DEF n
<1>5. LineInv'
  BY <1>2, <1>3, <1>4 DEF IInv, LineInv
<1>6. term' = T!tty_putc(term, Backspace) /\ term \in T!Terminals
  BY DEF IInv, ScreenInv, Erase
<1>7. term' \in T!Terminals
  BY <1>6, PutcBackspace
<1>8. ASSUME ~ bent' PROVE Place(term') = (home + n) % Screen /\ Echoes(term', chars, n, home)
  <2>1. ~ bent /\ Place(term) # 0
    BY <1>8 DEF Erase
  <2>2. /\ Place(term) = (home + (n + 1)) % Screen /\ Echoes(term, chars, n + 1, home)
        /\ home \in 0 .. Screen - 1 /\ chars \in Buffers
    BY <1>2, <2>1 DEF IInv, LineInv, ScreenInv
  <2> QED BY <1>2, <1>6, <2>1, <2>2, EchoErase
<1>9. ScreenInv'
  BY <1>2, <1>4, <1>7, <1>8 DEF IInv, ScreenInv
<1>10. bent' \in BOOLEAN
  BY DEF IInv, Erase
<1> QED BY <1>4, <1>5, <1>9, <1>10 DEF IInv

\* A 0 in the place of the cursor ends the line.
LEMMA Terminated ==
  IInv /\ chars' = [chars EXCEPT ![i] = NUL] /\ pc' = "run" /\ UNCHANGED <<i, typed>>
    => LineInv' /\ \A k \in 0 .. i - 1 : chars'[k] = chars[k]
<1> SUFFICES ASSUME IInv, chars' = [chars EXCEPT ![i] = NUL], pc' = "run", UNCHANGED <<i, typed>>
             PROVE  LineInv' /\ \A k \in 0 .. i - 1 : chars'[k] = chars[k]
  OBVIOUS
<1>1. LINE \in Nat /\ i \in 0 .. LINE - 1 /\ LINE > 3
  BY ShellAssumption DEF IInv, LineInv
<1>2. /\ chars' \in Buffers /\ chars'[i] = NUL
      /\ \A k \in 0 .. LINE - 1 : k # i => chars'[k] = chars[k]
  BY <1>1 DEF IInv, LineInv, Buffers
<1>3. chars'[LINE - 1] = NUL
  BY <1>1, <1>2 DEF IInv, LineInv
<1>4. \A k \in 1 .. i : k - 1 \in 0 .. LINE - 1 /\ k - 1 # i
  BY <1>1
<1>5. \A k \in 1 .. i : chars'[k - 1] = typed[k]
  BY <1>2, <1>4 DEF IInv, LineInv
<1>6. \A k \in 0 .. i - 1 : k \in 0 .. LINE - 1 /\ k # i
  BY <1>1
<1> QED BY <1>1, <1>2, <1>3, <1>5, <1>6 DEF IInv, LineInv

LEMMA LineFullIInv == IInv /\ pc = "edit" /\ LineFull => IInv'
<1> SUFFICES ASSUME IInv, pc = "edit", LineFull PROVE IInv'
  OBVIOUS
<1>1. LineInv' /\ \A k \in 0 .. i - 1 : chars'[k] = chars[k]
  BY Terminated DEF LineFull
<1>2. pc' = "run" /\ UNCHANGED <<i, term, home, bent, typed, ran>>
  BY DEF LineFull
<1>3. i \in Nat
  BY LineFits DEF IInv, LineInv
<1>4. ~ bent => Echoes(term, chars', i, home)
  BY <1>1, <1>3, EchoBuffer DEF IInv, ScreenInv
<1>5. ScreenInv'
  BY <1>2, <1>4 DEF IInv, ScreenInv
<1> QED BY <1>1, <1>2, <1>5 DEF IInv

LEMMA EnterIInv == IInv /\ pc = "edit" /\ Enter => IInv'
<1> SUFFICES ASSUME IInv, pc = "edit", Enter PROVE IInv'
  OBVIOUS
<1>1. LineInv' /\ \A k \in 0 .. i - 1 : chars'[k] = chars[k]
  BY Terminated DEF Enter
<1>2. pc' = "run" /\ UNCHANGED <<i, home, bent, typed, ran>> /\ term' = T!tty_putc(term, Newline)
  BY DEF Enter
<1>3. i \in Nat /\ i \in 0 .. LINE - 2
  <2>1. LINE \in Nat /\ i \in 0 .. LINE - 1 /\ i < LINE - 1
    BY ShellAssumption DEF IInv, LineInv, Enter
  <2> QED BY <2>1
<1>4. term' \in T!Terminals
  BY <1>2, PutcNewline DEF IInv, ScreenInv
<1>5. ~ bent => Echoes(term', chars', i, home)
  <2>1. ~ bent => Echoes(term', chars, i, home)
    BY <1>2, <1>3, EchoEnter DEF IInv, ScreenInv
  <2> QED BY <1>1, <1>3, <2>1, EchoBuffer
<1>6. ScreenInv'
  BY <1>2, <1>4, <1>5 DEF IInv, ScreenInv
<1> QED BY <1>1, <1>2, <1>6 DEF IInv

LEMMA StoreIInv ==
  ASSUME NEW c \in Typeable, IInv, pc = "edit", Store(c) PROVE IInv'
<1>1. LINE \in Nat /\ i \in 0 .. LINE - 1 /\ i < LINE - 1 /\ LINE > 3
  BY ShellAssumption DEF IInv, LineInv, Store
<1>2. /\ i \in Nat /\ i \in 0 .. LINE - 2 /\ i + 1 \in 0 .. LINE - 1 /\ i + 1 \in Nat
      /\ i' = i + 1 /\ pc' = pc /\ home' = home /\ ran' = ran
      /\ term' = T!tty_putc(term, c) /\ chars' = [chars EXCEPT ![i] = c]
  BY <1>1 DEF Store
<1>3. /\ chars' \in Buffers /\ chars'[i] = c
      /\ \A k \in 0 .. LINE - 1 : k # i => chars'[k] = chars[k]
  BY <1>1, <1>2 DEF IInv, LineInv, Buffers
<1>4. /\ typed' \in Seq(Typeable) /\ Len(typed') = i + 1 /\ typed'[i + 1] = c
      /\ \A k \in 1 .. i : typed'[k] = typed[k]
  BY DEF IInv, LineInv, Store
<1>5. LineInv'
  <2>1. chars'[LINE - 1] = NUL
    BY <1>1, <1>3 DEF IInv, LineInv
  <2>2. ASSUME NEW k \in 1 .. i + 1 PROVE chars'[k - 1] = typed'[k]
    <3>1. CASE k = i + 1
      <4>1. k - 1 = i
        BY <1>1, <3>1
      <4> QED BY <1>3, <1>4, <3>1, <4>1
    <3>2. CASE k # i + 1
      <4>1. k \in 1 .. i /\ k - 1 \in 0 .. LINE - 1 /\ k - 1 # i
        BY <1>1, <3>2
      <4> QED BY <1>3, <1>4, <4>1 DEF IInv, LineInv
    <3> QED BY <3>1, <3>2
  <2> QED BY <1>2, <1>3, <1>4, <2>1, <2>2 DEF LineInv
<1>6. term \in T!Terminals /\ term' \in T!Terminals
  <2>1. term \in T!Terminals
    BY DEF IInv, ScreenInv
  <2>2. CASE c = Tab
    BY <1>2, <2>1, <2>2, PutcTab
  <2>3. CASE c # Tab
    <3>1. c \notin {Newline, Backspace, Tab}
      BY <2>3, CharsAssumption DEF Typeable
    <3> QED BY <1>2, <2>1, <3>1, PutcCharacter
  <2> QED BY <2>1, <2>2, <2>3
<1>7. ASSUME ~ bent'
      PROVE  Place(term') = (home + (i + 1)) % Screen /\ Echoes(term', chars', i + 1, home)
  <2>1. ~ bent /\ c \in Letters \cup {Space, Escape}
    BY <1>7 DEF Store, Typeable
  <2>2. /\ Place(term) = (home + i) % Screen /\ Echoes(term, chars, i, home)
        /\ home \in 0 .. Screen - 1 /\ chars \in Buffers
    BY <2>1 DEF IInv, LineInv, ScreenInv
  <2>3. i \in 0 .. LINE - 2
    BY <1>2
  <2>4. /\ Place(T!tty_putc(term, c)) = (home + (i + 1)) % Screen
        /\ Echoes(T!tty_putc(term, c), [chars EXCEPT ![i] = c], i + 1, home)
    BY <1>6, <2>1, <2>2, <2>3, EchoStore
  <2>5. term' = T!tty_putc(term, c) /\ chars' = [chars EXCEPT ![i] = c]
    BY <1>2
  <2> QED BY <2>4, <2>5, Zenon
<1>8. ScreenInv'
  BY <1>2, <1>6, <1>7 DEF IInv, ScreenInv
<1>9. bent' \in BOOLEAN
  BY DEF IInv, Store
<1> QED BY <1>2, <1>5, <1>8, <1>9 DEF IInv

LEMMA RunIInv == IInv /\ Run => IInv'
<1> SUFFICES ASSUME IInv, Run PROVE IInv'
  OBVIOUS
<1> DEFINE b == Cut(chars)
           word == CString(b, 0)
           known == Len(word) = 1 /\ word[1] \in Words
<1>1. pc = "run"
  BY DEF Run
<1>2. /\ typed \in Seq(Typeable) /\ Len(typed) <= LINE - 1 /\ 2 \in 0 .. LINE - 1
      /\ \A k \in 1 .. Len(typed) : chars[k - 1] = typed[k]
      /\ chars \in Buffers /\ chars[LINE - 1] = NUL /\ chars[Len(typed)] = NUL
  <2>1. LINE \in Nat /\ LINE > 3
    BY ShellAssumption
  <2>2. /\ typed \in Seq(Typeable) /\ Len(typed) = i /\ i \in 0 .. LINE - 1
        /\ chars \in Buffers /\ chars[LINE - 1] = NUL /\ chars[i] = NUL
        /\ \A k \in 1 .. i : chars[k - 1] = typed[k]
    BY <1>1 DEF IInv, LineInv
  <2> QED BY <2>1, <2>2
<1>3. /\ b \in Buffers /\ b[LINE - 1] = NUL
      /\ word = First(typed) /\ word \in Seq(Typeable)
      /\ Len(word) = 1 /\ Len(typed) > 1 => CString(b, 2) = SubSeq(typed, 3, Len(typed))
  BY <1>2, CutIs
<1>4. CString(b, 2) \in Seq(Typeable)
  BY <1>2, <1>3, CStringType
<1>5. /\ ran' = [what |-> IF known THEN "command"
                          ELSE IF word # <<>> THEN "unknown" ELSE "nothing",
                 arg |-> IF known THEN CString(b, 2) ELSE <<>>, line |-> typed]
      /\ term' \in AfterOutput \cup {T!tty_clear(term)}
      /\ chars' = Zeroed /\ i' = 0 /\ home' = 0 /\ bent' = FALSE /\ typed' = <<>> /\ pc' = "prompt"
  BY DEF Run
<1> HIDE DEF b, word
<1>6. Does(ran')
  <2>1. ran'.what = (IF known THEN "command" ELSE IF word # <<>> THEN "unknown" ELSE "nothing")
    BY <1>5
  <2>2. ran'.arg = (IF known THEN CString(b, 2) ELSE <<>>) /\ ran'.line = typed
    BY <1>5
  <2>3. ran' \in [what : {"nothing", "command", "unknown"}, arg : Seq(Typeable), line : Seq(Typeable)]
    <3>1. (IF known THEN CString(b, 2) ELSE <<>>) \in Seq(Typeable)
      BY <1>4
    <3>2. (IF known THEN "command" ELSE IF word # <<>> THEN "unknown" ELSE "nothing")
             \in {"nothing", "command", "unknown"}
      OBVIOUS
    <3> HIDE DEF known
    <3> QED BY <1>2, <1>5, <3>1, <3>2
  <2>4. ran'.what = "command" <=> known
    BY <2>1
  <2> QED BY <1>3, <2>2, <2>3, <2>4 DEF Does
<1>7. LineInv'
  <2>1. <<>> \in Seq(Typeable) /\ Len(<<>>) = 0
    OBVIOUS
  <2>2. \A k \in 1 .. 0 : FALSE
    OBVIOUS
  <2> QED BY <1>5, <2>1, <2>2, ZeroedIs DEF LineInv
<1>8. ScreenInv'
  <2>1. term' \in T!Terminals /\ NoLetters(term')
    BY <1>5, OutputIs DEF IInv, ScreenInv
  <2>2. 0 \in 0 .. Screen - 1
    BY ScreenSizes
  <2> QED BY <1>5, <2>1, <2>2 DEF ScreenInv
<1> QED BY <1>5, <1>6, <1>7, <1>8 DEF IInv

LEMMA NextIInv == IInv /\ [Next]_vars => IInv'
<1> SUFFICES ASSUME IInv, [Next]_vars PROVE IInv'
  OBVIOUS
<1>1. CASE ShowPrompt
  BY <1>1, ShowPromptIInv
<1>2. ASSUME NEW c \in Keys, Key(c) PROVE IInv'
  <2>1. pc = "edit"
    BY <1>2 DEF Key
  <2>2. CASE c = Backspace /\ Erase
    BY <2>1, <2>2, EraseIInv
  <2>3. CASE c # Backspace /\ LineFull
    BY <2>1, <2>3, LineFullIInv
  <2>4. CASE c = Newline /\ Enter
    BY <2>1, <2>4, EnterIInv
  <2>5. CASE c \in Typeable /\ Store(c)
    BY <2>1, <2>5, StoreIInv
  <2> QED BY <1>2, <2>2, <2>3, <2>4, <2>5 DEF Key
<1>3. CASE task1
  BY <1>3, task1IInv
<1>4. CASE Run
  BY <1>4, RunIInv
<1>5. CASE UNCHANGED vars
  BY <1>5 DEF vars, IInv, LineInv, ScreenInv
<1> QED BY <1>1, <1>2, <1>3, <1>4, <1>5 DEF Next

-----------------------------------------------------------------------------
(* The theorems *)

\* The invariant holds in every state: with any keys, typed in any order, and
\* task1 drawing between any two of them.
THEOREM Inductive == Spec => []IInv
  BY InitIInv, NextIInv, PTL DEF Spec

\* The cursor of shell_main never leaves the buffer, and the cursor of the
\* terminal never leaves the screen.
THEOREM TypeCorrect == Spec => []TypeOK
<1>1. IInv => TypeOK
  BY DEF IInv, LineInv, ScreenInv, Does, TypeOK, Buffers, Screen
<1> QED BY <1>1, Inductive, PTL

\* The string that a complete line leaves in chars is the line as it was typed
\* and corrected, also when the buffer ran full.
THEOREM LineKept == Spec => []LineIsTyped
<1>1. IInv => LineIsTyped
  <2> SUFFICES ASSUME IInv, pc = "run" PROVE CString(chars, 0) = typed
    BY DEF LineIsTyped
  <2>1. /\ typed \in Seq(Typeable) /\ Len(typed) <= LINE - 1 /\ chars \in Buffers
        /\ \A k \in 1 .. Len(typed) : chars[k - 1] = typed[k]
        /\ chars[Len(typed)] = NUL
    BY ShellAssumption DEF IInv, LineInv
  <2> QED BY <2>1, CStringOf
<1> QED BY <1>1, Inductive, PTL

\* A command runs exactly if the first word of the typed line names it:
\* strtok on the edited buffer finds the word that the user means.
THEOREM CommandRuns == Spec => []CommandIsFirstWord
<1>1. IInv => CommandIsFirstWord
  BY DEF IInv, Does, CommandIsFirstWord, First, Gap
<1> QED BY <1>1, Inductive, PTL

\* chars + the length of the word + 1 is the rest of the typed line, if there
\* is a rest.
THEOREM ArgumentPassed == Spec => []ArgumentIsRest
<1>1. IInv => ArgumentIsRest
  BY DEF IInv, Does, ArgumentIsRest
<1> QED BY <1>1, Inductive, PTL

\* The echo of tty_putc and the buffer never disagree: on a screen of any size,
\* across the ends of lines and of the screen, and with task1 drawing on it.
THEOREM EchoExact == Spec => []EchoIsExact
<1>1. IInv => EchoIsExact
  <2> SUFFICES ASSUME IInv, pc # "prompt", ~ bent
               PROVE  /\ {<<v, term.cell[v]>> :
                            v \in {u \in T!Visible \ Counter : term.cell[u] \in Letters}}
                           = {<<At(k), chars[k]>> :
                                k \in {j \in 0 .. i - 1 :
                                         chars[j] \in Letters /\ At(j) \in T!Visible \ Counter}}
                      /\ pc = "edit" => Place(term) = (home + i) % (COLS * ROWS)
    BY DEF EchoIsExact
  <2>1. Echoes(term, chars, i, home)
    BY DEF IInv, ScreenInv
  <2>2. \A k \in 0 .. i - 1 : At(k) = Pos(home, k)
    BY DEF At, Pos, Screen
  <2> DEFINE shown == {<<v, term.cell[v]>> :
                         v \in {u \in T!Visible \ Counter : term.cell[u] \in Letters}}
             line == {<<At(k), chars[k]>> :
                        k \in {j \in 0 .. i - 1 :
                                 chars[j] \in Letters /\ At(j) \in T!Visible \ Counter}}
  <2>3. ASSUME NEW p \in shown PROVE p \in line
    <3>1. PICK v \in T!Visible \ Counter : term.cell[v] \in Letters /\ p = <<v, term.cell[v]>>
      OBVIOUS
    <3>2. PICK k \in 0 .. i - 1 : Pos(home, k) = v /\ chars[k] = term.cell[v]
      BY <2>1, <3>1 DEF Echoes
    <3> QED BY <2>2, <3>1, <3>2
  <2>4. ASSUME NEW p \in line PROVE p \in shown
    <3>1. PICK k \in 0 .. i - 1 : /\ chars[k] \in Letters /\ At(k) \in T!Visible \ Counter
                                  /\ p = <<At(k), chars[k]>>
      OBVIOUS
    <3>2. term.cell[At(k)] = chars[k]
      BY <2>1, <2>2, <3>1 DEF Echoes
    <3> QED BY <3>1, <3>2
  <2>5. shown = line
    BY <2>3, <2>4
  <2> QED BY <2>5 DEF IInv, ScreenInv, Screen
<1> QED BY <1>1, Inductive, PTL
=============================================================================
