--------------------------- MODULE KeyboardProofs ---------------------------
(***************************************************************************)
(* The keyboard driver for every size of the ring buffer, every set of     *)
(* keys and any number of codes waiting: what shift says when the codes    *)
(* are read, whatever fake shifts and lost codes came before, and that the *)
(* ring shared by handler and get_key without a lock is a queue.           *)
(***************************************************************************)
EXTENDS Keyboard, SequenceTheorems, TLAPS

IsShift(k) == wire[k].key \in ShiftKeys

\* The last code of a shift key that waits, if there is one, and otherwise
\* shift itself, says that no shift key is down.
LastShiftIsUp ==
  \/ \E k \in 1 .. Len(wire) :
       /\ IsShift(k) /\ wire[k].up
       /\ \A j \in k + 1 .. Len(wire) : ~ IsShift(j)
  \/ /\ \A k \in 1 .. Len(wire) : ~ IsShift(k)
     /\ shift = 0

\* What a make code of a shift key stands for: a key whose break code or fake
\* break code is still to come, or a keyboard that went wrong.
Down == ShiftHeld \/ faked # {} \/ misled

\* The break code of a shift key is still to be sent.
UpToSend == \E k \in 1 .. Len(todo) : todo[k].key \in ShiftKeys /\ todo[k].up

ShiftInv == Down \/ UpToSend \/ LastShiftIsUp

\* The index of the k-th slot from kbd_tail on, and of the one before kbd_tail.
Slot(k) == (kbd_tail + k - 1) % KBDBUF
Behind == (kbd_tail + KBDBUF - 1) % KBDBUF

\* What get_key relies on between its accesses: there is a character, in the
\* slots of the ring as in the one it has just given up.
Reader ==
  /\ \A k \in 1 .. Count : kbd_buffer[Slot(k)] \in Chars
  /\ pc \in {"nonempty", "loaded"} => kbd_head # kbd_tail
  /\ pc = "loaded" => c = kbd_buffer[kbd_tail]
  /\ pc = "advanced" => kbd_buffer[Behind] \in Chars
  /\ pc = "done" => c \in Chars

IInv == TypeOK /\ ShiftInv /\ Reader

-----------------------------------------------------------------------------
(* Indices modulo KBDBUF *)

LEMMA Modulo ==
  ASSUME NEW a \in 0 .. 2 * KBDBUF - 1
  PROVE  a % KBDBUF = IF a < KBDBUF THEN a ELSE a - KBDBUF
  BY KeyboardAssumption

LEMMA Distance ==
  ASSUME NEW h \in Indices, NEW t \in Indices
  PROVE  (h + KBDBUF - t) % KBDBUF = IF t <= h THEN h - t ELSE h - t + KBDBUF
  BY KeyboardAssumption, Modulo DEF Indices

LEMMA Offset ==
  ASSUME NEW t \in Indices, NEW k \in 1 .. KBDBUF
  PROVE  (t + k - 1) % KBDBUF = IF t + k - 1 < KBDBUF THEN t + k - 1 ELSE t + k - 1 - KBDBUF
  BY KeyboardAssumption, Modulo DEF Indices

LEMMA CountIs ==
  ASSUME kbd_head \in Indices, kbd_tail \in Indices
  PROVE  /\ Count \in 0 .. KBDBUF - 1
         /\ Count = IF kbd_tail <= kbd_head THEN kbd_head - kbd_tail
                    ELSE kbd_head - kbd_tail + KBDBUF
  BY KeyboardAssumption, Modulo DEF Count, Indices

LEMMA SlotIs ==
  ASSUME kbd_tail \in Indices, NEW k \in 1 .. KBDBUF
  PROVE  /\ Slot(k) \in Indices
         /\ Slot(k) = IF kbd_tail + k - 1 < KBDBUF THEN kbd_tail + k - 1
                      ELSE kbd_tail + k - 1 - KBDBUF
  BY KeyboardAssumption, Modulo DEF Slot, Indices

LEMMA NextIs ==
  ASSUME kbd_head \in Indices
  PROVE  /\ next \in Indices
         /\ next = IF kbd_head + 1 < KBDBUF THEN kbd_head + 1 ELSE 0
  BY KeyboardAssumption, Modulo DEF next, Indices

LEMMA BehindIs ==
  ASSUME kbd_tail \in Indices
  PROVE  Behind \in Indices /\ Behind = IF kbd_tail = 0 THEN KBDBUF - 1 ELSE kbd_tail - 1
  BY KeyboardAssumption, Modulo DEF Behind, Indices

-----------------------------------------------------------------------------
(* The invariant *)

LEMMA InitIInv == Init => IInv
<1> SUFFICES ASSUME Init PROVE IInv
  OBVIOUS
<1> USE KeyboardAssumption
<1>1. TypeOK
  <2>1. <<>> \in Seq(ScanCodes) /\ Len(<<>>) <= MaxWire
    OBVIOUS
  <2>2. kbd_buffer \in [Indices -> Chars \cup {None}] /\ 0 \in Indices
    BY DEF Init, Indices
  <2> QED BY <2>1, <2>2 DEF Init, TypeOK
<1>2. Count = 0
  BY CountIs DEF Init, Indices
<1> QED BY <1>1, <1>2 DEF Init, IInv, ShiftInv, LastShiftIsUp, Reader, IsShift

\* What a key sends is a sequence of codes with its own among them.
LEMMA CodeIs ==
  ASSUME NEW k \in Keys, NEW u \in BOOLEAN
  PROVE  /\ Code(k, u) \in Seq(ScanCodes)
         /\ \E n \in 1 .. Len(Code(k, u)) : Code(k, u)[n] = [key |-> k, up |-> u]
<1> DEFINE x == [key |-> k, up |-> u]
<1>1. x \in ScanCodes /\ E0 \in ScanCodes
  BY DEF ScanCodes
<1>2. Code(k, u) = IF k \in GreyKeys THEN <<E0, x>> ELSE <<x>>
  BY DEF Code
<1> HIDE DEF x
<1>3. CASE k \in GreyKeys
  <2>1. Code(k, u)[2] = x /\ Len(Code(k, u)) = 2
    BY <1>2, <1>3
  <2>2. \E n \in 1 .. Len(Code(k, u)) : Code(k, u)[n] = x
    BY <2>1
  <2> QED BY <1>1, <1>2, <1>3, <2>2 DEF x
<1>4. CASE k \notin GreyKeys
  <2>1. Code(k, u)[1] = x /\ Len(Code(k, u)) = 1
    BY <1>2, <1>4
  <2>2. \E n \in 1 .. Len(Code(k, u)) : Code(k, u)[n] = x
    BY <2>1
  <2> QED BY <1>1, <1>2, <1>4, <2>2 DEF x
<1> QED BY <1>3, <1>4

\* With a fake shift before or behind it, too; nothing hides that one.
LEMMA CodesAre ==
  ASSUME NEW k \in Keys, NEW u \in BOOLEAN, NEW s \in ShiftKeys, NEW v \in BOOLEAN
  PROVE  /\ FakeShift(s, v) \o Code(k, u) \in Seq(ScanCodes)
         /\ Code(k, u) \o FakeShift(s, v) \in Seq(ScanCodes)
         /\ \E n \in 1 .. Len(Code(k, u) \o FakeShift(s, v)) :
              (Code(k, u) \o FakeShift(s, v))[n] = [key |-> s, up |-> v]
<1> DEFINE y == [key |-> s, up |-> v]
           a == Code(k, u)
<1>1. y \in ScanCodes /\ E0 \in ScanCodes
  BY DEF Keys, ScanCodes
<1>2. a \in Seq(ScanCodes)
  BY CodeIs
<1>3. FakeShift(s, v) = <<E0, y>>
  BY DEF FakeShift
<1> HIDE DEF y, a
<1>4. Len(a \o <<E0, y>>) = Len(a) + 2 /\ (a \o <<E0, y>>)[Len(a) + 2] = y /\ Len(a) \in Nat
  BY <1>1, <1>2
<1>5. \E n \in 1 .. Len(a \o <<E0, y>>) : (a \o <<E0, y>>)[n] = y
  <2>1. Len(a) + 2 \in 1 .. Len(a \o <<E0, y>>)
    BY <1>4
  <2> QED BY <1>4, <2>1
<1>6. a \o <<E0, y>> \in Seq(ScanCodes) /\ <<E0, y>> \o a \in Seq(ScanCodes)
  BY <1>1, <1>2
<1> QED BY <1>3, <1>5, <1>6 DEF a, y

\* A key that goes down is itself what its make codes stand for.
LEMMA PressStep ==
  ASSUME IInv, NEW k \in Keys, Press(k)
  PROVE  IInv'
<1> USE KeyboardAssumption DEF IInv
<1>1. todo' \in Seq(ScanCodes)
  <2>1. CASE todo' = Code(k, FALSE)
    BY <2>1, CodeIs
  <2>2. CASE \E s \in ShiftKeys : todo' = FakeShift(s, ShiftHeld) \o Code(k, FALSE)
    <3>1. ShiftHeld \in BOOLEAN
      BY DEF ShiftHeld
    <3> QED BY <2>2, <3>1, CodesAre
  <2> QED BY <2>1, <2>2 DEF Press
<1>2. TypeOK'
  BY <1>1 DEF Press, TypeOK
<1>3. Down => Down'
  BY DEF Press, Down, ShiftHeld
<1>4. ~ UpToSend
  BY DEF Press, UpToSend
<1>5. LastShiftIsUp => LastShiftIsUp'
  BY DEF Press, LastShiftIsUp, IsShift
<1>6. Reader'
  BY DEF Press, Reader, Count, Slot, Behind
<1> QED BY <1>2, <1>3, <1>4, <1>5, <1>6 DEF ShiftInv

\* A key that goes up sends the break code that its make codes called for.
LEMMA ReleaseStep ==
  ASSUME IInv, NEW k \in Keys, Release(k)
  PROVE  IInv'
<1> USE KeyboardAssumption DEF IInv
<1>1. \/ (k \in faked => ShiftHeld) /\ todo' = Code(k, TRUE)
      \/ \E s \in ShiftKeys, up \in BOOLEAN :
           (k \in faked => up) /\ todo' = Code(k, TRUE) \o FakeShift(s, up)
  BY DEF Release
<1>2. todo' \in Seq(ScanCodes)
  <2>1. CASE todo' = Code(k, TRUE)
    BY <2>1, CodeIs
  <2> QED BY <1>1, <2>1, CodesAre
<1>3. TypeOK'
  BY <1>2 DEF Release, TypeOK
<1>4. LastShiftIsUp => LastShiftIsUp'
  BY DEF Release, LastShiftIsUp, IsShift
<1>5. ~ UpToSend /\ misled' = misled
  BY DEF Release, UpToSend
<1>6. ShiftInv'
  <2>1. CASE k \in ShiftKeys
    <3>1. k \notin GreyKeys
      BY <2>1
    <3>2. todo' = Code(k, TRUE)
      BY <3>1 DEF Release
    <3>3. PICK n \in 1 .. Len(todo') : todo'[n] = [key |-> k, up |-> TRUE]
      BY <3>2, CodeIs
    <3>4. UpToSend'
      BY <2>1, <3>3 DEF UpToSend
    <3> QED BY <3>4 DEF ShiftInv
  <2>2. CASE k \notin ShiftKeys /\ (k \in faked => ShiftHeld)
    <3>1. ShiftHeld' = ShiftHeld
      BY <2>2 DEF Release, ShiftHeld
    <3>2. Down => Down'
      BY <1>5, <2>2, <3>1 DEF Release, Down
    <3> QED BY <1>4, <1>5, <3>2 DEF ShiftInv
  <2>3. CASE k \in faked /\ ~ ShiftHeld
    <3>1. PICK s \in ShiftKeys : todo' = Code(k, TRUE) \o FakeShift(s, TRUE)
      BY <1>1, <2>3
    <3>2. PICK n \in 1 .. Len(todo') : todo'[n] = [key |-> s, up |-> TRUE]
      BY <3>1, CodesAre
    <3>3. UpToSend'
      BY <3>2 DEF UpToSend
    <3> QED BY <3>3 DEF ShiftInv
  <2> QED BY <2>1, <2>2, <2>3
<1>7. Reader'
  BY DEF Release, Reader, Count, Slot, Behind
<1> QED BY <1>3, <1>6, <1>7

\* The next code to send leaves todo.
LEMMA NextToSend ==
  ASSUME IInv, todo # <<>>, todo' = Tail(todo)
  PROVE  /\ Head(todo) \in ScanCodes /\ todo' \in Seq(ScanCodes)
         /\ UpToSend => \/ UpToSend'
                         \/ (Head(todo).key \in ShiftKeys /\ Head(todo).up)
<1>1. /\ todo \in Seq(ScanCodes) /\ Head(todo) = todo[1] /\ Head(todo) \in ScanCodes
      /\ todo' \in Seq(ScanCodes) /\ Len(todo') = Len(todo) - 1 /\ Len(todo) \in Nat
      /\ \A j \in 1 .. Len(todo') : todo'[j] = todo[j + 1]
  BY DEF IInv, TypeOK
<1>2. ASSUME NEW k \in 2 .. Len(todo), todo[k].key \in ShiftKeys, todo[k].up
      PROVE  UpToSend'
  <2>1. k - 1 \in 1 .. Len(todo') /\ todo'[k - 1] = todo[k]
    BY <1>1
  <2> QED BY <1>2, <2>1 DEF UpToSend
<1>3. ASSUME UpToSend, ~ (todo[1].key \in ShiftKeys /\ todo[1].up) PROVE UpToSend'
  <2>1. PICK k \in 1 .. Len(todo) : todo[k].key \in ShiftKeys /\ todo[k].up
    BY <1>3 DEF UpToSend
  <2>2. k \in 2 .. Len(todo)
    BY <1>1, <1>3, <2>1
  <2> QED BY <1>2, <2>1, <2>2
<1>4. UpToSend => UpToSend' \/ (Head(todo).key \in ShiftKeys /\ Head(todo).up)
  <2>1. Head(todo) = todo[1]
    BY <1>1
  <2> QED BY <1>3, <2>1
<1> QED BY <1>1, <1>4

\* A code that arrives is the last one; a make code of a shift key stands for
\* a key that is down, or the keyboard is misled.
LEMMA SendStep ==
  ASSUME IInv, Send
  PROVE  IInv'
<1> USE KeyboardAssumption DEF IInv
<1> DEFINE code == Head(todo)
<1>1. /\ code \in ScanCodes /\ todo' \in Seq(ScanCodes)
      /\ UpToSend => UpToSend' \/ (code.key \in ShiftKeys /\ code.up)
  BY NextToSend DEF Send
<1>2. wire' = Append(wire, code) /\ Len(wire) < MaxWire
  BY DEF Send
<1> HIDE DEF code
<1>3. /\ wire \in Seq(ScanCodes) /\ wire' \in Seq(ScanCodes) /\ Len(wire') = Len(wire) + 1
      /\ \A j \in 1 .. Len(wire) : wire'[j] = wire[j]
      /\ wire'[Len(wire) + 1] = code /\ Len(wire) \in Nat
  BY <1>1, <1>2 DEF TypeOK
<1>4. misled' \in BOOLEAN
  BY DEF Send, TypeOK
<1>5. TypeOK'
  BY <1>1, <1>2, <1>3, <1>4 DEF Send, TypeOK
<1>6. ShiftInv'
  <2>1. CASE code.key \in ShiftKeys /\ code.up
    BY <1>3, <2>1 DEF ShiftInv, LastShiftIsUp, IsShift
  <2>2. CASE code.key \in ShiftKeys /\ ~ code.up
    BY <2>2 DEF Send, ShiftInv, Down, ShiftHeld, code
  <2>3. CASE code.key \notin ShiftKeys
    <3>1. Down => Down'
      BY <2>3 DEF Send, Down, ShiftHeld, code
    <3>2. UpToSend => UpToSend'
      BY <1>1, <2>3
    <3>3. LastShiftIsUp => LastShiftIsUp'
      <4>1. shift' = shift /\ wire'[Len(wire) + 1].key \notin ShiftKeys
            /\ \A j \in 1 .. Len(wire) : ~ IsShift(j) => wire'[j].key \notin ShiftKeys
        BY <1>3, <2>3 DEF Send, IsShift
      <4>2. ASSUME NEW n \in 1 .. Len(wire), IsShift(n), wire[n].up,
                   \A j \in n + 1 .. Len(wire) : ~ IsShift(j)
            PROVE  LastShiftIsUp'
        <5>1. n \in 1 .. Len(wire') /\ wire'[n].key \in ShiftKeys /\ wire'[n].up
          BY <1>3, <4>2 DEF IsShift
        <5>2. ASSUME NEW j \in n + 1 .. Len(wire') PROVE wire'[j].key \notin ShiftKeys
          <6>1. j \in n + 1 .. Len(wire) \/ j = Len(wire) + 1
            BY <1>3
          <6>2. CASE j \in n + 1 .. Len(wire)
            BY <1>3, <4>1, <4>2, <6>2
          <6> QED BY <4>1, <6>1, <6>2
        <5> QED BY <5>1, <5>2 DEF LastShiftIsUp, IsShift
      <4>3. ASSUME \A j \in 1 .. Len(wire) : ~ IsShift(j), shift = 0 PROVE LastShiftIsUp'
        <5>1. ASSUME NEW j \in 1 .. Len(wire') PROVE wire'[j].key \notin ShiftKeys
          <6>1. j \in 1 .. Len(wire) \/ j = Len(wire) + 1
            BY <1>3
          <6> QED BY <4>1, <4>3, <6>1
        <5> QED BY <4>1, <4>3, <5>1 DEF LastShiftIsUp, IsShift
      <4> QED BY <4>2, <4>3 DEF LastShiftIsUp
    <3> QED BY <3>1, <3>2, <3>3 DEF ShiftInv
  <2> QED BY <2>1, <2>2, <2>3
<1>7. Reader'
  BY DEF Send, Reader, Count, Slot, Behind
<1> QED BY <1>5, <1>6, <1>7

\* A break code of a shift key that is lost misleads the keyboard.
LEMMA LoseStep ==
  ASSUME IInv, Lose
  PROVE  IInv'
<1> USE KeyboardAssumption DEF IInv
<1>1. /\ todo' \in Seq(ScanCodes)
      /\ UpToSend => UpToSend' \/ (Head(todo).key \in ShiftKeys /\ Head(todo).up)
  BY NextToSend DEF Lose
<1>2. misled' \in BOOLEAN /\ (misled => misled')
      /\ (Head(todo).key \in ShiftKeys /\ Head(todo).up => misled')
  BY DEF Lose, TypeOK
<1>3. TypeOK'
  BY <1>1, <1>2 DEF Lose, TypeOK
<1>4. ShiftInv'
  BY <1>1, <1>2 DEF Lose, ShiftInv, Down, ShiftHeld, LastShiftIsUp, IsShift
<1>5. Reader'
  BY DEF Lose, Reader, Count, Slot, Behind
<1> QED BY <1>3, <1>4, <1>5

\* A code is taken from the wire; the next code of a shift key is the last one
\* unless there are others behind it.
LEMMA CodeStep ==
  ASSUME IInv, ReadCode, UNCHANGED keyboard,
         shift' = IF sc.key \in ShiftKeys THEN (IF sc.up THEN 0 ELSE 1) ELSE shift
  PROVE  wire' \in Seq(ScanCodes) /\ Len(wire') <= MaxWire /\ ShiftInv'
<1> USE KeyboardAssumption DEF IInv
<1>1. /\ wire \in Seq(ScanCodes) /\ wire # <<>>
      /\ wire' \in Seq(ScanCodes) /\ Len(wire') = Len(wire) - 1
      /\ \A j \in 1 .. Len(wire') : wire'[j] = wire[j + 1]
      /\ sc = wire[1] /\ Len(wire) \in Nat \ {0}
  BY DEF ReadCode, TypeOK, sc
<1>2. LastShiftIsUp => LastShiftIsUp'
  <2>1. ASSUME NEW k \in 2 .. Len(wire), IsShift(k), wire[k].up,
               \A j \in k + 1 .. Len(wire) : ~ IsShift(j)
        PROVE  LastShiftIsUp'
    <3>1. k - 1 \in 1 .. Len(wire') /\ IsShift(k - 1)' /\ wire'[k - 1].up
      BY <1>1, <2>1 DEF IsShift
    <3>2. ASSUME NEW j \in k .. Len(wire') PROVE ~ IsShift(j)'
      BY <1>1, <2>1 DEF IsShift
    <3> QED BY <3>1, <3>2 DEF LastShiftIsUp
  <2>2. ASSUME IsShift(1), wire[1].up, \A j \in 2 .. Len(wire) : ~ IsShift(j)
        PROVE  LastShiftIsUp'
    BY <1>1, <2>2 DEF IsShift, LastShiftIsUp
  <2>3. ASSUME \A k \in 1 .. Len(wire) : ~ IsShift(k), shift = 0
        PROVE  LastShiftIsUp'
    BY <1>1, <2>3 DEF IsShift, LastShiftIsUp
  <2> QED BY <1>1, <2>1, <2>2, <2>3 DEF LastShiftIsUp
<1>3. UNCHANGED <<Down, UpToSend>>
  BY DEF keyboard, Down, UpToSend, ShiftHeld
<1> QED BY <1>1, <1>2, <1>3 DEF TypeOK, ShiftInv

\* A character that finds room goes behind the last one, and touches neither
\* those that wait nor the one that get_key is about to load.
LEMMA Stored ==
  ASSUME IInv, next # kbd_tail, NEW ch \in Chars,
         kbd_buffer' = [kbd_buffer EXCEPT ![kbd_head] = ch],
         kbd_head' = next, kbd_tail' = kbd_tail
  PROVE  /\ Count < KBDBUF - 1 /\ Count' = Count + 1
         /\ \A k \in 1 .. Count + 1 : Slot(k)' = Slot(k)
         /\ \A k \in 1 .. Count : kbd_buffer'[Slot(k)] = kbd_buffer[Slot(k)]
         /\ kbd_buffer'[Slot(Count + 1)] = ch
         /\ Behind' = Behind /\ kbd_buffer'[Behind] = kbd_buffer[Behind]
         /\ kbd_head # kbd_tail => kbd_buffer'[kbd_tail] = kbd_buffer[kbd_tail]
         /\ kbd_head' # kbd_tail'
<1> USE KeyboardAssumption
<1>1. kbd_head \in Indices /\ kbd_tail \in Indices /\ next \in Indices
  BY NextIs DEF IInv, TypeOK
<1>2. Count < KBDBUF - 1 /\ Count \in 0 .. KBDBUF - 1
  BY <1>1, CountIs, NextIs DEF Indices
<1>3. Count' = Count + 1
  <2>1. Count' = (next + KBDBUF - kbd_tail) % KBDBUF
    BY DEF Count
  <2> QED BY <1>1, <1>2, <2>1, Distance, CountIs, NextIs DEF Indices
<1>4. ASSUME NEW k \in 1 .. Count PROVE Slot(k) \in Indices /\ Slot(k) # kbd_head
  BY <1>1, <1>2, SlotIs, CountIs DEF Indices
<1>5. Slot(Count + 1) = kbd_head
  <2>1. Count + 1 \in 1 .. KBDBUF
    BY <1>2
  <2> QED BY <1>1, <1>2, <2>1, SlotIs, CountIs DEF Indices
<1>6. Behind \in Indices /\ Behind # kbd_head
  BY <1>1, BehindIs, NextIs DEF Indices
<1>7. kbd_buffer \in [Indices -> Chars \cup {None}]
  BY DEF IInv, TypeOK
<1>8. /\ \A k \in 1 .. Count : kbd_buffer'[Slot(k)] = kbd_buffer[Slot(k)]
      /\ kbd_buffer'[Slot(Count + 1)] = ch
      /\ kbd_buffer'[Behind] = kbd_buffer[Behind]
      /\ kbd_head # kbd_tail => kbd_buffer'[kbd_tail] = kbd_buffer[kbd_tail]
  BY <1>1, <1>4, <1>5, <1>6, <1>7
<1>9. Behind' = Behind /\ \A k \in 1 .. Count + 1 : Slot(k)' = Slot(k)
  BY DEF Behind, Slot
<1> QED BY <1>2, <1>3, <1>8, <1>9

LEMMA TypedStep == ASSUME IInv, Typed PROVE IInv'
<1> USE KeyboardAssumption
<1>1. sc \in ScanCodes /\ sc.key \in CharKeys
  BY DEF Typed, ReadCode, IInv, TypeOK, sc
<1>2. wire' \in Seq(ScanCodes) /\ Len(wire') <= MaxWire /\ ShiftInv'
  <2>1. shift' = IF sc.key \in ShiftKeys THEN (IF sc.up THEN 0 ELSE 1) ELSE shift
    BY DEF Typed
  <2> QED BY <2>1, CodeStep DEF Typed
<1> DEFINE ch == [key |-> sc.key, shifted |-> shift]
<1>3. ch \in Chars
  BY <1>1 DEF IInv, TypeOK, Chars
<1>4. TypeOK'
  BY <1>2, <1>3, NextIs DEF Typed, keyboard, IInv, TypeOK
<1>5. CASE next # kbd_tail
  <2>1. /\ kbd_buffer' = [kbd_buffer EXCEPT ![kbd_head] = ch]
        /\ kbd_head' = next /\ kbd_tail' = kbd_tail /\ pc' = pc /\ c' = c
    BY <1>5 DEF Typed
  <2>2. Count \in Nat
    BY CountIs DEF IInv, TypeOK
  <2> HIDE DEF ch
  <2>3. /\ Count \in Nat /\ Count' = Count + 1
        /\ \A k \in 1 .. Count + 1 : Slot(k)' = Slot(k)
        /\ \A k \in 1 .. Count : kbd_buffer'[Slot(k)] = kbd_buffer[Slot(k)]
        /\ kbd_buffer'[Slot(Count + 1)] = ch
        /\ Behind' = Behind /\ kbd_buffer'[Behind] = kbd_buffer[Behind]
        /\ kbd_head # kbd_tail => kbd_buffer'[kbd_tail] = kbd_buffer[kbd_tail]
        /\ kbd_head' # kbd_tail'
    BY <1>3, <1>5, <2>1, <2>2, Stored
  <2>4. ASSUME NEW k \in 1 .. Count' PROVE kbd_buffer'[Slot(k)'] \in Chars
    <3>1. k \in 1 .. Count \/ k = Count + 1
      BY <2>3
    <3> QED BY <1>3, <2>3, <3>1 DEF IInv, Reader
  <2>5. Reader'
    BY <2>1, <2>3, <2>4 DEF IInv, Reader
  <2> QED BY <1>2, <1>4, <2>5 DEF IInv
<1>6. CASE next = kbd_tail
  BY <1>2, <1>4, <1>6 DEF Typed, IInv, Reader, Count, Slot, Behind
<1> QED BY <1>5, <1>6

\* The next character leaves the ring, and its slot stays behind kbd_tail.
LEMMA Taken ==
  ASSUME IInv, Advance
  PROVE  /\ Count > 0 /\ Count' = Count - 1
         /\ \A k \in 1 .. Count' : Slot(k)' = Slot(k + 1)
         /\ Slot(1) = kbd_tail /\ Behind' = kbd_tail
         /\ kbd_tail' \in Indices
<1> USE KeyboardAssumption
<1>1. kbd_head \in Indices /\ kbd_tail \in Indices /\ kbd_head # kbd_tail
  BY DEF IInv, TypeOK, Reader, Advance
<1>2. kbd_tail' = IF kbd_tail + 1 < KBDBUF THEN kbd_tail + 1 ELSE 0
  BY <1>1, Modulo DEF Advance, Indices
<1>3. kbd_tail' \in Indices
  BY <1>1, <1>2 DEF Indices
<1>4. Count > 0 /\ Count \in 0 .. KBDBUF - 1
  BY <1>1, CountIs DEF Indices
<1>5. Count' = Count - 1
  <2>1. Count' = (kbd_head + KBDBUF - kbd_tail') % KBDBUF
    BY DEF Count, Advance
  <2>2. Count' = IF kbd_tail' <= kbd_head THEN kbd_head - kbd_tail'
                 ELSE kbd_head - kbd_tail' + KBDBUF
    BY <1>1, <1>3, <2>1, Distance
  <2> QED BY <1>1, <1>2, <2>2, CountIs DEF Indices
<1>6. ASSUME NEW k \in 1 .. Count' PROVE Slot(k)' = Slot(k + 1)
  <2>1. k \in 1 .. KBDBUF /\ k + 1 \in 1 .. KBDBUF
    BY <1>4, <1>5
  <2>2. Slot(k)' = (kbd_tail' + k - 1) % KBDBUF
    BY DEF Slot
  <2>3. Slot(k)' = IF kbd_tail' + k - 1 < KBDBUF THEN kbd_tail' + k - 1
                   ELSE kbd_tail' + k - 1 - KBDBUF
    BY <1>3, <2>1, <2>2, Offset
  <2>4. Slot(k + 1) = (kbd_tail + (k + 1) - 1) % KBDBUF
    BY DEF Slot
  <2> QED BY <1>1, <1>2, <2>1, <2>3, <2>4, Offset DEF Indices
<1>7. Slot(1) = kbd_tail
  BY <1>1, SlotIs DEF Indices
<1>8. Behind' = kbd_tail
  <2>1. Behind' = (kbd_tail' + KBDBUF - 1) % KBDBUF
    BY DEF Behind
  <2>2. Behind' = IF kbd_tail' + KBDBUF - 1 < KBDBUF THEN kbd_tail' + KBDBUF - 1
                  ELSE kbd_tail' + KBDBUF - 1 - KBDBUF
    BY <1>3, <2>1, Offset
  <2> QED BY <1>1, <1>2, <2>2 DEF Indices
<1> QED BY <1>3, <1>4, <1>5, <1>6, <1>7, <1>8

LEMMA AdvanceStep == ASSUME IInv, Advance PROVE IInv'
<1> USE KeyboardAssumption
<1>1. TypeOK' /\ ShiftInv'
  BY Taken DEF Advance, keyboard, IInv, TypeOK, ShiftInv, Down, UpToSend, ShiftHeld,
               LastShiftIsUp, IsShift
<1>2. kbd_buffer[kbd_tail] \in Chars
  <2>1. 1 \in 1 .. Count
    BY Taken, CountIs DEF IInv, TypeOK
  <2> QED BY <2>1, Taken DEF IInv, Reader
<1>3. ASSUME NEW k \in 1 .. Count' PROVE kbd_buffer'[Slot(k)'] \in Chars
  <2>1. k + 1 \in 1 .. Count
    BY Taken, CountIs DEF IInv, TypeOK
  <2> QED BY <2>1, Taken DEF Advance, IInv, Reader
<1>4. Reader'
  BY <1>2, <1>3, Taken DEF Advance, IInv, Reader
<1> QED BY <1>1, <1>4 DEF IInv

LEMMA NextIInv == IInv /\ [Next]_vars => IInv'
<1> SUFFICES ASSUME IInv, [Next]_vars PROVE IInv'
  OBVIOUS
<1> USE KeyboardAssumption
<1>1. ASSUME NEW k \in Keys, Press(k) \/ Release(k) PROVE IInv'
  BY <1>1, PressStep, ReleaseStep
<1>7. CASE Send \/ Lose
  BY <1>7, SendStep, LoseStep
<1>2. CASE ShiftDown \/ ShiftUp \/ Ignored
  <2>1. /\ ReadCode
        /\ UNCHANGED <<keyboard, kbd_buffer, kbd_head, kbd_tail, pc, c, lost>>
        /\ shift' = IF sc.key \in ShiftKeys THEN (IF sc.up THEN 0 ELSE 1) ELSE shift
    BY <1>2 DEF ShiftDown, ShiftUp, Ignored
  <2>2. wire' \in Seq(ScanCodes) /\ Len(wire') <= MaxWire /\ ShiftInv'
    BY <2>1, CodeStep
  <2>3. TypeOK' /\ Reader'
    BY <2>1, <2>2 DEF keyboard, IInv, TypeOK, Reader, Count, Slot, Behind
  <2> QED BY <2>2, <2>3 DEF IInv
<1>3. CASE Typed
  BY <1>3, TypedStep
<1>4. CASE Check \/ Load \/ Return
  <2>1. UNCHANGED <<keyboard, wire, shift, kbd_buffer, kbd_head, kbd_tail, lost>>
    BY <1>4 DEF Check, Load, Return
  <2>2. ShiftInv'
    BY <2>1 DEF keyboard, IInv, ShiftInv, Down, UpToSend, ShiftHeld, LastShiftIsUp, IsShift
  <2>3. TypeOK'
    BY <1>4, <2>1, BehindIs DEF keyboard, Check, Load, Return, IInv, TypeOK, Behind
  <2>4. pc = "nonempty" => kbd_buffer[kbd_tail] \in Chars
    <3>1. pc = "nonempty" => 1 \in 1 .. Count /\ Slot(1) = kbd_tail
      BY CountIs, SlotIs DEF IInv, TypeOK, Reader, Indices
    <3> QED BY <3>1 DEF IInv, Reader
  <2>5. Reader'
    BY <1>4, <2>1, <2>4 DEF Check, Load, Return, IInv, TypeOK, Reader, Count, Slot, Behind
  <2> QED BY <2>2, <2>3, <2>5 DEF IInv
<1>5. CASE Advance
  BY <1>5, AdvanceStep
<1>6. CASE UNCHANGED vars
  BY <1>6 DEF vars, keyboard, IInv, TypeOK, ShiftInv, Down, UpToSend, ShiftHeld,
              LastShiftIsUp, IsShift, Reader, Count, Slot, Behind
<1> QED BY <1>1, <1>2, <1>3, <1>4, <1>5, <1>6, <1>7 DEF Next, keyboardirqh, get_key

\* The inductive invariant holds in every state of the driver.
THEOREM Inductive == Spec => []IInv
  BY InitIInv, NextIInv, PTL DEF Spec

\* The driver's variables keep their types: both indices stay in the ring.
THEOREM TypeCorrect == Spec => []TypeOK
<1>1. IInv => TypeOK
  BY DEF IInv
<1> QED BY <1>1, Inductive, PTL

\* When all codes are read, shift is 1 only for a key that is down, or for what
\* the keyboard lost or made up: for any number of shift and grey keys, in any
\* order, with fake shifts and with codes lost anywhere.
THEOREM ShiftReleased == Spec => []NoStuckShift
<1>1. IInv => NoStuckShift
  BY DEF IInv, TypeOK, ShiftInv, Down, UpToSend, LastShiftIsUp, NoStuckShift
<1> QED BY <1>1, Inductive, PTL

-----------------------------------------------------------------------------
(* The ring is a queue *)

Waiting == [k \in 1 .. Count |-> kbd_buffer[Slot(k)]]

Hand == CASE pc = "advanced" -> kbd_buffer[Behind]
          [] pc = "done"     -> c
          [] OTHER           -> None

LEMMA AppendIs ==
  ASSUME NEW S, NEW s \in Seq(S), NEW e \in S
  PROVE  Append(s, e) = [k \in 1 .. Len(s) + 1 |-> IF k = Len(s) + 1 THEN e ELSE s[k]]
<1> DEFINE t == Append(s, e)
<1>1. t \in Seq(S) /\ Len(t) = Len(s) + 1 /\ Len(s) \in Nat
      /\ \A k \in 1 .. Len(s) + 1 : t[k] = IF k = Len(s) + 1 THEN e ELSE s[k]
  OBVIOUS
<1>2. t \in [1 .. Len(s) + 1 -> S]
  BY <1>1, LenProperties
<1> HIDE DEF t
<1>3. t = [k \in 1 .. Len(s) + 1 |-> t[k]]
  BY <1>2
<1>4. t = [k \in 1 .. Len(s) + 1 |-> IF k = Len(s) + 1 THEN e ELSE s[k]]
  BY <1>1, <1>3
<1> QED BY <1>4 DEF t

LEMMA TailIs ==
  ASSUME NEW S, NEW s \in Seq(S), s # <<>>
  PROVE  Tail(s) = [k \in 1 .. Len(s) - 1 |-> s[k + 1]]
<1> DEFINE t == Tail(s)
<1>1. t \in Seq(S) /\ Len(t) = Len(s) - 1 /\ \A k \in 1 .. Len(s) - 1 : t[k] = s[k + 1]
  OBVIOUS
<1>2. t \in [1 .. Len(s) - 1 -> S]
  BY <1>1, LenProperties
<1> HIDE DEF t
<1>3. t = [k \in 1 .. Len(s) - 1 |-> t[k]]
  BY <1>2
<1>4. t = [k \in 1 .. Len(s) - 1 |-> s[k + 1]]
  BY <1>1, <1>3
<1> QED BY <1>4 DEF t

LEMMA WaitingIsSeq ==
  ASSUME IInv
  PROVE  Waiting \in Seq(Chars) /\ Len(Waiting) = Count /\ Count \in 0 .. KBDBUF - 1
<1>1. Count \in 0 .. KBDBUF - 1
  BY CountIs DEF IInv, TypeOK
<1> QED BY <1>1 DEF IInv, Reader, Waiting

\* Steps that touch neither the ring nor what get_key holds.
LEMMA Unseen ==
  ASSUME IInv, UNCHANGED <<kbd_buffer, kbd_head, kbd_tail, lost>>,
         \/ UNCHANGED <<pc, c>>
         \/ Check
         \/ Load
  PROVE  UNCHANGED <<Waiting, Hand, lost>>
<1>1. Waiting' = Waiting
  BY DEF Waiting, Count, Slot
<1>2. Hand' = Hand
  BY DEF Check, Load, Hand, Behind
<1> QED BY <1>1, <1>2

LEMMA PutStep ==
  ASSUME IInv, Typed, next # kbd_tail
  PROVE  \E ch \in Chars : /\ Len(Waiting) < KBDBUF - 1
                           /\ Waiting' = Append(Waiting, ch)
                           /\ UNCHANGED <<Hand, lost>>
<1> DEFINE ch == [key |-> sc.key, shifted |-> shift]
<1>1. ch \in Chars
  BY DEF Typed, IInv, TypeOK, Chars
<1>2. /\ kbd_buffer' = [kbd_buffer EXCEPT ![kbd_head] = ch]
      /\ kbd_head' = next /\ UNCHANGED <<kbd_tail, pc, c, lost>>
  BY DEF Typed
<1> HIDE DEF ch
<1>3. /\ Count < KBDBUF - 1 /\ Count' = Count + 1
      /\ \A k \in 1 .. Count + 1 : Slot(k)' = Slot(k)
      /\ \A k \in 1 .. Count : kbd_buffer'[Slot(k)] = kbd_buffer[Slot(k)]
      /\ kbd_buffer'[Slot(Count + 1)] = ch
      /\ Behind' = Behind /\ kbd_buffer'[Behind] = kbd_buffer[Behind]
  BY <1>1, <1>2, Stored
<1>4. Waiting' = [k \in 1 .. Count + 1 |-> IF k = Count + 1 THEN ch ELSE kbd_buffer[Slot(k)]]
  <2>1. Count \in Nat
    BY WaitingIsSeq
  <2>2. Waiting' = [k \in 1 .. Count + 1 |-> kbd_buffer'[Slot(k)']]
    BY <1>3 DEF Waiting
  <2>3. ASSUME NEW k \in 1 .. Count + 1
        PROVE  kbd_buffer'[Slot(k)'] = IF k = Count + 1 THEN ch ELSE kbd_buffer[Slot(k)]
    BY <1>3, <2>1
  <2> QED BY <2>2, <2>3
<1>5. Waiting' = Append(Waiting, ch)
  <2>1. Waiting \in Seq(Chars) /\ Len(Waiting) = Count /\ Count \in Nat
    BY WaitingIsSeq
  <2>2. Append(Waiting, ch)
          = [k \in 1 .. Count + 1 |-> IF k = Count + 1 THEN ch ELSE Waiting[k]]
    BY <1>1, <2>1, AppendIs
  <2>3. ASSUME NEW k \in 1 .. Count + 1, k # Count + 1 PROVE Waiting[k] = kbd_buffer[Slot(k)]
    BY <2>1, <2>3 DEF Waiting
  <2> QED BY <1>4, <2>2, <2>3
<1>6. Hand' = Hand
  BY <1>2, <1>3 DEF Hand
<1> QED BY <1>1, <1>2, <1>3, <1>5, <1>6, WaitingIsSeq

LEMMA TakeStep ==
  ASSUME IInv, Advance
  PROVE  /\ Hand = None /\ Waiting # <<>>
         /\ Hand' = Head(Waiting) /\ Waiting' = Tail(Waiting) /\ UNCHANGED lost
<1>1. /\ Count > 0 /\ Count' = Count - 1
      /\ \A k \in 1 .. Count' : Slot(k)' = Slot(k + 1)
      /\ Slot(1) = kbd_tail /\ Behind' = kbd_tail
  BY Taken
<1>2. Waiting \in Seq(Chars) /\ Len(Waiting) = Count /\ Count \in Nat
  BY WaitingIsSeq
<1>3. Waiting' = [k \in 1 .. Count - 1 |-> kbd_buffer[Slot(k + 1)]]
  BY <1>1, <1>2 DEF Waiting, Advance
<1>4. Waiting' = Tail(Waiting)
  <2>1. Tail(Waiting) = [k \in 1 .. Count - 1 |-> Waiting[k + 1]]
    BY <1>1, <1>2, TailIs
  <2>2. \A k \in 1 .. Count - 1 : Waiting[k + 1] = kbd_buffer[Slot(k + 1)]
    BY <1>1, <1>2 DEF Waiting
  <2> QED BY <1>3, <2>1, <2>2
<1>5. Head(Waiting) = kbd_buffer[kbd_tail] /\ Waiting # <<>>
  BY <1>1, <1>2 DEF Waiting
<1>6. Hand = None /\ Hand' = kbd_buffer[kbd_tail]
  BY <1>1 DEF Hand, Advance, IInv, Reader
<1> QED BY <1>4, <1>5, <1>6 DEF Advance

\* The ring buffer implements the queue, for every size of the ring, whichever
\* of the two orders the compiler gives the load and the store in get_key.
THEOREM RingIsQueue == Spec => ImplementsKeyQueue
<1>1. Init => Queue!Init
  <2> SUFFICES ASSUME Init PROVE Queue!Init
    OBVIOUS
  <2>1. Count = 0
    BY KeyboardAssumption, CountIs DEF Init, Indices
  <2> QED BY <2>1 DEF Init, Queue!Init
<1>2. ASSUME IInv, [Next]_vars PROVE [Queue!Next]_(Queue!vars)
  <2>1. /\ Queue!vars = <<Waiting, Hand, lost>>
        /\ Queue!vars' = <<Waiting', Hand', lost'>>
    BY DEF Queue!vars, Waiting, Hand, Slot, Behind
  <2>2. ASSUME \/ \E k \in Keys : Press(k) \/ Release(k)
               \/ Send \/ Lose \/ ShiftDown \/ ShiftUp \/ Ignored \/ Check \/ Load
               \/ UNCHANGED vars
        PROVE  UNCHANGED Queue!vars
    <3>1. /\ UNCHANGED <<kbd_buffer, kbd_head, kbd_tail, lost>>
          /\ UNCHANGED <<pc, c>> \/ Check \/ Load
      BY <2>2 DEF Press, Release, Send, Lose, ShiftDown, ShiftUp, Ignored, Check, Load, vars
    <3> QED BY <1>2, <2>1, <3>1, Unseen
  <2>3. CASE Typed /\ next # kbd_tail
    <3>1. PICK ch \in Chars : /\ Len(Waiting) < KBDBUF - 1
                              /\ Waiting' = Append(Waiting, ch)
                              /\ UNCHANGED <<Hand, lost>>
      BY <1>2, <2>3, PutStep
    <3>2. Queue!Put(ch)
      BY <3>1 DEF Queue!Put, Waiting, Hand, Slot, Behind
    <3> QED BY <3>2 DEF Queue!Next
  <2>4. CASE Typed /\ next = kbd_tail
    <3>1. Len(Waiting) = KBDBUF - 1
      BY <1>2, <2>4, KeyboardAssumption, WaitingIsSeq, CountIs, NextIs
         DEF IInv, TypeOK, Indices
    <3>2. UNCHANGED <<Waiting, Hand>> /\ lost' = 1 - lost
      BY <2>4 DEF Typed, Waiting, Hand, Count, Slot, Behind
    <3>3. Queue!Lose
      BY <3>1, <3>2 DEF Queue!Lose, Waiting, Hand, Slot, Behind
    <3> QED BY <3>3 DEF Queue!Next
  <2>5. CASE Advance
    <3>1. Queue!Take
      BY <1>2, <2>5, TakeStep DEF Queue!Take, Waiting, Hand, Slot, Behind
    <3> QED BY <3>1 DEF Queue!Next
  <2>6. CASE Return
    <3>1. Hand # None /\ Hand' = None
      BY <1>2, <2>6, NoneAssumption DEF Return, Hand, IInv, Reader
    <3>2. UNCHANGED <<Waiting, lost>>
      BY <2>6 DEF Return, Waiting, Count, Slot
    <3>3. Queue!GiveToCaller
      BY <3>1, <3>2 DEF Queue!GiveToCaller, Waiting, Hand, Slot, Behind
    <3> QED BY <3>3 DEF Queue!Next
  <2> QED BY <1>2, <2>2, <2>3, <2>4, <2>5, <2>6 DEF Next, keyboardirqh, get_key
<1> QED BY <1>1, <1>2, Inductive, PTL DEF Spec, ImplementsKeyQueue, Queue!Spec
=============================================================================
