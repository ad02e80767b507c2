------------------------------ MODULE Keyboard ------------------------------
(***************************************************************************)
(* The keyboard driver of src/kernel/drivers/keyboard.c: an interrupt      *)
(* handler that translates scan codes and fills a ring buffer, and get_key,*)
(* which a task calls to empty it.                                         *)
(*                                                                         *)
(* irq1 enters through an interrupt gate, so the handler runs to its end   *)
(* without being interrupted: it is one step.  get_key runs with interrupts*)
(* enabled; the handler can run between any two of its memory accesses.    *)
(* kbd_head and kbd_tail are volatile and kbd_buffer is not, so a compiler *)
(* may load the buffer slot before or after it stores kbd_tail: the model  *)
(* allows both orders.                                                     *)
(*                                                                         *)
(* The keyboard is the environment.  Its grey keys (arrows, Print Screen)  *)
(* send 0xE0 before their code and may send, behind a 0xE0 of its own, the *)
(* code of a shift key that nobody moved.  The handler drops each 0xE0 like*)
(* any other break code, so that it takes this fake shift for a real one.  *)
(* Keyboard and controller hold only so many codes; what comes beyond them *)
(* is lost.                                                                *)
(***************************************************************************)
EXTENDS Integers, Sequences

CONSTANTS
  KBDBUF,      \* size of the ring buffer (256 in the code)
  CharKeys,    \* keys with a character in both tables
  DeadKeys,    \* keys whose table entries are 0
  ShiftKeys,   \* the two shift keys (0x2A/0xAA and 0x36/0xB6)
  GreyKeys,    \* those of the other keys whose codes come behind 0xE0
  MaxWire,     \* scan codes that keyboard and controller hold
  Prefix,      \* no key: 0xE0 is a break code to the handler
  None

Keys == CharKeys \cup DeadKeys \cup ShiftKeys

ASSUME KeyboardAssumption ==
  /\ KBDBUF \in Nat /\ KBDBUF > 1
  /\ CharKeys \cap DeadKeys = {} /\ CharKeys \cap ShiftKeys = {}
  /\ DeadKeys \cap ShiftKeys = {}
  /\ GreyKeys \subseteq CharKeys \cup DeadKeys
  /\ Prefix \notin Keys
  /\ MaxWire \in Nat

E0 == [key |-> Prefix, up |-> TRUE]

\* The make code of a key, its break code (the make code with bit 7 set), and
\* 0xE0.
ScanCodes == [key : Keys, up : BOOLEAN] \cup {E0}

\* kbdus[sc] and kbdus_shift[sc]: a key has one character in each table.
Chars == [key : CharKeys, shifted : {0, 1}]

ASSUME NoneAssumption == None \notin Chars

Indices == 0 .. KBDBUF - 1

VARIABLES
  held,         \* the keys that are down
  faked,        \* the grey keys that sent a fake make code when they went down
  todo,         \* the rest of the codes that the last key sends
  wire,         \* the scan codes waiting behind port 0x60
  shift,
  kbd_buffer, kbd_head, kbd_tail,
  pc,           \* where the caller of get_key stands
  c,            \* *c, the caller's variable
  lost,         \* history: characters dropped, modulo 2
  misled        \* history: the last break code of a shift key was lost, or the
                \* keyboard sent a fake make code that nothing takes back

keyboard == <<held, faked, todo, misled>>
vars == <<keyboard, wire, shift, kbd_buffer, kbd_head, kbd_tail, pc, c, lost>>

TypeOK ==
  /\ held \in SUBSET Keys
  /\ faked \in SUBSET GreyKeys
  /\ todo \in Seq(ScanCodes)
  /\ wire \in Seq(ScanCodes) /\ Len(wire) <= MaxWire
  /\ shift \in {0, 1}
  /\ kbd_buffer \in [Indices -> Chars \cup {None}]
  /\ kbd_head \in Indices
  /\ kbd_tail \in Indices
  /\ pc \in {"idle", "nonempty", "loaded", "advanced", "done"}
  /\ c \in Chars \cup {None}
  /\ lost \in {0, 1}
  /\ misled \in BOOLEAN

Init ==
  /\ held = {}
  /\ faked = {}
  /\ todo = <<>>
  /\ wire = <<>>
  /\ shift = 0
  /\ kbd_buffer = [k \in Indices |-> None]
  /\ kbd_head = 0
  /\ kbd_tail = 0
  /\ pc = "idle"
  /\ c = None
  /\ lost = 0
  /\ misled = FALSE

-----------------------------------------------------------------------------
(* The keyboard: keys go down (again and again while they are held) and up. *)

ShiftHeld == held \cap ShiftKeys # {}

Code(k, up) ==
  IF k \in GreyKeys THEN <<E0, [key |-> k, up |-> up]>> ELSE <<[key |-> k, up |-> up]>>

FakeShift(s, up) == <<E0, [key |-> s, up |-> up]>>

\* A grey key may first send the opposite of what the shift keys do: arrows do
\* with one state of Num Lock, Print Screen while no shift key is down.
Press(k) ==
  /\ todo = <<>>
  /\ held' = held \cup {k}
  /\ \/ /\ todo' = Code(k, FALSE)
        /\ UNCHANGED faked
     \/ /\ k \in GreyKeys
        /\ \E s \in ShiftKeys : todo' = FakeShift(s, ShiftHeld) \o Code(k, FALSE)
        /\ faked' = IF ShiftHeld THEN faked ELSE faked \cup {k}
  /\ UNCHANGED <<misled, wire, shift, kbd_buffer, kbd_head, kbd_tail, pc, c, lost>>

\* A fake make code is taken back when the key goes up, unless a shift key is
\* down then.  A fake break code is taken back by a make code, which a keyboard
\* may send although the shift key has gone up in the meantime.
Release(k) ==
  /\ todo = <<>>
  /\ k \in held
  /\ held' = held \ {k}
  /\ faked' = faked \ {k}
  /\ \/ /\ k \in faked => ShiftHeld
        /\ todo' = Code(k, TRUE)
     \/ /\ k \in GreyKeys
        /\ \E s \in ShiftKeys, up \in BOOLEAN :
             /\ k \in faked => up
             /\ todo' = Code(k, TRUE) \o FakeShift(s, up)
  /\ UNCHANGED <<misled, wire, shift, kbd_buffer, kbd_head, kbd_tail, pc, c, lost>>

\* The next code goes out; one of a shift key says what its break code will
\* take back, unless nothing is down whose break code could.
Send ==
  /\ todo # <<>> /\ Len(wire) < MaxWire
  /\ todo' = Tail(todo)
  /\ wire' = Append(wire, Head(todo))
  /\ misled' = IF Head(todo).key \in ShiftKeys
                 THEN ~ Head(todo).up /\ ~ ShiftHeld /\ faked = {}
                 ELSE misled
  /\ UNCHANGED <<held, faked, shift, kbd_buffer, kbd_head, kbd_tail, pc, c, lost>>

\* There is no room for it.  (Keyboards replace the last code they hold by an
\* overrun code then, which the handler drops like any break code.)
Lose ==
  /\ todo # <<>> /\ Len(wire) = MaxWire
  /\ todo' = Tail(todo)
  /\ misled' = (misled \/ (Head(todo).key \in ShiftKeys /\ Head(todo).up))
  /\ UNCHANGED <<held, faked, wire, shift, kbd_buffer, kbd_head, kbd_tail, pc, c, lost>>

-----------------------------------------------------------------------------
(* keyboardirqh, called by irq1h *)

\* The code that inb(0x60) returns; there is one when bit 0 of inb(0x64) is set.
sc == Head(wire)

ReadCode ==
  /\ wire # <<>>
  /\ wire' = Tail(wire)

ShiftDown ==
  /\ ReadCode
  /\ sc.key \in ShiftKeys /\ ~ sc.up
  /\ shift' = 1
  /\ UNCHANGED <<keyboard, kbd_buffer, kbd_head, kbd_tail, pc, c, lost>>

\* Mutant of ShiftUp: only one of the two break codes (0xAA) is recognised.
ShiftUp_OneKey ==
  /\ ReadCode
  /\ sc.key \in ShiftKeys /\ sc.up
  /\ shift' = IF sc.key = (CHOOSE k \in ShiftKeys : TRUE) THEN 0 ELSE shift
  /\ UNCHANGED <<keyboard, kbd_buffer, kbd_head, kbd_tail, pc, c, lost>>

ShiftUp ==
  /\ ReadCode
  /\ sc.key \in ShiftKeys /\ sc.up
  /\ shift' = 0
  /\ UNCHANGED <<keyboard, kbd_buffer, kbd_head, kbd_tail, pc, c, lost>>

\* Break codes of other keys, 0xE0, and keys without a character.
Ignored ==
  /\ ReadCode
  /\ \/ sc.key \notin ShiftKeys /\ sc.up
     \/ sc.key \in DeadKeys
  /\ UNCHANGED <<keyboard, shift, kbd_buffer, kbd_head, kbd_tail, pc, c, lost>>

next == (kbd_head + 1) % KBDBUF

\* Mutant of Typed: a full buffer is not recognised.
Typed_Overwrites ==
  /\ ReadCode
  /\ sc.key \in CharKeys /\ ~ sc.up
  /\ kbd_buffer' = [kbd_buffer EXCEPT ![kbd_head] = [key |-> sc.key, shifted |-> shift]]
  /\ kbd_head' = next
  /\ UNCHANGED <<keyboard, shift, kbd_tail, pc, c, lost>>

Typed ==
  /\ ReadCode
  /\ sc.key \in CharKeys /\ ~ sc.up
  /\ \/ /\ next # kbd_tail
        /\ kbd_buffer' = [kbd_buffer EXCEPT ![kbd_head] =
                            [key |-> sc.key, shifted |-> shift]]
        /\ kbd_head' = next
        /\ UNCHANGED lost
     \/ /\ next = kbd_tail
        /\ lost' = 1 - lost
        /\ UNCHANGED <<kbd_buffer, kbd_head>>
  /\ UNCHANGED <<keyboard, shift, kbd_tail, pc, c>>

keyboardirqh == ShiftDown \/ ShiftUp \/ Ignored \/ Typed

-----------------------------------------------------------------------------
(* get_key *)

\* Mutant of Check: a full buffer is taken for an empty one.
Check_FullIsEmpty ==
  /\ pc = "idle"
  /\ kbd_head # kbd_tail /\ next # kbd_tail
  /\ pc' = "nonempty"
  /\ UNCHANGED <<keyboard, wire, shift, kbd_buffer, kbd_head, kbd_tail, c, lost>>

\* A buffer that is empty makes get_key return 0 and changes nothing.
Check ==
  /\ pc = "idle"
  /\ kbd_head # kbd_tail
  /\ pc' = "nonempty"
  /\ UNCHANGED <<keyboard, wire, shift, kbd_buffer, kbd_head, kbd_tail, c, lost>>

\* *c = kbd_buffer[kbd_tail], where kbd_tail was read before it is stored.
Load ==
  /\ \/ /\ pc = "nonempty"
        /\ c' = kbd_buffer[kbd_tail]
        /\ pc' = "loaded"
     \/ /\ pc = "advanced"
        /\ c' = kbd_buffer[(kbd_tail + KBDBUF - 1) % KBDBUF]
        /\ pc' = "done"
  /\ UNCHANGED <<keyboard, wire, shift, kbd_buffer, kbd_head, kbd_tail, lost>>

Advance ==
  /\ \/ pc = "nonempty" /\ pc' = "advanced"
     \/ pc = "loaded" /\ pc' = "done"
  /\ kbd_tail' = (kbd_tail + 1) % KBDBUF
  /\ UNCHANGED <<keyboard, wire, shift, kbd_buffer, kbd_head, c, lost>>

Return ==
  /\ pc = "done"
  /\ pc' = "idle"
  /\ c' = None
  /\ UNCHANGED <<keyboard, wire, shift, kbd_buffer, kbd_head, kbd_tail, lost>>

get_key == Check \/ Load \/ Advance \/ Return

Next ==
  \/ \E k \in Keys : Press(k) \/ Release(k)
  \/ Send
  \/ Lose
  \/ keyboardirqh
  \/ get_key

\* The shell calls get_key in every turn of its loop and the interrupt is
\* unmasked; what the user does is not constrained.
Spec == Init /\ [][Next]_vars /\ WF_vars(get_key) /\ WF_vars(keyboardirqh)

-----------------------------------------------------------------------------
(* Properties *)

\* Once the handler has read all codes, shift is 1 only if a shift key is down,
\* if a grey key is that sent a fake shift (handler: E0 2A is taken for 2A), or
\* if the keyboard left it so: its last break code of a shift key found no room,
\* or it sent a fake make code with no shift key down.  Whatever got lost
\* before, the next break code of either shift key that arrives ends it.
NoStuckShift ==
  todo = <<>> /\ wire = <<>> /\ shift = 1 => ShiftHeld \/ faked # {} \/ misled

\* The number of characters in the ring.
Count == (kbd_head + KBDBUF - kbd_tail) % KBDBUF

\* A reader that keeps calling get_key makes room again in a full buffer,
\* however fast the keys come.
FullDrains == Count = KBDBUF - 1 ~> Count < KBDBUF - 1

Queue == INSTANCE KeyQueue WITH
  Cap <- KBDBUF - 1,
  queue <- [k \in 1 .. Count |-> kbd_buffer[(kbd_tail + k - 1) % KBDBUF]],
  hand <- CASE pc = "advanced" -> kbd_buffer[(kbd_tail + KBDBUF - 1) % KBDBUF]
            [] pc = "done"     -> c
            [] OTHER           -> None

\* The ring buffer shared by keyboardirqh and get_key without a lock is a
\* first-in first-out queue of KBDBUF - 1 characters: none is duplicated,
\* reordered, torn or lost while there is room, in whichever order get_key
\* loads the slot and advances kbd_tail.
ImplementsKeyQueue == Queue!Spec
=============================================================================
