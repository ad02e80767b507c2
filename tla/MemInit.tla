------------------------------ MODULE MemInit ------------------------------
(***************************************************************************)
(* How the kernel finds its memory: the boot sector (src/boot/boot.s, mmap)*)
(* copies the BIOS's memory map to a fixed address, and pmm_init           *)
(* (src/kernel/mm/pmm.c) reads it there, finds room for its bitmap and     *)
(* marks the pages.                                                        *)
(*                                                                         *)
(* The two meet in memory: the boot sector advances by the number of bytes *)
(* that the BIOS says it wrote, the kernel reads structures of five        *)
(* words.  So the map is kept as the words that were written.  Addresses   *)
(* have a low and a high word, as in the code.                             *)
(***************************************************************************)
EXTENDS Integers, Sequences, FiniteSetsExt

CONSTANTS
  PAGE,     \* bytes in a page (4096 in the code)
  WRAP,     \* values of a word: 2^32 in the code
  MB,       \* the address below which the bitmap is not wanted (0x100000)
  BITS,     \* bits in a byte of the bitmap (8)
  LOWMEM,   \* bytes of memory that int 0x12 reports
  Bioses    \* the machines to start on

(***************************************************************************)
(* A BIOS has a memory map (base, length and type, 1 for usable memory),   *)
(* writes entries of 5 or 6 words, and ends the map by returning 0 in ebx  *)
(* with the last entry, or by failing the call after it; one without this  *)
(* function fails the first call.                                          *)
(***************************************************************************)
ASSUME MemInitAssumption ==
  /\ PAGE \in Nat \ {0} /\ WRAP \in Nat \ {0} /\ BITS \in Nat \ {0}
  /\ MB \in Nat \ {0} /\ LOWMEM \in Nat
  /\ \A b \in Bioses : b.words \in {5, 6} /\ b.ending \in {"ebx", "carry", "none"}

VARIABLES
  bios,         \* the machine
  mmap,         \* the words at MMAPADDR
  count,        \* the word at MMAPCOUNT
  pc,
  max_pages, bitmap_size,
  bitmap,       \* its address, 0 for NULL
  free          \* the pages whose bit is clear

vars == <<bios, mmap, count, pc, max_pages, bitmap_size, bitmap, free>>

Init ==
  /\ bios \in Bioses
  /\ mmap = <<>> /\ count = 0
  /\ pc = "e820"
  /\ max_pages = 0 /\ bitmap_size = 0 /\ bitmap = 0
  /\ free = {}

-----------------------------------------------------------------------------
(* The boot sector *)

\* What the BIOS writes for one entry; a sixth word holds the attributes.
Words(e, n) ==
  SubSeq(<<e.base % WRAP, e.base \div WRAP, e.length % WRAP, e.length \div WRAP, e.type, 1>>,
         1, n)

\* One call of int 0x15 that succeeds; count is register si.
E820 ==
  /\ pc = "e820"
  /\ bios.ending # "none"
  /\ count < Len(bios.map)
  /\ mmap' = mmap \o Words(bios.map[count + 1], bios.words)
  /\ count' = count + 1
  /\ pc' = IF count + 1 = Len(bios.map) /\ bios.ending = "ebx" THEN "top" ELSE "e820"
  /\ UNCHANGED <<bios, max_pages, bitmap_size, bitmap, free>>

\* The call fails, also at the end of the map: one entry is made from int
\* 0x12, over what was written so far.
Int12 ==
  /\ pc = "e820"
  /\ bios.ending = "none" \/ count = Len(bios.map)
  /\ mmap' = <<0, 0, LOWMEM, 0, 1, 0>>
  /\ count' = 1
  /\ pc' = "top"
  /\ UNCHANGED <<bios, max_pages, bitmap_size, bitmap, free>>

-----------------------------------------------------------------------------
(* pmm_init *)

\* The entries as the kernel reads them: structures of five words.
Entry(i) ==
  [base_low   |-> mmap[5 * i + 1], base_high   |-> mmap[5 * i + 2],
   length_low |-> mmap[5 * i + 3], length_high |-> mmap[5 * i + 4],
   type       |-> mmap[5 * i + 5]]

UsableEntries == {i \in 0 .. count - 1 : Entry(i).type = 1}

\* base + length, in 32 bits, with the high words added to the low ones.
End(e) == (e.base_low + e.base_high + e.length_low + e.length_high) % WRAP

RoundUp(n, unit) == (n + unit - 1) \div unit

max_addr == Max({0} \cup {End(Entry(i)) : i \in UsableEntries})

\* The highest usable address gives the number of pages.
FindTop ==
  /\ pc = "top"
  /\ \/ /\ max_addr = 0
        /\ pc' = "failed"
        /\ UNCHANGED <<max_pages, bitmap_size>>
     \/ /\ max_addr # 0
        /\ max_pages' = max_addr \div PAGE
        /\ bitmap_size' = RoundUp(max_addr \div PAGE, BITS)
        /\ pc' = "place"
  /\ UNCHANGED <<bios, mmap, count, bitmap, free>>

\* The usable entries with room for the bitmap that begin at address low or
\* above it.
RoomFrom(low) ==
  {i \in UsableEntries : Entry(i).length_low >= bitmap_size /\ Entry(i).base_low >= low}

\* Mutant of PlaceBitmap: the fallback takes address 0 as well, and the
\* length of the entry is not compared.
PlaceBitmap_AnyEntry ==
  /\ pc = "place"
  /\ UsableEntries # {}
  /\ bitmap' = Entry(Min(UsableEntries)).base_low
  /\ pc' = "mark"
  /\ UNCHANGED <<bios, mmap, count, max_pages, bitmap_size, free>>

\* The first such entry above 1 MB, or else the first one that is not at 0.
PlaceBitmap ==
  /\ pc = "place"
  /\ \/ /\ RoomFrom(MB) # {}
        /\ bitmap' = Entry(Min(RoomFrom(MB))).base_low
        /\ pc' = "mark"
     \/ /\ RoomFrom(MB) = {} /\ RoomFrom(1) # {}
        /\ bitmap' = Entry(Min(RoomFrom(1))).base_low
        /\ pc' = "mark"
     \/ /\ RoomFrom(1) = {}
        /\ pc' = "failed"
        /\ UNCHANGED bitmap
  /\ UNCHANGED <<bios, mmap, count, max_pages, bitmap_size, free>>

\* The pages of an entry: from the low words alone, rounded down.
EntryPages(e) ==
  LET start_page == e.base_low \div PAGE
  IN start_page .. start_page + e.length_low \div PAGE - 1

\* All bits set, then cleared for the usable entries.
MarkUsable ==
  /\ pc = "mark"
  /\ free' = {p \in UNION {EntryPages(Entry(i)) : i \in UsableEntries} : p < max_pages}
  /\ pc' = "reserve"
  /\ UNCHANGED <<bios, mmap, count, max_pages, bitmap_size, bitmap>>

\* Mutant of BitmapPages: the incomplete last page is not counted.
BitmapPages_RoundDown ==
  bitmap \div PAGE .. bitmap \div PAGE + bitmap_size \div PAGE - 1

\* The pages that are marked for the bitmap.
BitmapPages ==
  bitmap \div PAGE .. bitmap \div PAGE + RoundUp(bitmap_size, PAGE) - 1

\* The bitmap itself and page 0 are reserved.
Reserve ==
  /\ pc = "reserve"
  /\ free' = free \ (BitmapPages \cup {0})
  /\ pc' = "ready"
  /\ UNCHANGED <<bios, mmap, count, max_pages, bitmap_size, bitmap>>

Next == E820 \/ Int12 \/ FindTop \/ PlaceBitmap \/ MarkUsable \/ Reserve

Spec == Init /\ [][Next]_vars

-----------------------------------------------------------------------------
(* Properties *)

\* The BIOS's own view: the address belongs to usable memory.
Ram(a) ==
  \E k \in DOMAIN bios.map :
    LET e == bios.map[k] IN e.type = 1 /\ e.base <= a /\ a < e.base + e.length

RamPage(p) == \A a \in p * PAGE .. p * PAGE + PAGE - 1 : Ram(a)

BitmapBytes == bitmap .. bitmap + bitmap_size - 1

\* The map of an ordinary machine: page-aligned entries below 4 GB, in the
\* format that the kernel reads, or a single one.
RegularMap(b) ==
  /\ b.map \in Seq([base : Nat, length : Nat, type : Nat])
  /\ b.words = 5 \/ Len(b.map) = 1
  /\ \A k \in DOMAIN b.map :
       LET e == b.map[k] IN
       e.base % PAGE = 0 /\ e.length % PAGE = 0 /\ e.base + e.length < WRAP

\* When pmm_init is done, the free pages are exactly the pages of usable
\* memory below max_pages, without page 0 and without the pages of the
\* bitmap: nothing usable is lost between boot sector and kernel, and nothing
\* else is ever handed out.
FreeIsExact ==
  pc = "ready" =>
    free = {p \in 1 .. max_pages - 1 :
              RamPage(p) /\ \A a \in BitmapBytes : a \div PAGE # p}

\* The machine has no place for the bitmap: the map was replaced by that of int
\* 0x12, whose one entry is at 0, or no usable region elsewhere is long enough.
NoPlace ==
  \/ bios.ending # "ebx"
  \/ \A k \in DOMAIN bios.map :
       LET e == bios.map[k] IN e.type = 1 => e.base = 0 \/ e.length < bitmap_size

\* The bitmap lies in usable memory, has a bit for every page, and every bit
\* that pmm_init sets or clears for its own pages is inside it.  pmm_init gives
\* up, and leaves the allocator without a bitmap, only on a machine that has no
\* place for one, and always on those.
BitmapIsSafe ==
  /\ pc \in {"mark", "reserve", "ready"} =>
       /\ \A a \in BitmapBytes : Ram(a)
       /\ bitmap_size * BITS >= max_pages
       /\ BitmapPages \subseteq 0 .. bitmap_size * BITS - 1
       /\ ~ NoPlace
  /\ pc = "failed" => bitmap = 0 /\ NoPlace

\* pmm.c says of the loop over the entries: "mark usable regions as free (0)".
\* No page that is not usable memory is free.
OnlyUsableFree == pc = "ready" => \A p \in free : RamPage(p)
=============================================================================
