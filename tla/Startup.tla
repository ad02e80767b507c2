------------------------------ MODULE Startup ------------------------------
(***************************************************************************)
(* The machine's inventory at start-up, kmain (src/kernel/core/init.c) up  *)
(* to the mounting of the disk: the boot sector's memory map is listed     *)
(* (mmp, src/kernel/mm/lmm.c), the page allocator is set up from it        *)
(* (MemInit), the PCI bus is searched (Pci), and what was found is listed. *)
(* A driver may then size the BARs of a function.                          *)
(*                                                                         *)
(* The array for the result of the search is a local variable that nobody  *)
(* has initialised, and the listing goes through all of it.                *)
(***************************************************************************)
EXTENDS MemInit, Format

CONSTANTS
  BYTE, SIZES, SLOTS, FUNCS, NBARS,   \* see Pci
  MAXOUT,   \* entries of kmain's array pcis (1024 in the code)
  WIDTH,    \* hexadecimal digits of a word (8 in the code)
  Times     \* values of ticks

ASSUME StartupAssumption ==
  /\ {BYTE, SIZES, SLOTS, FUNCS, NBARS} \subseteq Nat \ {0}
  /\ MAXOUT \in Nat /\ SLOTS * FUNCS <= MAXOUT
  /\ WRAP <= 16 ^ WIDTH
  /\ Times \subseteq Nat

VARIABLES
  stage,                                          \* where kmain stands
  config, wired, dev, fn, out, target, i, bar,    \* see Pci
  index,                                          \* the loop variable of the listing
  ticks,                                          \* the time of the last line
  log                                             \* the lines on the screen

P == INSTANCE Pci

pci == <<config, wired, dev, fn, out, target, i, bar>>
listing == <<index, ticks, log>>
startupVars == <<vars, stage, pci, listing>>

(***************************************************************************)
(* A machine (a member of Bioses) also has PCI functions, with slot, func, *)
(* vendor, device, header type and BARs.  Vendors are neither 0 nor 0xFFFF.*)
(* A BAR is empty, for ports, for memory, or half of one of 64 bits; it    *)
(* has the flags of its kind below the address, and the size of a region   *)
(* is a power of two, of which only is used that it divides the space of   *)
(* addresses; the address is a multiple of it.                             *)
(***************************************************************************)
IsSingle(b) ==
  /\ b.value \in 0 .. P!DWORD - 1
  /\ \/ b.kind = "none" /\ b.value = 0
     \/ /\ b.kind \in {"io", "mem"}
        /\ b.flags \in (IF b.kind = "io" THEN {1} ELSE {0, 2, 8, 10})
        /\ b.size \in 1 .. P!DWORD - 1 /\ P!DWORD % b.size = 0
        /\ b.size % (IF b.kind = "io" THEN 4 ELSE 16) = 0
        /\ b.value >= b.flags /\ (b.value - b.flags) % b.size = 0

IsDouble(l, h) ==
  /\ l.kind = "low" /\ h.kind = "high"
  /\ l.flags \in {4, 12}
  /\ h.size = l.size
  /\ l.value \in l.flags .. P!DWORD - 1 /\ h.value \in 0 .. P!DWORD - 1
  /\ \/ /\ l.size \in 1 .. P!DWORD - 1 /\ P!DWORD % l.size = 0 /\ l.size % 16 = 0
        /\ (l.value - l.flags) % l.size = 0
     \/ \E q \in 1 .. P!DWORD - 1 :
          /\ l.size = q * P!DWORD /\ P!DWORD % q = 0
          /\ l.value = l.flags /\ h.value % q = 0

IsFunction(f) ==
  /\ f.slot \in 0 .. SLOTS - 1 /\ f.func \in 0 .. FUNCS - 1
  /\ f.vendor \in 1 .. P!WORD - 2 /\ f.device \in 0 .. P!WORD - 1
  /\ f.header \in 0 .. BYTE - 1
  /\ \A n \in 0 .. NBARS - 1 :
       \/ IsSingle(f.bars[n])
       \/ n + 1 < NBARS /\ IsDouble(f.bars[n], f.bars[n + 1])
       \/ n > 0 /\ IsDouble(f.bars[n - 1], f.bars[n])

ASSUME BusAssumption ==
  /\ BYTE % 2 = 0 /\ FUNCS <= 8 /\ NBARS <= 6
  /\ \A b \in Bioses :
       /\ \A f \in b.pci : IsFunction(f)
       /\ \A f, g \in b.pci : f.slot = g.slot /\ f.func = g.func => f = g

\* The registers of a function, as the hardware decodes their address.
Registers(f) ==
  [o \in {0, 4, 8, 12, 60} \cup {P!BarOffset(n) : n \in 0 .. NBARS - 1} |->
     CASE o = 0  -> f.device * P!WORD + f.vendor
       [] o = 12 -> f.header * P!WORD
       [] o \in {4, 8, 60} -> 1
       [] OTHER  -> f.bars[(o - 16) \div 4].value]

Decoded(f) == f.slot * 2048 + f.func * 256

Hardware(b) ==
  [a \in {Decoded(f) : f \in b.pci} |-> CHOOSE f \in b.pci : Decoded(f) = a]

StartupInit ==
  /\ Init
  /\ stage = "boot"
  /\ config = [a \in DOMAIN Hardware(bios) |-> Registers(Hardware(bios)[a])]
  /\ wired = [a \in DOMAIN Hardware(bios) |-> Hardware(bios)[a].bars]
  /\ dev = 0 /\ fn = 0 /\ out = <<>>
  /\ target = -1 /\ i = 0 /\ bar = <<>>
  /\ index = 0 /\ ticks = 0 /\ log = <<>>

\* The boot sector; then the kernel starts.
Boot ==
  /\ stage = "boot"
  /\ E820 \/ Int12
  /\ stage' = IF pc' = "e820" THEN "boot" ELSE "mmp"
  /\ UNCHANGED <<pci, listing>>

\* A line goes to the screen, at some time since the last one.
Log(text) ==
  /\ ticks' \in {t \in Times : t >= ticks}
  /\ log' = Append(log, klog(ticks', text))

\* Number, base and length of the next entry of the memory map.
mmp ==
  LET e == Entry(Len(log)) IN
  /\ stage = "mmp"
  /\ Log(Numeral(Len(log) % 10, 10) \o <<"~">> \o FixedHex(e.base_low, WIDTH)
           \o <<"~">> \o FixedHex(e.length_low, WIDTH) \o <<"~">>)
  /\ stage' = IF Len(log) + 1 = count THEN "pmm" ELSE "mmp"
  /\ UNCHANGED <<vars, pci, index>>

pmm_init ==
  /\ stage = "pmm"
  /\ FindTop \/ PlaceBitmap \/ MarkUsable \/ Reserve
  /\ stage' = IF pc' \in {"ready", "failed"} THEN "pci" ELSE "pmm"
  /\ UNCHANGED <<pci, listing>>

Enumerate ==
  /\ stage = "pci"
  /\ P!pciEnumerate
  /\ stage' = IF dev' = SLOTS THEN "list" ELSE "pci"
  /\ UNCHANGED <<vars, listing>>

DeviceLine(k, d) ==
  printf(<<"~", "%", "d", "~", "%", "d", "~", "%", "d", "~", "%", "d", "~", "%", "x", "~", "%", "x">>,
           <<k, 0, d.dev, d.func, d.vendor, d.device>>)

\* The next entry of the array that was filled.
List ==
  /\ stage = "list"
  /\ index < Len(out)
  /\ Log(DeviceLine(index, out[index + 1]))
  /\ index' = index + 1
  /\ UNCHANGED <<vars, stage, pci>>

\* The rest of the array: what was on the stack, each entry of which is taken
\* for a function unless its vendor happens to be 0.
ListRest ==
  /\ stage = "list"
  /\ index = Len(out)
  /\ \/ UNCHANGED <<ticks, log>>
     \/ /\ ticks' \in {t \in Times : t >= ticks}
        /\ \E n \in 1 .. MAXOUT - index :
             log' = log \o [k \in 1 .. n |-> klog(ticks', <<"?">>)]
  /\ index' = MAXOUT
  /\ stage' = "up"
  /\ UNCHANGED <<vars, pci>>

Driver ==
  /\ stage = "up"
  /\ (\E k \in DOMAIN out : P!pciProbeBars(out[k])) \/ P!SizeBar \/ P!SizeBar64
  /\ UNCHANGED <<vars, stage, listing>>

StartupNext == Boot \/ mmp \/ pmm_init \/ Enumerate \/ List \/ ListRest \/ Driver

StartupSpec == StartupInit /\ [][StartupNext]_startupVars

-----------------------------------------------------------------------------
(* Properties *)

\* What there is to find on the bus: every function 0, and the others of the
\* devices that say they have several.  (A device with one function may answer
\* under all function numbers.)
Reachable ==
  {f \in bios.pci :
     \E g \in bios.pci :
       g.slot = f.slot /\ g.func = 0 /\ (f.func = 0 \/ g.header >= BYTE \div 2)}

\* pciEnumerate finds exactly the functions of the machine, each once, in the
\* order of slots and functions, and reads what they are; it never has more
\* than the caller's array holds.
EveryFunctionFound ==
  /\ Len(out) <= MAXOUT
  /\ stage \in {"list", "up"} =>
       /\ {<<d.dev, d.func, d.vendor, d.device>> : d \in Range(out)}
            = {<<f.slot, f.func, f.vendor, f.device>> : f \in Reachable}
       /\ \A j, k \in DOMAIN out :
            j < k => out[j].dev * FUNCS + out[j].func < out[k].dev * FUNCS + out[k].func

\* The log tells what the machine has.  A reader of the line just written gets
\* back the time, as a decimal fraction of seconds; for an entry of the memory map its words as the kernel read
\* them; and then for each function that was found, in this order, its number,
\* slot, function, vendor and device.  What the stack contributes comes last.
LogReadsBack ==
  LET n == Len(log) IN
  stage \in {"mmp", "pmm", "list"} /\ n > 0 =>
    \E fields \in {Fields(log[n])} :
      LET value(k, base) == Number(fields[k], base) IN
      /\ value(1, 10) * 1000 + value(2, 10) * 10 ^ (3 - Len(fields[2])) = ticks
      /\ n <= count =>
           value(4, 16) = Entry(n - 1).base_low /\ value(5, 16) = Entry(n - 1).length_low
      /\ n > count =>
           LET d == out[n - count] IN
           /\ Len(fields) = 8
           /\ <<value(3, 10), value(4, 10), value(5, 10), value(6, 10)>>
                = <<n - count - 1, 0, d.dev, d.func>>
           /\ value(7, 16) = d.vendor /\ value(8, 16) = d.device

\* Sizing leaves every register as it was.  When it is done, each BAR that has
\* an address is reported with its kind, its address and the low byte of its
\* size; the second half of a 64-bit one, and one without an address, as empty.
BarsExact ==
  /\ \A a \in DOMAIN config : config[a] = Registers(Hardware(bios)[a])
  /\ target # -1 /\ i >= NBARS =>
       \A n \in 0 .. NBARS - 1 :
         LET b == wired[target][n] IN
         /\ bar[n].is_io <=> b.kind = "io"
         /\ bar[n].size = IF b.value = 0 \/ b.kind = "high" THEN 0 ELSE b.size % SIZES
         /\ bar[n].addr = IF b.kind \in {"none", "high"} THEN 0 ELSE b.value - b.flags
=============================================================================
