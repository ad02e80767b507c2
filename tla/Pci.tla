-------------------------------- MODULE Pci --------------------------------
(***************************************************************************)
(* PCI configuration (src/kernel/drivers/pci.c): finding the functions on  *)
(* bus 0, and sizing the base address registers (BARs) of one of them by   *)
(* writing ones to them and reading back what sticks.                      *)
(*                                                                         *)
(* A register is a double word of four bytes.  Bytes have BYTE values, 256 *)
(* in the code, so that 0xFF is BYTE - 1 and the bit 0x80 is BYTE \div 2.  *)
(***************************************************************************)
EXTENDS Integers, Sequences, FiniteSetsExt

CONSTANTS
  BYTE,      \* values of a byte
  SIZES,     \* values of the field size of a BAR, which is a uint8_t
  SLOTS,     \* devices on the bus (32 in the code)
  FUNCS,     \* functions of a device (8)
  NBARS      \* BARs of a function (6)

WORD == BYTE * BYTE
DWORD == WORD * WORD

VARIABLES
  config,    \* the registers: from addresses of functions to offsets to values
  wired,     \* what is behind their BARs: see Sticks
  dev, fn,   \* pciEnumerate's loop variables dev and f
  out,       \* and its result
  target,    \* the function pciProbeBars is about, or -1
  i, bar     \* its loop variable and result

-----------------------------------------------------------------------------
(* The configuration space *)

\* What is written to CONFIG_ADDRESS, without the offset of the register.
Address(slot, func) == slot * 2048 + func * 256

\* Where no function answers, all bits are ones.
pciConfigReadDword(c, a, offset) == IF a \in DOMAIN c THEN c[a][offset] ELSE DWORD - 1

BarOffset(n) == 16 + 4 * n

(***************************************************************************)
(* What the hardware keeps of a value v written to a BAR: the bits above   *)
(* the size of the region, and its flags.  Of a 64-bit register, "low" and *)
(* "high" are the halves.                                                  *)
(***************************************************************************)
Sticks(b, v) ==
  CASE b.kind = "none" -> 0
    [] b.kind = "high" -> v - (v % Max({1, b.size \div DWORD}))
    [] OTHER           -> v - (v % Min({b.size, DWORD})) + b.flags

pciConfigWriteDword(c, a, n, v) == [c EXCEPT ![a][BarOffset(n)] = Sticks(wired[a][n], v)]

-----------------------------------------------------------------------------
(* Enumeration *)

\* dword >> 8 * n
Shift(dword, n) == dword \div <<1, BYTE, WORD, BYTE * WORD>>[n + 1]

get_byte(dword, offset) == Shift(dword, offset % 4) % BYTE
get_word(dword, offset) == Shift(dword, 2 * ((offset \div 2) % 2)) % WORD

\* A function as pciProbeDevice reads it.  BARs and interrupt only for header
\* type 0, so not where it says that the device has several functions.
pciProbeDevice(slot, func) ==
  LET Read(offset) == pciConfigReadDword(config, Address(slot, func), offset)
      header_type == get_byte(Read(12), 2)
  IN
  [dev |-> slot, func |-> func,
   vendor |-> get_word(Read(0), 0), device |-> get_word(Read(0), 2),
   status |-> get_word(Read(4), 2), command |-> get_word(Read(4), 0),
   class |-> get_byte(Read(8), 3), subclass |-> get_byte(Read(8), 2),
   prog_if |-> get_byte(Read(8), 1), header_type |-> header_type,
   addr |-> [n \in 0 .. NBARS - 1 |-> IF header_type = 0 THEN Read(BarOffset(n)) ELSE 0],
   int_line |-> IF header_type = 0 THEN get_byte(Read(60), 1) ELSE 0]

Answers(slot, func) == pciProbeDevice(slot, func).vendor # WORD - 1

\* Mutant of Functions: all functions of every device are asked.
Functions_All(slot) == FUNCS

\* How many functions of a slot are asked: others than function 0 only if that
\* one answers and its header says so.
Functions(slot) ==
  IF Answers(slot, 0) /\ pciProbeDevice(slot, 0).header_type >= BYTE \div 2 THEN FUNCS ELSE 1

\* One function is asked: a turn of the inner loop, or the head of the outer one.
pciEnumerate ==
  /\ dev < SLOTS
  /\ out' = IF Answers(dev, fn) THEN Append(out, pciProbeDevice(dev, fn)) ELSE out
  /\ \/ fn + 1 < Functions(dev) /\ fn' = fn + 1 /\ dev' = dev
     \/ fn + 1 >= Functions(dev) /\ fn' = 0 /\ dev' = dev + 1
  /\ UNCHANGED <<config, wired, target, i, bar>>

-----------------------------------------------------------------------------
(* Sizing *)

NoBar == [is_io |-> FALSE, size |-> 0, addr |-> 0]

\* A driver calls pciProbeBars for a function that was found.
pciProbeBars(f) ==
  /\ target = -1
  /\ target' = Address(f.dev, f.func)
  /\ bar' = [n \in 0 .. NBARS - 1 |-> [NoBar EXCEPT !.addr = f.addr[n]]]
  /\ UNCHANGED <<config, wired, dev, fn, out, i>>

\* Ones are written, what sticks is read, and the register is restored.
Orig(n) == pciConfigReadDword(config, target, BarOffset(n))
Probe(n) ==
  pciConfigReadDword(pciConfigWriteDword(config, target, n, DWORD - 1), target, BarOffset(n))

\* Mutant of Restored: the second half of a 64-bit BAR keeps the ones.
Restored_Half(c, n) == pciConfigWriteDword(c, target, n, IF n = i THEN Orig(n) ELSE DWORD - 1)

Restored(c, n) == pciConfigWriteDword(c, target, n, Orig(n))

\* Above the low bits, which hold flags, the two's complement of what sticks
\* is the size; it is stored in a field of one byte.
SizeOf(probe, low, width) == ((width - (probe - (probe % low))) % width) % SIZES

Is64Bit(n) == Probe(n) % 2 = 0 /\ (Probe(n) \div 2) % 4 = 2 /\ n + 1 < NBARS

\* One BAR: empty, for ports, or for memory.
SizeBar ==
  LET low == IF Probe(i) % 2 = 1 THEN 4 ELSE 16 IN
  /\ target # -1 /\ i < NBARS
  /\ Orig(i) = 0 \/ ~ Is64Bit(i)
  /\ bar' = [bar EXCEPT ![i] =
               IF Orig(i) = 0 \/ Probe(i) = 0 THEN [@ EXCEPT !.size = 0, !.is_io = FALSE]
               ELSE [is_io |-> Probe(i) % 2 = 1, size |-> SizeOf(Probe(i), low, DWORD),
                     addr |-> Orig(i) - (Orig(i) % low)]]
  /\ config' = IF Orig(i) = 0 THEN config ELSE Restored(config, i)
  /\ i' = i + 1
  /\ UNCHANGED <<wired, dev, fn, out, target>>

\* A 64-bit BAR takes two registers; the low half of its address is kept.
SizeBar64 ==
  /\ target # -1 /\ i < NBARS
  /\ Orig(i) # 0 /\ Is64Bit(i)
  /\ bar' = [bar EXCEPT ![i] = [is_io |-> FALSE,
                                size |-> SizeOf(Probe(i + 1) * DWORD + Probe(i), 16, DWORD * DWORD),
                                addr |-> Orig(i) - (Orig(i) % 16)],
                        ![i + 1] = NoBar]
  /\ config' = Restored(Restored(config, i), i + 1)
  /\ i' = i + 2
  /\ UNCHANGED <<wired, dev, fn, out, target>>
=============================================================================
