----------------------------- MODULE MCStartup -----------------------------
(* Words of 64 values, pages of 4 bytes, 1 MB at page 4, bitmap bytes of 2 *)
(* bits; PCI bytes of 4 values, two slots of three functions, three BARs.  *)
(*                                                                         *)
(* The regular machines have up to three page-aligned entries in their     *)
(* memory maps, usable or reserved, with gaps or without, in any order     *)
(* (a map of one entry also of six words), and an empty bus; or one map    *)
(* and any set of functions; or one function with any BARs.  The large     *)
(* machine has a hole below 1 MB and memory above 4 GB.                    *)
EXTENDS Startup

CONSTANT MaxEnd   \* where the map of a regular machine ends, in pages
Three == MaxEnd - 3   \* and where a map of three entries does

\* printf's conversions, for all numbers of eight bits and all short texts.
ASSUME FormatAssumption == DecimalReadsBack /\ StringReadsBack

Region(from, to, t) == [base |-> from * PAGE, length |-> (to - from) * PAGE, type |-> t]

Regions(end) == {Region(r[1], r[2], r[3]) :
                   r \in {x \in (0 .. end) \X (0 .. end) \X {1, 2} : x[1] < x[2]}}

Disjoint(d, e) == d.base + d.length <= e.base \/ e.base + e.length <= d.base

RegularMaps ==
  {<<d>> : d \in Regions(MaxEnd)}
    \cup {m \in Regions(MaxEnd) \X Regions(MaxEnd) : Disjoint(m[1], m[2])}
    \cup {x \in Regions(Three) \X Regions(Three) \X Regions(Three) :
            Disjoint(x[1], x[2]) /\ Disjoint(x[2], x[3]) /\ Disjoint(x[1], x[3])}

OneMap == <<Region(1, MaxEnd, 1)>>

-----------------------------------------------------------------------------

NoBars == [n \in 0 .. NBARS - 1 |-> [kind |-> "none", flags |-> 0, size |-> 1, value |-> 0]]

Function(s, n, header, b) ==
  [slot |-> s, func |-> n, vendor |-> 12 + s, device |-> 3 * n + s, header |-> header, bars |-> b]

\* What a slot holds: nothing, one function that may answer under all numbers,
\* or a device with some of the further functions.
Devices(s) ==
  {{}, {Function(s, 0, 0, NoBars)}, {Function(s, n, 0, NoBars) : n \in 0 .. FUNCS - 1}}
    \cup {{Function(s, 0, BYTE \div 2, NoBars)} \cup {Function(s, n, 0, NoBars) : n \in more} :
            more \in SUBSET (1 .. FUNCS - 1)}

Buses == {d \cup e : d \in Devices(0), e \in Devices(1)}

Single == {<<[kind |-> "none", flags |-> 0, size |-> 1, value |-> 0]>>}
            \cup {<<[kind |-> "io", flags |-> 1, size |-> z, value |-> v + 1]>> :
                    z \in {4, 32}, v \in {0, 96}}
            \cup {<<[kind |-> "mem", flags |-> r[1], size |-> r[2], value |-> r[3] + r[1]]>> :
                    r \in {<<0, 16, 0>>, <<0, 16, 48>>, <<8, 64, 64>>, <<0, 128, 128>>}}

\* 64 bits: 32 bytes below or above one word, or twice a word.
Double == {<<[kind |-> "low", flags |-> 4, size |-> r[1], value |-> r[2] + 4],
             [kind |-> "high", flags |-> 0, size |-> r[1], value |-> r[3]]>> :
              r \in {<<32, 0, 0>>, <<32, 224, 0>>, <<32, 64, 5>>, <<512, 0, 6>>}}

Layouts == {x \o y \o z : x \in Single, y \in Single, z \in Single}
             \cup {x \o y : x \in Single, y \in Double} \cup {x \o y : x \in Double, y \in Single}

BarBuses == {{Function(0, 0, 0, [n \in 0 .. NBARS - 1 |-> b[n + 1]])} : b \in Layouts}

-----------------------------------------------------------------------------

Regular ==
  [map : RegularMaps, words : {5}, ending : {"ebx"}, pci : {{}}]
    \cup [map : {<<Region(0, MaxEnd, 1)>>}, words : {5, 6}, ending : {"carry", "none"}, pci : {{}}]
    \cup [map : {<<d>> : d \in Regions(MaxEnd)}, words : {6}, ending : {"ebx"}, pci : {{}}]
    \cup [map : {OneMap}, words : {5}, ending : {"ebx"}, pci : Buses \cup BarBuses]

\* The machines of the run are ordinary ones: what the theorems about the memory
\* map say of these machines is said of all of them.
ASSUME RegularAssumption == \A b \in Regular : RegularMap(b)

Large ==
  {[map |-> <<Region(0, 2, 1), Region(2, 4, 2), Region(4, 12, 1), Region(16, 21, 1)>>,
    words |-> 5, ending |-> "ebx", pci |-> {}]}
=============================================================================
