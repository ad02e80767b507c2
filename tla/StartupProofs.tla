--------------------------- MODULE StartupProofs ---------------------------
(***************************************************************************)
(* Start-up for every machine: the pages that pmm_init frees and the place *)
(* of its bitmap for every ordinary memory map, the functions that         *)
(* pciEnumerate finds on every bus, and the BARs that pciProbeBars sizes.  *)
(***************************************************************************)
EXTENDS Startup, WellFoundedInduction, TLAPS

-----------------------------------------------------------------------------
(* Numbers *)

LEMMA Least ==
  ASSUME NEW T \in SUBSET Nat, T # {}
  PROVE  \E m \in T : \A k \in T : m <= k
<1>1. PICK m \in T : \A k \in T : ~ (<<k, m>> \in OpToRel(<, Nat))
  BY NatLessThanWellFounded, WFMin
<1>2. ASSUME NEW k \in T PROVE m <= k
  <2>1. k < m => <<k, m>> \in OpToRel(<, Nat)
    BY DEF OpToRel
  <2>2. ~ (k < m)
    BY <1>1, <2>1
  <2> QED BY <2>2
<1> QED BY <1>2

LEMMA MinIs ==
  ASSUME NEW T \in SUBSET Nat, T # {}
  PROVE  Min(T) \in T
  BY Least DEF Min

\* The largest of numbers below a bound.
LEMMA MaxIs ==
  ASSUME NEW T \in SUBSET Nat, T # {}, NEW w \in Nat, \A x \in T : x <= w
  PROVE  Max(T) \in T /\ \A x \in T : x <= Max(T)
<1> DEFINE U == {w - x : x \in T}
<1>1. U \in SUBSET Nat /\ U # {}
  <2>1. \A x \in T : w - x \in Nat
    OBVIOUS
  <2> QED BY <2>1
<1>2. PICK m \in U : \A k \in U : m <= k
  BY <1>1, Least
<1>3. PICK top \in T : m = w - top
  OBVIOUS
<1>4. ASSUME NEW x \in T PROVE top >= x
  <2>1. w - top <= w - x
    BY <1>2, <1>3
  <2> QED BY <2>1
<1> QED BY <1>3, <1>4 DEF Max

LEMMA Division ==
  ASSUME NEW n \in Nat, NEW u \in Nat \ {0}
  PROVE  /\ n \div u \in Nat /\ n % u \in 0 .. u - 1
         /\ n = (n \div u) * u + (n % u)
<1>1. n \div u \in Nat /\ n % u \in 0 .. u - 1
  OBVIOUS
<1>2. n = u * (n \div u) + (n % u)
  OBVIOUS
<1>3. u * (n \div u) = (n \div u) * u
  BY <1>1
<1> QED BY <1>1, <1>2, <1>3

\* Quotient and remainder are determined by their bounds.
LEMMA Quotient ==
  ASSUME NEW q \in Nat, NEW u \in Nat \ {0}, NEW r \in 0 .. u - 1
  PROVE  (q * u + r) \div u = q /\ (q * u + r) % u = r
<1> DEFINE n == q * u + r  t == n \div u  s == n % u
<1>1. q * u \in Nat /\ n \in Nat
  OBVIOUS
<1>2. t \in Nat /\ s \in 0 .. u - 1 /\ n = t * u + s
  BY <1>1, Division
<1>3. t * u \in Nat
  BY <1>2
<1>4. ~ (t < q)
  <2> SUFFICES ASSUME t < q PROVE FALSE
    OBVIOUS
  <2>1. q = t + (q - t) /\ q - t \in Nat /\ q - t >= 1
    BY <1>2
  <2>2. q * u = t * u + (q - t) * u /\ (q - t) * u >= u
    BY <2>1, <1>2
  <2> HIDE DEF t, s
  <2> QED BY <1>1, <1>2, <1>3, <2>2
<1>5. ~ (q < t)
  <2> SUFFICES ASSUME q < t PROVE FALSE
    OBVIOUS
  <2>1. t = q + (t - q) /\ t - q \in Nat /\ t - q >= 1
    BY <1>2
  <2>2. t * u = q * u + (t - q) * u /\ (t - q) * u >= u
    BY <2>1, <1>2
  <2> HIDE DEF t, s
  <2> QED BY <1>1, <1>2, <1>3, <2>2
<1>6. t = q
  BY <1>2, <1>4, <1>5
<1> QED BY <1>1, <1>2, <1>3, <1>6

LEMMA Exact ==
  ASSUME NEW q \in Nat, NEW u \in Nat \ {0}, NEW n, n = q * u
  PROVE  n \div u = q /\ n % u = 0
<1>1. n = q * u + 0 /\ 0 \in 0 .. u - 1
  OBVIOUS
<1>2. (q * u + 0) \div u = q /\ (q * u + 0) % u = 0
  BY <1>1, Quotient
<1> QED BY <1>1, <1>2, Zenon

LEMMA Small ==
  ASSUME NEW u \in Nat \ {0}, NEW n \in 0 .. u - 1
  PROVE  n \div u = 0 /\ n % u = n
<1>1. n = 0 * u + n
  OBVIOUS
<1>2. (0 * u + n) \div u = 0 /\ (0 * u + n) % u = n
  BY Quotient
<1> QED BY <1>1, <1>2, Zenon

\* Numbers of whole units are compared as the units are.
LEMMA Units ==
  ASSUME NEW m \in Nat, NEW n \in Nat, NEW u \in Nat \ {0}
  PROVE  /\ m * u \in Nat /\ n * u \in Nat
         /\ m < n => m * u + u <= n * u
         /\ m <= n <=> m * u <= n * u
         /\ (m + n) * u = m * u + n * u
<1>1. m * u \in Nat /\ n * u \in Nat /\ (m + n) * u = m * u + n * u
  OBVIOUS
<1>2. ASSUME NEW a \in Nat, NEW b \in Nat, a < b PROVE a * u + u <= b * u
  <2>1. b = a + (b - a) /\ b - a \in Nat /\ b - a >= 1
    BY <1>2
  <2>2. b * u = a * u + (b - a) * u /\ (b - a) * u >= u
    BY <2>1
  <2> QED BY <2>2
<1>3. m < n => m * u + u <= n * u
  BY <1>2
<1>4. n < m => n * u + u <= m * u
  BY <1>2
<1> QED BY <1>1, <1>3, <1>4

LEMMA Whole ==
  ASSUME NEW n \in Nat, NEW u \in Nat \ {0}, n % u = 0
  PROVE  n \div u \in Nat /\ n = (n \div u) * u
  BY Division

\* RoundUp is the least number of units that has room for n.
LEMMA RoundUpIs ==
  ASSUME NEW n \in Nat, NEW u \in Nat \ {0}
  PROVE  /\ RoundUp(n, u) \in Nat /\ RoundUp(n, u) * u \in Nat
         /\ n <= RoundUp(n, u) * u /\ RoundUp(n, u) * u < n + u
<1> DEFINE q == (n + u - 1) \div u
<1>1. n + u - 1 \in Nat
  OBVIOUS
<1>2. q \in Nat /\ (n + u - 1) % u \in 0 .. u - 1 /\ n + u - 1 = q * u + ((n + u - 1) % u)
  BY <1>1, Division
<1>3. q * u \in Nat
  BY <1>2
<1>4. RoundUp(n, u) = q
  BY DEF RoundUp
<1> HIDE DEF q
<1> QED BY <1>2, <1>3, <1>4

-----------------------------------------------------------------------------
(* The memory map *)

\* An entry of an ordinary map, as the kernel reads it.
AsRead(e) ==
  [base_low |-> e.base, base_high |-> 0, length_low |-> e.length, length_high |-> 0,
   type |-> e.type]

\* The first n entries are there, where the kernel looks for them.
Copied(n) == \A k \in 0 .. n - 1 : Entry(k) = AsRead(bios.map[k + 1])

\* While the boot sector copies: the next entry goes to the place where the
\* kernel looks for it, unless the map is complete.
Copying ==
  /\ mmap \in Seq(Nat)
  /\ count \in 0 .. Len(bios.map)
  /\ count < Len(bios.map) => Len(mmap) = 5 * count
  /\ count = Len(bios.map) => bios.ending # "ebx" \/ count = 0
  /\ Copied(count)

\* The map is the BIOS's, or the single entry from int 0x12.
FromBios == bios.ending = "ebx" /\ count = Len(bios.map) /\ Copied(count)

FromInt12 ==
  /\ bios.ending # "ebx" \/ Len(bios.map) = 0
  /\ count = 1
  /\ Entry(0) = AsRead([base |-> 0, length |-> LOWMEM, type |-> 1])

\* No usable entry reaches beyond the pages that the bitmap is made for.
Topped ==
  /\ max_pages \in Nat
  /\ bitmap_size = RoundUp(max_pages, BITS)
  /\ FromBios =>
       \A k \in DOMAIN bios.map :
         bios.map[k].type = 1 => bios.map[k].base + bios.map[k].length <= max_pages * PAGE

\* The bitmap is at the beginning of a usable entry that has room for it.
Placed ==
  /\ FromBios
  /\ \E k \in DOMAIN bios.map :
       /\ bios.map[k].type = 1
       /\ bitmap = bios.map[k].base /\ bitmap # 0
       /\ bios.map[k].length >= bitmap_size

\* What is known at each point, from the boot sector's first call of the BIOS to
\* the end of pmm_init.
MemInv ==
  /\ bios \in Bioses
  /\ RegularMap(bios) =>
       /\ pc = "e820" => Copying
       /\ pc # "e820" => FromBios \/ FromInt12
       /\ pc \in {"e820", "top", "place"} => bitmap = 0
       /\ pc \in {"place", "mark", "reserve", "ready"} => Topped
       /\ pc \in {"mark", "reserve", "ready"} => Placed
       /\ pc = "reserve" => free = {n \in 0 .. max_pages - 1 : RamPage(n)}
       /\ FreeIsExact
       /\ pc = "failed" => bitmap = 0 /\ NoPlace

LEMMA Constants ==
  /\ PAGE \in Nat \ {0} /\ WRAP \in Nat \ {0} /\ BITS \in Nat \ {0}
  /\ MB \in Nat \ {0} /\ LOWMEM \in Nat
  BY MemInitAssumption

LEMMA SeqIs ==
  ASSUME NEW R, NEW s \in Seq(R)
  PROVE  Len(s) \in Nat /\ DOMAIN s = 1 .. Len(s) /\ \A k \in DOMAIN s : s[k] \in R
  OBVIOUS

LEMMA Longer ==
  ASSUME NEW R, NEW s \in Seq(R), NEW w \in Seq(R)
  PROVE  /\ s \o w \in Seq(R) /\ Len(s \o w) = Len(s) + Len(w)
         /\ \A j \in 1 .. Len(s) : (s \o w)[j] = s[j]
         /\ \A j \in 1 .. Len(w) : (s \o w)[Len(s) + j] = w[j]
  OBVIOUS

LEMMA MapIs ==
  ASSUME RegularMap(bios)
  PROVE  /\ Len(bios.map) \in Nat /\ DOMAIN bios.map = 1 .. Len(bios.map)
         /\ bios.words = 5 \/ Len(bios.map) = 1
         /\ \A k \in DOMAIN bios.map : bios.map[k] \in [base : Nat, length : Nat, type : Nat]
<1>1. bios.map \in Seq([base : Nat, length : Nat, type : Nat])
  BY Zenon DEF RegularMap
<1>2. bios.words = 5 \/ Len(bios.map) = 1
  BY Zenon DEF RegularMap
<1> QED BY <1>1, <1>2, SeqIs, Zenon

\* Base and length of an entry are whole pages.
LEMMA EntryIs ==
  ASSUME RegularMap(bios), NEW k \in DOMAIN bios.map, NEW e, e = bios.map[k]
  PROVE  /\ e.base \in Nat /\ e.length \in Nat /\ e.type \in Nat
         /\ e.base + e.length < WRAP
         /\ e.base \div PAGE \in Nat /\ e.base = (e.base \div PAGE) * PAGE
         /\ e.length \div PAGE \in Nat /\ e.length = (e.length \div PAGE) * PAGE
<1>1. e \in [base : Nat, length : Nat, type : Nat]
  BY MapIs
<1>2. e.base % PAGE = 0 /\ e.length % PAGE = 0 /\ e.base + e.length < WRAP
  <2>1. \A j \in DOMAIN bios.map :
          /\ bios.map[j].base % PAGE = 0 /\ bios.map[j].length % PAGE = 0
          /\ bios.map[j].base + bios.map[j].length < WRAP
    BY Zenon DEF RegularMap
  <2> QED BY <2>1
<1> QED BY <1>1, <1>2, Whole, Constants

\* The words that the BIOS writes.
LEMMA WordsAre ==
  ASSUME RegularMap(bios), NEW k \in DOMAIN bios.map, NEW n \in {5, 6}
  PROVE  LET e == bios.map[k]
             w == Words(e, n)
         IN /\ w \in Seq(Nat) /\ Len(w) = n /\ Len(w) \in Nat /\ Len(w) >= 5
            /\ w[1] = e.base /\ w[2] = 0 /\ w[3] = e.length /\ w[4] = 0 /\ w[5] = e.type
<1> DEFINE e == bios.map[k]
           w == Words(e, n)
<1>1. /\ e.base \in Nat /\ e.length \in Nat /\ e.type \in Nat
      /\ e.base < WRAP /\ e.length < WRAP
  <2>1. e.base \in Nat /\ e.length \in Nat /\ e.type \in Nat /\ e.base + e.length < WRAP
    BY EntryIs
  <2> QED BY <2>1, Constants
<1>2. /\ e.base % WRAP = e.base /\ e.base \div WRAP = 0
      /\ e.length % WRAP = e.length /\ e.length \div WRAP = 0
  <2>1. ASSUME NEW x \in Nat, x < WRAP PROVE x % WRAP = x /\ x \div WRAP = 0
    <3>1. 0 * WRAP + x = x /\ x \in 0 .. WRAP - 1
      BY <2>1, Constants
    <3> QED BY <3>1, Quotient, Constants
  <2> QED BY <1>1, <2>1
<1> DEFINE t == <<e.base, 0, e.length, 0, e.type, 1>>
<1>3. w = SubSeq(t, 1, n)
  BY <1>2 DEF Words
<1> HIDE DEF e, w
<1>4. t \in Seq(Nat) /\ Len(t) = 6
  BY <1>1
<1>5. /\ w \in Seq(Nat) /\ Len(w) = n /\ Len(w) \in Nat /\ Len(w) >= 5
      /\ w[1] = e.base /\ w[2] = 0 /\ w[3] = e.length /\ w[4] = 0 /\ w[5] = e.type
  BY <1>3, <1>4
<1> QED BY <1>5 DEF e, w

LEMMA CopyStep ==
  ASSUME RegularMap(bios), bios \in Bioses, Copying, E820
  PROVE  IF pc' = "e820" THEN Copying' ELSE FromBios'
<1>1. bios' = bios /\ count' = count + 1 /\ count < Len(bios.map)
      /\ mmap' = mmap \o Words(bios.map[count + 1], bios.words)
  BY DEF E820
<1>2. /\ mmap \in Seq(Nat) /\ count \in Nat /\ Len(bios.map) \in Nat
      /\ Len(mmap) = 5 * count /\ Copied(count)
      /\ DOMAIN bios.map = 1 .. Len(bios.map)
  BY <1>1, MapIs DEF Copying
<1> DEFINE e == bios.map[count + 1]
           w == Words(e, bios.words)
<1>3. count + 1 \in DOMAIN bios.map
  BY <1>1, <1>2
<1>5. /\ w \in Seq(Nat) /\ Len(w) = bios.words /\ Len(w) \in Nat /\ Len(w) >= 5
      /\ w[1] = e.base /\ w[2] = 0 /\ w[3] = e.length /\ w[4] = 0 /\ w[5] = e.type
  <2>1. bios.words \in {5, 6}
    BY MemInitAssumption, Zenon
  <2> QED BY <1>3, <2>1, WordsAre, Zenon
<1> HIDE DEF w
<1>6. mmap' = mmap \o w /\ mmap' \in Seq(Nat) /\ Len(mmap') = 5 * count + Len(w)
  <2>1. mmap' = mmap \o w
    BY <1>1 DEF w
  <2>2. mmap \in Seq(Nat) /\ w \in Seq(Nat) /\ Len(mmap) = 5 * count
    BY <1>2, <1>5, Zenon
  <2>3. mmap \o w \in Seq(Nat) /\ Len(mmap \o w) = Len(mmap) + Len(w)
    BY <2>2, Longer
  <2> QED BY <2>1, <2>2, <2>3, Zenon
<1>7. ASSUME NEW k \in 0 .. count PROVE Entry(k)' = AsRead(bios.map[k + 1])
  <2>1. CASE k < count
    <3>1. /\ 5 * k + 1 \in 1 .. Len(mmap) /\ 5 * k + 2 \in 1 .. Len(mmap)
          /\ 5 * k + 3 \in 1 .. Len(mmap) /\ 5 * k + 4 \in 1 .. Len(mmap)
          /\ 5 * k + 5 \in 1 .. Len(mmap)
      BY <1>2, <2>1
    <3>2. ASSUME NEW j \in 1 .. Len(mmap) PROVE mmap'[j] = mmap[j]
      BY <1>2, <1>5, <1>6, Longer
    <3>3. Entry(k)' = Entry(k)
      BY <3>1, <3>2 DEF Entry
    <3> QED BY <1>2, <2>1, <3>3 DEF Copied
  <2>2. CASE k = count
    <3>1. ASSUME NEW j \in 1 .. 5 PROVE mmap'[5 * count + j] = w[j]
      <4>1. j \in 1 .. Len(w)
        BY <1>5
      <4>2. (mmap \o w)[Len(mmap) + j] = w[j]
        <5>1. mmap \in Seq(Nat) /\ w \in Seq(Nat)
          BY <1>2, <1>5, Zenon
        <5> QED BY <5>1, <4>1, Longer
      <4> QED BY <1>2, <1>6, <4>2, Zenon
    <3>2. /\ mmap'[5 * count + 1] = e.base /\ mmap'[5 * count + 2] = 0
          /\ mmap'[5 * count + 3] = e.length /\ mmap'[5 * count + 4] = 0
          /\ mmap'[5 * count + 5] = e.type
      BY <3>1, <1>5
    <3> QED BY <2>2, <3>2 DEF Entry, AsRead
  <2> QED BY <1>2, <2>1, <2>2
<1>8. Copied(count)'
  BY <1>1, <1>2, <1>7 DEF Copied
<1>9. count' < Len(bios'.map) => Len(mmap') = 5 * count'
  <2> SUFFICES ASSUME count + 1 < Len(bios.map) PROVE Len(w) = 5
    <3>1. ASSUME NEW n, n = 5 * count + 5 PROVE n = 5 * (count + 1)
      BY <1>2, <3>1
    <3> QED BY <1>1, <1>6, <3>1, Zenon
  <2>1. ASSUME NEW n, n \in Nat, count + 1 < n PROVE n # 1
    BY <1>2, <2>1
  <2>2. bios.words = 5
    BY <1>2, <2>1, MapIs, Zenon
  <2> QED BY <2>2, <1>5, Zenon
<1>10. CASE pc' = "e820"
  <2>1. count' = Len(bios'.map) => bios'.ending # "ebx"
    BY <1>1, <1>10 DEF E820
  <2> QED BY <1>1, <1>2, <1>6, <1>8, <1>9, <1>10, <2>1 DEF Copying
<1>11. CASE pc' # "e820"
  <2>1. bios.ending = "ebx" /\ count + 1 = Len(bios.map)
    BY <1>11 DEF E820
  <2> QED BY <1>1, <1>8, <1>11, <2>1 DEF FromBios
<1> QED BY <1>10, <1>11

LEMMA Int12Step ==
  ASSUME RegularMap(bios), bios \in Bioses, Copying, Int12
  PROVE  FromInt12'
<1>1. bios' = bios /\ count' = 1 /\ mmap' = <<0, 0, LOWMEM, 0, 1, 0>>
  BY DEF Int12
<1>2. Entry(0)' = AsRead([base |-> 0, length |-> LOWMEM, type |-> 1])
  BY <1>1 DEF Entry, AsRead
<1>3. bios.ending # "ebx" \/ Len(bios.map) = 0
  BY DEF Int12, Copying
<1> QED BY <1>1, <1>2, <1>3 DEF FromInt12

\* The usable entries that the kernel sees are those of the BIOS.
LEMMA UsableIs ==
  ASSUME RegularMap(bios), FromBios, NEW k \in UsableEntries
  PROVE  /\ k \in Nat /\ k + 1 \in DOMAIN bios.map /\ bios.map[k + 1].type = 1
         /\ Entry(k) = AsRead(bios.map[k + 1])
<1>1. DOMAIN bios.map = 1 .. Len(bios.map) /\ Len(bios.map) \in Nat
  BY MapIs
<1>2. count = Len(bios.map)
  BY DEF FromBios
<1>3. k \in 0 .. count - 1 /\ Entry(k).type = 1
  BY DEF UsableEntries
<1>4. k \in Nat /\ k + 1 \in DOMAIN bios.map
  BY <1>1, <1>2, <1>3
<1>5. Entry(k) = AsRead(bios.map[k + 1])
  BY <1>3 DEF FromBios, Copied
<1> QED BY <1>3, <1>4, <1>5 DEF AsRead

LEMMA UsableSeen ==
  ASSUME RegularMap(bios), FromBios, NEW k \in DOMAIN bios.map, bios.map[k].type = 1
  PROVE  /\ k - 1 \in UsableEntries /\ Entry(k - 1) = AsRead(bios.map[k])
<1>1. DOMAIN bios.map = 1 .. Len(bios.map) /\ Len(bios.map) \in Nat
  BY MapIs
<1>2. count = Len(bios.map)
  BY DEF FromBios
<1>3. k \in Nat /\ k - 1 \in 0 .. count - 1 /\ (k - 1) + 1 = k
  BY <1>1, <1>2
<1>4. Entry(k - 1) = AsRead(bios.map[k])
  BY <1>3 DEF FromBios, Copied
<1>5. Entry(k - 1).type = 1
  BY <1>4 DEF AsRead
<1> QED BY <1>3, <1>4, <1>5 DEF UsableEntries

\* The entry that was made from int 0x12 is the only one, at address 0.
LEMMA Int12Is ==
  ASSUME FromInt12, NEW k \in UsableEntries
  PROVE  Entry(k) = AsRead([base |-> 0, length |-> LOWMEM, type |-> 1])
<1>1. k = 0
  BY DEF FromInt12, UsableEntries
<1> QED BY <1>1 DEF FromInt12

LEMMA EndIs ==
  ASSUME NEW e, e.base \in Nat, e.length \in Nat
  PROVE  /\ End(AsRead(e)) \in 0 .. WRAP - 1
         /\ e.base + e.length < WRAP => End(AsRead(e)) = e.base + e.length
<1>1. End(AsRead(e)) = (e.base + 0 + e.length + 0) % WRAP
  BY DEF End, AsRead
<1>2. ASSUME NEW n \in Nat PROVE n % WRAP \in 0 .. WRAP - 1 /\ (n < WRAP => n % WRAP = n)
  <2>1. n % WRAP \in 0 .. WRAP - 1
    BY Constants, Division
  <2>2. ASSUME n < WRAP PROVE n % WRAP = n
    <3>1. 0 * WRAP + n = n /\ n \in 0 .. WRAP - 1
      BY <2>2, Constants
    <3> QED BY <3>1, Quotient, Constants
  <2> QED BY <2>1, <2>2
<1>3. e.base + 0 + e.length + 0 = e.base + e.length /\ e.base + e.length \in Nat
  OBVIOUS
<1> QED BY <1>1, <1>2, <1>3

\* max_addr is the end of the highest usable entry.
LEMMA TopIs ==
  ASSUME RegularMap(bios), FromBios \/ FromInt12
  PROVE  /\ max_addr \in Nat
         /\ FromBios =>
              /\ max_addr % PAGE = 0
              /\ \A k \in DOMAIN bios.map :
                   bios.map[k].type = 1 => bios.map[k].base + bios.map[k].length <= max_addr
<1> DEFINE T == {0} \cup {End(Entry(k)) : k \in UsableEntries}
<1>1. ASSUME NEW k \in UsableEntries PROVE End(Entry(k)) \in 0 .. WRAP - 1
  <2>1. CASE FromBios
    BY <2>1, UsableIs, EntryIs, EndIs
  <2>2. CASE FromInt12
    <3> DEFINE e == [base |-> 0, length |-> LOWMEM, type |-> 1]
    <3>1. e.base \in Nat /\ e.length \in Nat
      BY Constants
    <3>2. Entry(k) = AsRead(e)
      BY <2>2, Int12Is
    <3> HIDE DEF e
    <3> QED BY <3>1, <3>2, EndIs
  <2> QED BY <2>1, <2>2
<1>2. T \in SUBSET Nat /\ T # {} /\ \A x \in T : x <= WRAP
  BY <1>1, Constants
<1>3. max_addr \in T /\ \A x \in T : x <= max_addr
  <2>1. max_addr = Max(T)
    BY DEF max_addr
  <2> HIDE DEF T
  <2> QED BY <1>2, <2>1, MaxIs, Constants
<1>4. max_addr \in Nat
  BY <1>2, <1>3
<1>5. ASSUME FromBios PROVE max_addr % PAGE = 0
  <2>1. CASE max_addr = 0
    <3>1. 0 * PAGE + 0 = 0 /\ 0 \in 0 .. PAGE - 1
      BY Constants
    <3> QED BY <2>1, <3>1, Quotient, Constants
  <2>2. ASSUME NEW k \in UsableEntries, max_addr = End(Entry(k)) PROVE max_addr % PAGE = 0
    <3> DEFINE e == bios.map[k + 1]
               b == e.base \div PAGE
               l == e.length \div PAGE
    <3>1. k + 1 \in DOMAIN bios.map /\ Entry(k) = AsRead(e)
      BY <1>5, <2>2, UsableIs
    <3>2. /\ e.base \in Nat /\ e.length \in Nat /\ e.base + e.length < WRAP
          /\ b \in Nat /\ e.base = b * PAGE /\ l \in Nat /\ e.length = l * PAGE
      BY <3>1, EntryIs
    <3>3. max_addr = e.base + e.length
      BY <2>2, <3>1, <3>2, EndIs
    <3> HIDE DEF e, b, l
    <3>4. max_addr = (b + l) * PAGE + 0 /\ b + l \in Nat /\ 0 \in 0 .. PAGE - 1
      BY <3>2, <3>3, Units, Constants
    <3> QED BY <3>4, Quotient, Constants
  <2> QED BY <1>3, <2>1, <2>2
<1>6. ASSUME FromBios, NEW k \in DOMAIN bios.map, bios.map[k].type = 1
      PROVE  bios.map[k].base + bios.map[k].length <= max_addr
  <2>1. k - 1 \in UsableEntries /\ Entry(k - 1) = AsRead(bios.map[k])
    BY <1>6, UsableSeen
  <2>2. End(Entry(k - 1)) = bios.map[k].base + bios.map[k].length
    BY <2>1, EntryIs, EndIs
  <2> QED BY <1>3, <2>1, <2>2
<1> QED BY <1>4, <1>5, <1>6

\* A page is usable memory when it is a page of a usable entry.
LEMMA RamPageIs ==
  ASSUME RegularMap(bios), NEW n \in Nat
  PROVE  RamPage(n) <=> \E k \in DOMAIN bios.map :
                          bios.map[k].type = 1 /\ n \in EntryPages(AsRead(bios.map[k]))
<1>1. ASSUME NEW k \in DOMAIN bios.map
      PROVE  LET e == bios.map[k]
                 m == n * PAGE
             IN /\ m \in Nat /\ e.base \in Nat /\ e.length \in Nat
                /\ n \in EntryPages(AsRead(e)) <=> e.base <= m /\ m < e.base + e.length
                /\ n \in EntryPages(AsRead(e)) => m + PAGE <= e.base + e.length
  <2> DEFINE e == bios.map[k]
             b == e.base \div PAGE
             l == e.length \div PAGE
  <2>1. b \in Nat /\ e.base = b * PAGE /\ l \in Nat /\ e.length = l * PAGE
    BY EntryIs
  <2>2. EntryPages(AsRead(e)) = b .. b + l - 1
    BY DEF EntryPages, AsRead
  <2> HIDE DEF e, b, l
  <2>3. n * PAGE \in Nat /\ b * PAGE \in Nat /\ l * PAGE \in Nat /\ PAGE \in Nat /\ PAGE > 0
        /\ (b + l) * PAGE = b * PAGE + l * PAGE /\ b + l \in Nat
    BY <2>1, Units, Constants
  <2>4. b <= n <=> b * PAGE <= n * PAGE
    BY <2>1, Units, Constants
  <2>5. n < b + l => n * PAGE + PAGE <= (b + l) * PAGE
    BY <2>3, Units, Constants
  <2>6. b + l <= n <=> (b + l) * PAGE <= n * PAGE
    BY <2>3, Units, Constants
  <2>7. n \in b .. b + l - 1 <=> b <= n /\ ~ (b + l <= n)
    BY <2>1
  <2>8. /\ n * PAGE \in Nat /\ e.base \in Nat /\ e.length \in Nat
        /\ n \in EntryPages(AsRead(e)) <=> e.base <= n * PAGE /\ n * PAGE < e.base + e.length
    BY <2>1, <2>2, <2>3, <2>4, <2>6, <2>7
  <2>9. n \in EntryPages(AsRead(e)) => n * PAGE + PAGE <= e.base + e.length
    <3> SUFFICES ASSUME n \in EntryPages(AsRead(e)) PROVE n * PAGE + PAGE <= e.base + e.length
      OBVIOUS
    <3>1. n < b + l
      BY <2>1, <2>2
    <3> QED BY <2>1, <2>3, <2>5, <3>1
  <2> QED BY <2>8, <2>9 DEF e
<1>2. ASSUME RamPage(n)
      PROVE  \E k \in DOMAIN bios.map :
               bios.map[k].type = 1 /\ n \in EntryPages(AsRead(bios.map[k]))
  <2>1. n * PAGE \in n * PAGE .. n * PAGE + PAGE - 1
    BY Units, Constants
  <2>2. Ram(n * PAGE)
    BY <1>2, <2>1 DEF RamPage
  <2>3. PICK k \in DOMAIN bios.map :
               /\ bios.map[k].type = 1
               /\ bios.map[k].base <= n * PAGE /\ n * PAGE < bios.map[k].base + bios.map[k].length
    BY <2>2 DEF Ram
  <2> QED BY <1>1, <2>3
<1>3. ASSUME NEW k \in DOMAIN bios.map, bios.map[k].type = 1,
             n \in EntryPages(AsRead(bios.map[k]))
      PROVE  RamPage(n)
  <2> SUFFICES ASSUME NEW a \in n * PAGE .. n * PAGE + PAGE - 1 PROVE Ram(a)
    BY DEF RamPage
  <2> DEFINE e == bios.map[k]
  <2>1. /\ n * PAGE \in Nat /\ e.base \in Nat /\ e.length \in Nat
        /\ e.base <= n * PAGE /\ n * PAGE + PAGE <= e.base + e.length
    BY <1>1, <1>3
  <2> HIDE DEF e
  <2>2. e.base <= a /\ a < e.base + e.length
    BY <2>1, Constants
  <2> QED BY <1>3, <2>2 DEF e, Ram
<1> QED BY <1>2, <1>3

LEMMA TopStep ==
  ASSUME RegularMap(bios), FromBios \/ FromInt12, FindTop
  PROVE  pc' # "failed" => Topped'
<1> SUFFICES ASSUME pc' # "failed" PROVE Topped'
  OBVIOUS
<1>1. /\ bios' = bios /\ mmap' = mmap /\ count' = count
      /\ max_pages' = max_addr \div PAGE
      /\ bitmap_size' = RoundUp(max_addr \div PAGE, BITS)
  BY DEF FindTop
<1>2. max_addr \in Nat /\ max_addr \div PAGE \in Nat
  BY TopIs, Division, Constants
<1>3. FromBios' => FromBios
  BY <1>1 DEF FromBios, Copied, Entry
<1>4. FromBios => max_addr = max_pages' * PAGE
  BY <1>1, <1>2, TopIs, Whole, Constants
<1>5. FromBios' =>
        \A k \in DOMAIN bios.map :
          bios.map[k].type = 1 => bios.map[k].base + bios.map[k].length <= max_pages' * PAGE
  BY <1>3, <1>4, TopIs
<1> QED BY <1>1, <1>2, <1>5 DEF Topped

\* No memory at all: the usable entries are empty ones.
LEMMA NoTop ==
  ASSUME RegularMap(bios), FromBios \/ FromInt12, max_addr = 0
  PROVE  NoPlace
<1>1. CASE FromBios
  <2> SUFFICES ASSUME NEW k \in DOMAIN bios.map, bios.map[k].type = 1 PROVE bios.map[k].base = 0
    BY DEF NoPlace
  <2>1. bios.map[k].base + bios.map[k].length <= 0
    BY <1>1, TopIs
  <2> QED BY <2>1, EntryIs
<1>2. CASE FromInt12
  <2>1. CASE bios.ending # "ebx"
    BY <2>1 DEF NoPlace
  <2>2. CASE Len(bios.map) = 0
    BY <2>2, MapIs DEF NoPlace
  <2> QED BY <1>2, <2>1, <2>2 DEF FromInt12
<1> QED BY <1>1, <1>2

\* An entry of the first loop or of the fallback.
LEMMA RoomIs ==
  ASSUME RegularMap(bios), FromBios \/ FromInt12, NEW low \in Nat \ {0}, RoomFrom(low) # {},
         NEW b, b = Entry(Min(RoomFrom(low))).base_low
  PROVE  /\ FromBios
         /\ \E k \in DOMAIN bios.map :
              /\ bios.map[k].type = 1
              /\ b = bios.map[k].base /\ b # 0
              /\ bios.map[k].length >= bitmap_size
<1> DEFINE m == Min(RoomFrom(low))
<1>1. RoomFrom(low) \in SUBSET Nat
  <2>1. count \in Nat
    BY MapIs DEF FromBios, FromInt12
  <2> QED BY <2>1 DEF RoomFrom, UsableEntries
<1>2. m \in RoomFrom(low)
  BY <1>1, MinIs
<1> HIDE DEF m
<1>3. m \in UsableEntries /\ Entry(m).length_low >= bitmap_size /\ Entry(m).base_low >= low
  BY <1>2 DEF RoomFrom
<1>4. CASE FromInt12
  <2>1. Entry(m).base_low = 0
    BY <1>3, <1>4, Int12Is DEF AsRead
  <2> QED BY <1>3, <2>1
<1>5. CASE FromBios
  <2>1. m + 1 \in DOMAIN bios.map /\ bios.map[m + 1].type = 1 /\ Entry(m) = AsRead(bios.map[m + 1])
    BY <1>3, <1>5, UsableIs
  <2>2. b = bios.map[m + 1].base /\ b >= low /\ bios.map[m + 1].length >= bitmap_size
    BY <1>3, <2>1 DEF AsRead, m
  <2>3. b # 0
    BY <2>2
  <2> QED BY <1>5, <2>1, <2>2, <2>3
<1> QED BY <1>4, <1>5

LEMMA PlaceStep ==
  ASSUME RegularMap(bios), FromBios \/ FromInt12, Topped, PlaceBitmap
  PROVE  /\ pc' = "mark" => Placed'
         /\ pc' = "failed" => bitmap' = bitmap /\ NoPlace'
<1>1. /\ bios' = bios /\ mmap' = mmap /\ count' = count /\ bitmap_size' = bitmap_size
  BY DEF PlaceBitmap
<1>2. ASSUME NEW low \in {1, MB}, RoomFrom(low) # {},
             bitmap' = Entry(Min(RoomFrom(low))).base_low
      PROVE  Placed'
  <2>1. low \in Nat \ {0}
    BY Constants
  <2>2. /\ FromBios
        /\ \E k \in DOMAIN bios.map :
             /\ bios.map[k].type = 1
             /\ bitmap' = bios.map[k].base /\ bitmap' # 0
             /\ bios.map[k].length >= bitmap_size
    BY <1>2, <2>1, RoomIs
  <2>3. FromBios'
    BY <1>1, <2>2 DEF FromBios, Copied, Entry
  <2> QED BY <1>1, <2>2, <2>3 DEF Placed
<1>3. ASSUME RoomFrom(1) = {} PROVE NoPlace'
  <2>1. CASE FromInt12
    <3>1. CASE bios.ending # "ebx"
      BY <1>1, <3>1 DEF NoPlace
    <3>2. CASE Len(bios.map) = 0
      BY <1>1, <3>2, MapIs DEF NoPlace
    <3> QED BY <2>1, <3>1, <3>2 DEF FromInt12
  <2>2. CASE FromBios
    <3> SUFFICES ASSUME NEW k \in DOMAIN bios.map, bios.map[k].type = 1, bios.map[k].base # 0
                 PROVE  bios.map[k].length < bitmap_size
      BY <1>1 DEF NoPlace
    <3>1. k - 1 \in UsableEntries /\ Entry(k - 1) = AsRead(bios.map[k])
      BY <2>2, UsableSeen
    <3>2. Entry(k - 1).base_low >= 1
      BY <3>1, EntryIs DEF AsRead
    <3>3. ~ (Entry(k - 1).length_low >= bitmap_size)
      BY <1>3, <3>1, <3>2 DEF RoomFrom
    <3>4. bitmap_size \in Nat
      BY RoundUpIs, Constants DEF Topped
    <3> QED BY <3>1, <3>3, <3>4, EntryIs DEF AsRead
  <2> QED BY <2>1, <2>2
<1> QED BY <1>2, <1>3 DEF PlaceBitmap

LEMMA MarkStep ==
  ASSUME RegularMap(bios), FromBios, Topped, MarkUsable
  PROVE  free' = {n \in 0 .. max_pages - 1 : RamPage(n)}
<1>1. free' = {n \in UNION {EntryPages(Entry(k)) : k \in UsableEntries} : n < max_pages}
  BY DEF MarkUsable
<1>2. max_pages \in Nat
  BY DEF Topped
<1>3. ASSUME NEW k \in UsableEntries, NEW n \in EntryPages(Entry(k)) PROVE n \in Nat
  <2>1. k + 1 \in DOMAIN bios.map /\ Entry(k) = AsRead(bios.map[k + 1])
    BY UsableIs
  <2>2. bios.map[k + 1].base \div PAGE \in Nat /\ bios.map[k + 1].length \div PAGE \in Nat
    BY <2>1, EntryIs
  <2> QED BY <1>3, <2>1, <2>2 DEF EntryPages, AsRead
<1>4. ASSUME NEW n \in Nat
      PROVE  RamPage(n) <=> \E k \in UsableEntries : n \in EntryPages(Entry(k))
  <2>1. ASSUME RamPage(n) PROVE \E k \in UsableEntries : n \in EntryPages(Entry(k))
    BY <2>1, RamPageIs, UsableSeen
  <2>2. ASSUME NEW k \in UsableEntries, n \in EntryPages(Entry(k)) PROVE RamPage(n)
    BY <2>2, RamPageIs, UsableIs
  <2> QED BY <2>1, <2>2
<1>5. ASSUME NEW n PROVE n \in free' <=> n \in 0 .. max_pages - 1 /\ RamPage(n)
  <2>1. n \in free' <=> n < max_pages /\ \E k \in UsableEntries : n \in EntryPages(Entry(k))
    BY <1>1
  <2>2. n \in free' => n \in Nat
    BY <1>3, <2>1
  <2> QED BY <1>2, <1>4, <2>1, <2>2
<1> QED BY <1>5

\* The pages of the bitmap are those its bytes lie in, and they are inside the
\* entry that holds it.
LEMMA BitmapPagesAre ==
  ASSUME RegularMap(bios), Topped, Placed
  PROVE  /\ \A n \in Nat : n \in BitmapPages <=> \E a \in BitmapBytes : a \div PAGE = n
         /\ BitmapPages \subseteq 0 .. max_pages - 1
<1>1. PICK k \in DOMAIN bios.map :
             /\ bios.map[k].type = 1
             /\ bitmap = bios.map[k].base /\ bitmap # 0
             /\ bios.map[k].length >= bitmap_size
  BY DEF Placed
<1> DEFINE q == bitmap \div PAGE
           l == bios.map[k].length \div PAGE
           r == RoundUp(bitmap_size, PAGE)
<1>2. /\ bitmap \in Nat /\ q \in Nat /\ bitmap = q * PAGE
      /\ l \in Nat /\ bios.map[k].length = l * PAGE
  BY <1>1, EntryIs
<1>3. bitmap_size \in Nat /\ max_pages \in Nat
  BY RoundUpIs, Constants DEF Topped
<1>4. r \in Nat /\ r * PAGE \in Nat /\ bitmap_size <= r * PAGE /\ r * PAGE < bitmap_size + PAGE
  BY <1>3, RoundUpIs, Constants
<1>5. BitmapPages = q .. q + r - 1
  BY DEF BitmapPages
<1>6. bitmap_size <= l * PAGE /\ bitmap + l * PAGE <= max_pages * PAGE
  BY <1>1, <1>2 DEF Topped, Placed
<1> HIDE DEF q, l, r
<1>7. r <= l
  <2> SUFFICES ASSUME l < r PROVE FALSE
    BY <1>2, <1>4
  <2>1. l * PAGE + PAGE <= r * PAGE /\ l * PAGE \in Nat
    BY <1>2, <1>4, Units, Constants
  <2> QED BY <1>3, <1>4, <1>6, <2>1, Constants
<1>8. q + r <= max_pages
  <2>1. (q + l) * PAGE = q * PAGE + l * PAGE /\ q + l \in Nat
    BY <1>2, Units, Constants
  <2>2. (q + l) * PAGE <= max_pages * PAGE
    BY <1>2, <1>6, <2>1
  <2>3. q + l <= max_pages
    BY <1>3, <2>1, <2>2, Units, Constants
  <2> QED BY <1>2, <1>3, <1>4, <1>7, <2>3
<1>9. ASSUME NEW n \in Nat, n \in BitmapPages PROVE \E a \in BitmapBytes : a \div PAGE = n
  <2>1. q <= n /\ n < q + r
    BY <1>2, <1>4, <1>5, <1>9
  <2>2. n * PAGE \in Nat /\ q * PAGE \in Nat /\ q * PAGE <= n * PAGE
    BY <1>2, <2>1, Units, Constants
  <2>3. n * PAGE + PAGE <= (q + r) * PAGE /\ (q + r) * PAGE = q * PAGE + r * PAGE
    BY <1>2, <1>4, <2>1, Units, Constants
  <2>4. n * PAGE \in BitmapBytes
    BY <1>2, <1>3, <1>4, <2>2, <2>3, Constants DEF BitmapBytes
  <2>5. n * PAGE + 0 = n * PAGE /\ 0 \in 0 .. PAGE - 1
    BY <2>2, Constants
  <2>6. (n * PAGE) \div PAGE = n
    BY <2>5, Quotient, Constants
  <2> QED BY <2>4, <2>6
<1>10. ASSUME NEW n \in Nat, NEW a \in BitmapBytes, a \div PAGE = n PROVE n \in BitmapPages
  <2>1. a \in Nat /\ bitmap <= a /\ a < bitmap + bitmap_size
    BY <1>2, <1>3 DEF BitmapBytes
  <2>2. a % PAGE \in 0 .. PAGE - 1 /\ a = n * PAGE + (a % PAGE)
    BY <1>10, <2>1, Division, Constants
  <2>3. n * PAGE \in Nat /\ q * PAGE \in Nat /\ (q + r) * PAGE = q * PAGE + r * PAGE
    BY <1>2, <1>4, Units, Constants
  <2>4. ~ (n < q)
    <3> SUFFICES ASSUME n < q PROVE FALSE
      OBVIOUS
    <3>1. n * PAGE + PAGE <= q * PAGE
      BY <1>2, Units, Constants
    <3> QED BY <1>2, <2>1, <2>2, <2>3, <3>1, Constants
  <2>5. ~ (q + r <= n)
    <3> SUFFICES ASSUME q + r <= n PROVE FALSE
      OBVIOUS
    <3>1. (q + r) * PAGE <= n * PAGE
      BY <1>2, <1>4, Units, Constants
    <3> QED BY <1>2, <1>3, <1>4, <2>1, <2>2, <2>3, <3>1, Constants
  <2> QED BY <1>2, <1>4, <1>5, <2>4, <2>5
<1>11. BitmapPages \subseteq 0 .. max_pages - 1
  BY <1>2, <1>3, <1>4, <1>5, <1>8
<1> QED BY <1>9, <1>10, <1>11

LEMMA ReserveStep ==
  ASSUME RegularMap(bios), Topped, Placed, free = {n \in 0 .. max_pages - 1 : RamPage(n)}, Reserve
  PROVE  FreeIsExact'
<1>1. /\ bios' = bios /\ max_pages' = max_pages /\ bitmap' = bitmap /\ bitmap_size' = bitmap_size
      /\ free' = free \ (BitmapPages \cup {0})
  BY DEF Reserve
<1>2. BitmapBytes' = BitmapBytes /\ \A n : RamPage(n)' <=> RamPage(n)
  BY <1>1 DEF BitmapBytes, RamPage, Ram
<1>3. max_pages \in Nat
  BY DEF Topped
<1>4. ASSUME NEW n \in Nat PROVE n \in BitmapPages <=> ~ \A a \in BitmapBytes : a \div PAGE # n
  BY BitmapPagesAre
<1>5. free' = {n \in 1 .. max_pages - 1 : RamPage(n) /\ \A a \in BitmapBytes : a \div PAGE # n}
  <2>1. ASSUME NEW n
        PROVE  n \in free' <=> n \in 1 .. max_pages - 1 /\ RamPage(n) /\ n \notin BitmapPages
    <3>1. n \in 0 .. max_pages - 1 /\ n # 0 <=> n \in 1 .. max_pages - 1
      BY <1>3
    <3> QED BY <1>1, <3>1
  <2> QED BY <1>3, <1>4, <2>1
<1> QED BY <1>1, <1>2, <1>5 DEF FreeIsExact

LEMMA SafeBitmap ==
  ASSUME MemInv, RegularMap(bios) PROVE BitmapIsSafe
<1>1. ASSUME pc \in {"mark", "reserve", "ready"}
      PROVE  /\ \A a \in BitmapBytes : Ram(a)
             /\ bitmap_size * BITS >= max_pages
             /\ BitmapPages \subseteq 0 .. bitmap_size * BITS - 1
             /\ ~ NoPlace
  <2>1. Topped /\ Placed
    BY <1>1 DEF MemInv
  <2>2. PICK k \in DOMAIN bios.map :
               /\ bios.map[k].type = 1
               /\ bitmap = bios.map[k].base /\ bitmap # 0
               /\ bios.map[k].length >= bitmap_size
    BY <2>1 DEF Placed
  <2>3. bios.map[k].base \in Nat /\ bios.map[k].length \in Nat
    BY EntryIs
  <2>4. /\ max_pages \in Nat /\ bitmap_size \in Nat /\ bitmap_size * BITS \in Nat
        /\ max_pages <= bitmap_size * BITS
    BY <2>1, RoundUpIs, Constants DEF Topped
  <2>5. ASSUME NEW a \in BitmapBytes PROVE Ram(a)
    <3>1. bios.map[k].base <= a /\ a < bios.map[k].base + bios.map[k].length
      BY <2>2, <2>3, <2>4, <2>5 DEF BitmapBytes
    <3> QED BY <2>2, <3>1 DEF Ram
  <2>6. BitmapPages \subseteq 0 .. bitmap_size * BITS - 1
    <3>1. BitmapPages \subseteq 0 .. max_pages - 1
      BY <2>1, BitmapPagesAre
    <3>2. \A n \in 0 .. max_pages - 1 : n \in 0 .. bitmap_size * BITS - 1
      BY <2>4
    <3> QED BY <3>1, <3>2
  <2>7. ~ NoPlace
    <3>1. bios.ending = "ebx"
      BY <2>1 DEF Placed, FromBios
    <3>2. ~ (bios.map[k].length < bitmap_size)
      BY <2>2, <2>3, <2>4
    <3> QED BY <2>2, <3>1, <3>2 DEF NoPlace
  <2> QED BY <2>4, <2>5, <2>6, <2>7
<1>2. pc = "failed" => bitmap = 0 /\ NoPlace
  BY DEF MemInv
<1> QED BY <1>1, <1>2 DEF BitmapIsSafe

LEMMA InitMem == Init => MemInv
<1> SUFFICES ASSUME Init PROVE MemInv
  OBVIOUS
<1>1. bios \in Bioses /\ mmap = <<>> /\ count = 0 /\ pc = "e820" /\ bitmap = 0
  BY DEF Init
<1>2. RegularMap(bios) => Copying
  <2> SUFFICES ASSUME RegularMap(bios) PROVE Copying
    OBVIOUS
  <2>1. Len(bios.map) \in Nat
    BY MapIs
  <2>2. mmap \in Seq(Nat) /\ Len(mmap) = 5 * count
    BY <1>1
  <2>3. Copied(count)
    BY <1>1 DEF Copied
  <2> QED BY <1>1, <2>1, <2>2, <2>3 DEF Copying
<1> QED BY <1>1, <1>2 DEF MemInv, FreeIsExact

\* What later steps read of the map stays as it is.
LEMMA MapKept ==
  ASSUME bios' = bios, mmap' = mmap, count' = count
  PROVE  (FromBios' <=> FromBios) /\ (FromInt12' <=> FromInt12)
  BY DEF FromBios, FromInt12, Copied, Entry, AsRead

LEMMA TopKept ==
  ASSUME bios' = bios, mmap' = mmap, count' = count, max_pages' = max_pages,
         bitmap_size' = bitmap_size
  PROVE  /\ Topped' <=> Topped
         /\ bitmap' = bitmap => (Placed' <=> Placed)
  BY MapKept DEF Topped, Placed

LEMMA NextMem == MemInv /\ [Next]_vars => MemInv'
<1> SUFFICES ASSUME MemInv, [Next]_vars PROVE MemInv'
  OBVIOUS
<1>1. bios' = bios /\ bios \in Bioses
  BY DEF MemInv, Next, vars, E820, Int12, FindTop, PlaceBitmap, MarkUsable, Reserve
<1>2. RegularMap(bios)' <=> RegularMap(bios)
  BY <1>1 DEF RegularMap
<1>3. CASE ~ RegularMap(bios)
  BY <1>1, <1>2, <1>3 DEF MemInv
<1> SUFFICES ASSUME RegularMap(bios) PROVE MemInv'
  BY <1>3
<1>4. CASE E820
  <2>1. pc = "e820" /\ pc' \in {"e820", "top"} /\ bitmap' = bitmap
    BY <1>4 DEF E820
  <2>2. bitmap = 0 /\ Copying
    BY <2>1 DEF MemInv
  <2>3. IF pc' = "e820" THEN Copying' ELSE FromBios'
    BY <1>1, <1>4, <2>2, CopyStep
  <2> QED BY <1>1, <2>1, <2>2, <2>3 DEF MemInv, FreeIsExact
<1>5. CASE Int12
  <2>1. pc = "e820" /\ pc' = "top" /\ bitmap' = bitmap
    BY <1>5 DEF Int12
  <2>2. bitmap = 0 /\ Copying
    BY <2>1 DEF MemInv
  <2>3. FromInt12'
    BY <1>1, <1>5, <2>2, Int12Step
  <2> QED BY <1>1, <2>1, <2>2, <2>3 DEF MemInv, FreeIsExact
<1>6. CASE FindTop
  <2>1. pc = "top" /\ pc' \in {"place", "failed"} /\ bitmap' = bitmap /\ mmap' = mmap /\ count' = count
    BY <1>6 DEF FindTop
  <2>2. bitmap = 0 /\ (FromBios \/ FromInt12)
    BY <2>1 DEF MemInv
  <2>3. FromBios' \/ FromInt12'
    BY <1>1, <2>1, <2>2, MapKept
  <2>4. pc' = "failed" => NoPlace'
    <3> SUFFICES ASSUME pc' = "failed" PROVE NoPlace'
      OBVIOUS
    <3>1. max_addr = 0 /\ bitmap_size' = bitmap_size
      BY <1>6 DEF FindTop
    <3>2. NoPlace
      BY <2>2, <3>1, NoTop
    <3> QED BY <1>1, <3>1, <3>2 DEF NoPlace
  <2>5. pc' # "failed" => Topped'
    BY <1>6, <2>2, TopStep
  <2> QED BY <1>1, <2>1, <2>2, <2>3, <2>4, <2>5 DEF MemInv, FreeIsExact
<1>7. CASE PlaceBitmap
  <2>1. /\ pc = "place" /\ pc' \in {"mark", "failed"} /\ mmap' = mmap /\ count' = count
        /\ max_pages' = max_pages /\ bitmap_size' = bitmap_size
    BY <1>7 DEF PlaceBitmap
  <2>2. bitmap = 0 /\ (FromBios \/ FromInt12) /\ Topped
    BY <2>1 DEF MemInv
  <2>3. (FromBios' \/ FromInt12') /\ Topped'
    BY <1>1, <2>1, <2>2, MapKept, TopKept
  <2>4. /\ pc' = "mark" => Placed'
        /\ pc' = "failed" => bitmap' = bitmap /\ NoPlace'
    BY <1>7, <2>2, PlaceStep
  <2> QED BY <1>1, <2>1, <2>2, <2>3, <2>4 DEF MemInv, FreeIsExact
<1>8. CASE MarkUsable
  <2>1. /\ pc = "mark" /\ pc' = "reserve" /\ mmap' = mmap /\ count' = count /\ bitmap' = bitmap
        /\ max_pages' = max_pages /\ bitmap_size' = bitmap_size
    BY <1>8 DEF MarkUsable
  <2>2. Topped /\ Placed /\ FromBios
    BY <2>1 DEF MemInv, Placed
  <2>3. Topped' /\ Placed' /\ FromBios'
    BY <1>1, <2>1, <2>2, MapKept, TopKept
  <2>4. free' = {n \in 0 .. max_pages - 1 : RamPage(n)}
    BY <1>8, <2>2, MarkStep
  <2>5. free' = {n \in 0 .. max_pages' - 1 : RamPage(n)'}
    <3>1. \A n : RamPage(n)' <=> RamPage(n)
      BY <1>1 DEF RamPage, Ram
    <3> QED BY <2>1, <2>4, <3>1
  <2> QED BY <1>1, <2>1, <2>3, <2>5 DEF MemInv, FreeIsExact
<1>9. CASE Reserve
  <2>1. /\ pc = "reserve" /\ pc' = "ready" /\ mmap' = mmap /\ count' = count /\ bitmap' = bitmap
        /\ max_pages' = max_pages /\ bitmap_size' = bitmap_size
    BY <1>9 DEF Reserve
  <2>2. Topped /\ Placed /\ FromBios /\ free = {n \in 0 .. max_pages - 1 : RamPage(n)}
    BY <2>1 DEF MemInv, Placed
  <2>3. Topped' /\ Placed' /\ FromBios'
    BY <1>1, <2>1, <2>2, MapKept, TopKept
  <2>4. FreeIsExact'
    BY <1>9, <2>2, ReserveStep
  <2> QED BY <1>1, <2>1, <2>3, <2>4 DEF MemInv
<1>10. CASE UNCHANGED vars
  <2>1. /\ bios' = bios /\ mmap' = mmap /\ count' = count /\ pc' = pc /\ bitmap' = bitmap
        /\ max_pages' = max_pages /\ bitmap_size' = bitmap_size /\ free' = free
    BY <1>10 DEF vars
  <2>2. /\ FromBios' <=> FromBios
        /\ FromInt12' <=> FromInt12
        /\ Topped' <=> Topped
    BY <2>1, MapKept, TopKept
  <2>3. Copying' <=> Copying
    BY <2>1 DEF Copying, Copied, Entry, AsRead
  <2>4. Placed' <=> Placed
    BY <2>1, <2>2 DEF Placed
  <2>5. (FreeIsExact' <=> FreeIsExact) /\ (NoPlace' <=> NoPlace) /\ (\A n : RamPage(n)' <=> RamPage(n))
    BY <2>1 DEF FreeIsExact, RamPage, Ram, BitmapBytes, NoPlace
  <2> QED BY <2>1, <2>2, <2>3, <2>4, <2>5 DEF MemInv, RegularMap
<1> QED BY <1>4, <1>5, <1>6, <1>7, <1>8, <1>9, <1>10 DEF Next

\* Every step of start-up is a step of the boot sector or of pmm_init, or
\* leaves the memory map and the bitmap alone.
LEMMA MemStep == [StartupNext]_startupVars => [Next]_vars
<1> SUFFICES ASSUME [StartupNext]_startupVars PROVE [Next]_vars
  OBVIOUS
<1>1. CASE Boot \/ pmm_init
  BY <1>1 DEF Boot, pmm_init, Next
<1>2. CASE mmp \/ Enumerate \/ List \/ ListRest \/ Driver \/ UNCHANGED startupVars
  <2>1. UNCHANGED vars
    BY <1>2 DEF mmp, Enumerate, List, ListRest, Driver, startupVars
  <2> QED BY <2>1
<1> QED BY <1>1, <1>2 DEF StartupNext

\* What is known of memory map and bitmap holds all through start-up.
THEOREM MemInductive == StartupSpec => []MemInv
<1>1. StartupInit => MemInv
  BY InitMem DEF StartupInit
<1>2. MemInv /\ [StartupNext]_startupVars => MemInv'
  BY MemStep, NextMem
<1> QED BY <1>1, <1>2, PTL DEF StartupSpec

\* On every machine with an ordinary memory map, whatever its entries, pmm_init
\* leaves exactly the usable pages free, but for page 0 and its own bitmap.
THEOREM FreeExact == StartupSpec => [](RegularMap(bios) => FreeIsExact)
<1>1. MemInv => (RegularMap(bios) => FreeIsExact)
  BY DEF MemInv
<1> QED BY <1>1, MemInductive, PTL

\* On these machines the bitmap lies in usable memory and has room for all pages,
\* and pmm_init gives up just where there is no place for it.
THEOREM BitmapSafe == StartupSpec => [](RegularMap(bios) => BitmapIsSafe)
<1>1. MemInv => (RegularMap(bios) => BitmapIsSafe)
  BY SafeBitmap
<1> QED BY <1>1, MemInductive, PTL

-----------------------------------------------------------------------------
(* The PCI bus *)

\* Registers and what is behind the BARs are the machine's.
Wiring ==
  /\ bios \in Bioses
  /\ config = [a \in DOMAIN Hardware(bios) |-> Registers(Hardware(bios)[a])]
  /\ wired = [a \in DOMAIN Hardware(bios) |-> Hardware(bios)[a].bars]

\* The loops come to function f before this one; and d comes before e.
Before(f, slot, func) == f.slot < slot \/ (f.slot = slot /\ f.func < func)
Precedes(d, e) == d.dev < e.dev \/ (d.dev = e.dev /\ d.func < e.func)

\* d is what pciProbeDevice makes of function f.
IsRead(d, f) ==
  /\ d.dev = f.slot /\ d.func = f.func /\ d.vendor = f.vendor /\ d.device = f.device
  /\ \A n \in 0 .. NBARS - 1 : d.addr[n] \in Nat /\ (f.bars[n].value = 0 => d.addr[n] = 0)

Results == {P!pciProbeDevice(s, n) : s \in 0 .. SLOTS - 1, n \in 0 .. FUNCS - 1}

\* Function 0 of a slot is there and says that there may be others.
Several(s) == \E g \in bios.pci : g.slot = s /\ g.func = 0 /\ g.header >= BYTE \div 2

\* The array holds the functions that the loops have passed, in their order.
SearchInv ==
  /\ dev \in 0 .. SLOTS /\ fn \in 0 .. FUNCS - 1
  /\ dev = SLOTS => fn = 0
  /\ fn > 0 => Several(dev)
  /\ out \in Seq(Results)
  /\ Len(out) <= dev * FUNCS + fn
  /\ \A k \in DOMAIN out : \E f \in Reachable : Before(f, dev, fn) /\ IsRead(out[k], f)
  /\ \A f \in Reachable : Before(f, dev, fn) => \E k \in DOMAIN out : IsRead(out[k], f)
  /\ \A j, k \in DOMAIN out : j < k => Precedes(out[j], out[k])
  /\ stage \in {"list", "up"} => dev = SLOTS

Result == [is_io : BOOLEAN, size : Nat, addr : Nat]

\* The result r for a BAR b.
Sized(r, b) ==
  /\ r.is_io <=> b.kind = "io"
  /\ r.size = IF b.value = 0 \/ b.kind = "high" THEN 0 ELSE b.size % SIZES
  /\ r.addr = IF b.kind \in {"none", "high"} THEN 0 ELSE b.value - b.flags

\* The BARs before i are sized, and i is not in the middle of one of 64 bits; of
\* the others, those without an address keep the 0 that was read for them.
SizingInv ==
  /\ i \in 0 .. NBARS
  /\ target = -1 => i = 0
  /\ target # -1 => \E f \in bios.pci :
       /\ target = Decoded(f)
       /\ bar \in [0 .. NBARS - 1 -> Result]
       /\ i < NBARS => f.bars[i].kind # "high"
       /\ \A n \in 0 .. NBARS - 1 :
            IF n < i THEN Sized(bar[n], f.bars[n]) ELSE f.bars[n].value = 0 => bar[n].addr = 0

\* What is known of the bus, of the search and of the sizing.
PciInv == Wiring /\ SearchInv /\ SizingInv

LEMMA BusConstants ==
  /\ BYTE \in Nat \ {0} /\ SIZES \in Nat \ {0} /\ SLOTS \in Nat \ {0}
  /\ FUNCS \in 1 .. 8 /\ NBARS \in 1 .. 6
  BY StartupAssumption, BusAssumption

\* A word is two bytes, a double word two words, of 16 bits at least.
LEMMA WordIs ==
  /\ P!WORD \in Nat /\ P!WORD > 1 /\ P!DWORD \in Nat /\ P!DWORD > 1
  /\ P!DWORD = P!WORD * P!WORD
  /\ P!DWORD % 16 = 0
<1> DEFINE h == BYTE \div 2
           w == h * h
<1>1. h \in Nat /\ h >= 1 /\ BYTE = h * 2
  BY BusConstants, BusAssumption
<1>2. w \in Nat /\ w >= 1
  BY <1>1
<1>3. P!WORD = w * 4
  BY <1>1 DEF P!WORD
<1> HIDE DEF h, w
<1>4. P!WORD \in Nat /\ P!WORD >= 4
  BY <1>2, <1>3
<1>5. P!DWORD = P!WORD * P!WORD
  BY DEF P!DWORD
<1>6. w * w \in Nat /\ w * w >= 1
  BY <1>2
<1>7. P!DWORD = (w * w) * 16 + 0
  <2>1. (w * 4) * (w * 4) = (w * w) * 16
    BY <1>2
  <2> QED BY <1>3, <1>5, <1>6, <2>1
<1>8. P!DWORD % 16 = 0
  BY <1>6, <1>7, Quotient
<1> QED BY <1>4, <1>5, <1>6, <1>7, <1>8

LEMMA FunctionIs ==
  ASSUME bios \in Bioses, NEW f \in bios.pci
  PROVE  /\ f.slot \in 0 .. SLOTS - 1 /\ f.func \in 0 .. FUNCS - 1
         /\ f.vendor \in 1 .. P!WORD - 2 /\ f.device \in 0 .. P!WORD - 1
         /\ f.header \in 0 .. BYTE - 1
         /\ \A n \in 0 .. NBARS - 1 :
              \/ IsSingle(f.bars[n])
              \/ n + 1 < NBARS /\ IsDouble(f.bars[n], f.bars[n + 1])
              \/ n > 0 /\ IsDouble(f.bars[n - 1], f.bars[n])
         /\ \A g \in bios.pci : f.slot = g.slot /\ f.func = g.func => f = g
<1>1. IsFunction(f)
  BY BusAssumption, Zenon
<1>2. \A g \in bios.pci : f.slot = g.slot /\ f.func = g.func => f = g
  BY BusAssumption, Zenon
<1> QED BY <1>1, <1>2, Zenon DEF IsFunction

LEMMA FunctionAt ==
  ASSUME bios \in Bioses, NEW f \in bios.pci
  PROVE  f.slot \in Nat /\ f.func \in 0 .. 7 /\ P!Address(f.slot, f.func) = Decoded(f)
<1>1. f.slot \in 0 .. SLOTS - 1 /\ f.func \in 0 .. FUNCS - 1
  BY FunctionIs, Zenon
<1>2. f.slot \in Nat /\ f.func \in 0 .. 7
  BY <1>1, BusConstants
<1> QED BY <1>2, Zenon DEF Decoded, P!Address

LEMMA SameAddress ==
  ASSUME NEW s \in Nat, NEW t \in Nat, NEW m \in 0 .. 7, NEW n \in 0 .. 7,
         P!Address(s, m) = P!Address(t, n)
  PROVE  s = t /\ m = n
  BY DEF P!Address

\* The address that is made of slot and function is decoded as this function's.
LEMMA Decode ==
  ASSUME Wiring, NEW f \in bios.pci
  PROVE  /\ P!Address(f.slot, f.func) = Decoded(f)
         /\ Decoded(f) \in DOMAIN config /\ Decoded(f) \in Nat
         /\ config[Decoded(f)] = Registers(f) /\ wired[Decoded(f)] = f.bars
         /\ Hardware(bios)[Decoded(f)] = f
<1>1. bios \in Bioses
  BY DEF Wiring
<1>2. f.slot \in Nat /\ f.func \in 0 .. 7 /\ P!Address(f.slot, f.func) = Decoded(f)
  BY <1>1, FunctionAt
<1>3. Decoded(f) \in Nat
  <2>1. \A s \in Nat, n \in 0 .. 7 : P!Address(s, n) \in Nat
    BY DEF P!Address
  <2> QED BY <1>2, <2>1
<1>4. ASSUME NEW g \in bios.pci, Decoded(g) = Decoded(f) PROVE g = f
  <2>1. g.slot \in Nat /\ g.func \in 0 .. 7 /\ P!Address(g.slot, g.func) = Decoded(g)
    BY <1>1, FunctionAt
  <2>2. g.slot = f.slot /\ g.func = f.func
    <3>1. P!Address(g.slot, g.func) = P!Address(f.slot, f.func)
      BY <1>2, <1>4, <2>1, Zenon
    <3> QED BY <1>2, <2>1, <3>1, SameAddress
  <2> QED BY <1>1, <2>2, FunctionIs, Zenon
<1>5. Hardware(bios)[Decoded(f)] = f /\ Decoded(f) \in DOMAIN Hardware(bios)
  BY <1>4 DEF Hardware
<1> QED BY <1>2, <1>3, <1>5 DEF Wiring

\* Where an address is decoded, there is a function.
LEMMA Decoding ==
  ASSUME Wiring, NEW s \in Nat, NEW n \in 0 .. 7, P!Address(s, n) \in DOMAIN config
  PROVE  \E f \in bios.pci : f.slot = s /\ f.func = n
<1>1. PICK f \in bios.pci : P!Address(s, n) = Decoded(f)
  BY DEF Wiring, Hardware
<1>2. f.slot \in Nat /\ f.func \in 0 .. 7 /\ P!Address(f.slot, f.func) = Decoded(f)
  BY FunctionAt DEF Wiring
<1>3. f.slot = s /\ f.func = n
  <2>1. P!Address(f.slot, f.func) = P!Address(s, n)
    BY <1>1, <1>2, Zenon
  <2> QED BY <1>2, <2>1, SameAddress
<1> QED BY <1>3

\* The registers of a function, one by one.
LEMMA RegistersAre ==
  ASSUME NEW f
  PROVE  /\ Registers(f)[0] = f.device * P!WORD + f.vendor
         /\ Registers(f)[12] = f.header * P!WORD
         /\ \A n \in 0 .. NBARS - 1 :
              /\ P!BarOffset(n) \in DOMAIN Registers(f)
              /\ Registers(f)[P!BarOffset(n)] = f.bars[n].value
<1>1. Registers(f)[0] = f.device * P!WORD + f.vendor
  BY DEF Registers
<1>2. Registers(f)[12] = f.header * P!WORD
  BY DEF Registers
<1>3. ASSUME NEW n \in 0 .. NBARS - 1
      PROVE  /\ P!BarOffset(n) \in DOMAIN Registers(f)
             /\ Registers(f)[P!BarOffset(n)] = f.bars[n].value
  <2> DEFINE o == P!BarOffset(n)
  <2>1. n \in 0 .. 5
    BY BusConstants
  <2>2. o \notin {0, 4, 8, 12, 60} /\ (o - 16) \div 4 = n
    BY <2>1 DEF P!BarOffset
  <2>3. o \in DOMAIN Registers(f)
    BY DEF Registers
  <2> HIDE DEF o
  <2>4. Registers(f)[o] = f.bars[(o - 16) \div 4].value
    BY <2>2, <2>3 DEF Registers
  <2> QED BY <2>2, <2>3, <2>4 DEF o
<1> QED BY <1>1, <1>2, <1>3

\* get_word and get_byte on what the registers hold.
LEMMA WordsOf ==
  ASSUME NEW h \in 0 .. P!WORD - 1, NEW l \in 0 .. P!WORD - 1
  PROVE  /\ P!get_word(h * P!WORD + l, 0) = l
         /\ P!get_word(h * P!WORD + l, 2) = h
<1> DEFINE v == h * P!WORD + l
<1>1. P!WORD \in Nat \ {0} /\ h \in Nat /\ l \in Nat
  BY WordIs
<1>2. v \div P!WORD = h /\ v % P!WORD = l
  BY <1>1, Quotient
<1>3. h % P!WORD = h
  <2>1. 0 * P!WORD + h = h
    BY <1>1
  <2> QED BY <1>1, <2>1, Quotient
<1>4. v \in Nat /\ v \div 1 = v
  BY <1>1
<1> HIDE DEF v
<1>5. P!Shift(v, 0) = v /\ P!Shift(v, 2) = v \div P!WORD
  BY <1>4 DEF P!Shift
<1>6. 2 * ((0 \div 2) % 2) = 0 /\ 2 * ((2 \div 2) % 2) = 2
  OBVIOUS
<1>7. P!get_word(v, 0) = v % P!WORD /\ P!get_word(v, 2) = (v \div P!WORD) % P!WORD
  BY <1>5, <1>6 DEF P!get_word
<1> QED BY <1>2, <1>3, <1>7 DEF v

LEMMA HeaderOf ==
  ASSUME NEW h \in 0 .. BYTE - 1
  PROVE  P!get_byte(h * P!WORD, 2) = h
<1>1. P!WORD \in Nat \ {0} /\ BYTE \in Nat \ {0} /\ h \in Nat
  BY WordIs, BusConstants
<1>2. h * P!WORD + 0 = h * P!WORD /\ 0 \in 0 .. P!WORD - 1
  BY <1>1
<1>3. (h * P!WORD) \div P!WORD = h
  BY <1>1, <1>2, Quotient
<1>4. h % BYTE = h
  <2>1. 0 * BYTE + h = h
    BY <1>1
  <2> QED BY <1>1, <2>1, Quotient
<1>5. P!get_byte(h * P!WORD, 2) = ((h * P!WORD) \div P!WORD) % BYTE
  <2>1. 2 % 4 = 2
    OBVIOUS
  <2> QED BY <2>1 DEF P!get_byte, P!Shift
<1> QED BY <1>3, <1>4, <1>5

\* What pciProbeDevice reads of a function that is there.
LEMMA ProbeIs ==
  ASSUME Wiring, NEW f \in bios.pci, NEW d, d = P!pciProbeDevice(f.slot, f.func)
  PROVE  IsRead(d, f) /\ d.header_type = f.header /\ P!Answers(f.slot, f.func)
<1> DEFINE a == P!Address(f.slot, f.func)
           Read(offset) == P!pciConfigReadDword(config, a, offset)
<1>1. a \in DOMAIN config /\ config[a] = Registers(f)
  BY Decode
<1>2. /\ Read(0) = f.device * P!WORD + f.vendor
      /\ Read(12) = f.header * P!WORD
      /\ \A n \in 0 .. NBARS - 1 : Read(P!BarOffset(n)) = f.bars[n].value
  BY <1>1, RegistersAre DEF P!pciConfigReadDword
<1>3. /\ d.dev = f.slot /\ d.func = f.func
      /\ d.vendor = P!get_word(Read(0), 0) /\ d.device = P!get_word(Read(0), 2)
      /\ d.header_type = P!get_byte(Read(12), 2)
      /\ d.addr = [n \in 0 .. NBARS - 1 |->
                     IF d.header_type = 0 THEN Read(P!BarOffset(n)) ELSE 0]
  BY DEF P!pciProbeDevice
<1> HIDE DEF Read, a
<1>4. /\ f.vendor \in 1 .. P!WORD - 2 /\ f.device \in 0 .. P!WORD - 1
      /\ f.header \in 0 .. BYTE - 1 /\ P!WORD \in Nat
  BY FunctionIs, WordIs DEF Wiring
<1>5. d.vendor = f.vendor /\ d.device = f.device
  <2>1. f.vendor \in 0 .. P!WORD - 1
    <3>1. ASSUME NEW n \in Nat, NEW x \in 1 .. n - 2 PROVE x \in 0 .. n - 1
      OBVIOUS
    <3> QED BY <1>4, <3>1, Zenon
  <2>2. /\ P!get_word(f.device * P!WORD + f.vendor, 0) = f.vendor
        /\ P!get_word(f.device * P!WORD + f.vendor, 2) = f.device
    BY <1>4, <2>1, WordsOf, Zenon
  <2> QED BY <1>2, <1>3, <2>2, Zenon
<1>6. d.header_type = f.header
  BY <1>2, <1>3, <1>4, HeaderOf
<1>7. ASSUME NEW n \in 0 .. NBARS - 1 PROVE f.bars[n].value \in Nat
  <2>1. IsSingle(f.bars[n]) => f.bars[n].value \in 0 .. P!DWORD - 1
    BY DEF IsSingle
  <2>2. IsDouble(f.bars[n], f.bars[n + 1]) =>
          f.bars[n].value \in f.bars[n].flags .. P!DWORD - 1 /\ f.bars[n].flags \in {4, 12}
    BY DEF IsDouble
  <2>3. IsDouble(f.bars[n - 1], f.bars[n]) => f.bars[n].value \in 0 .. P!DWORD - 1
    BY DEF IsDouble
  <2>4. \/ IsSingle(f.bars[n]) \/ IsDouble(f.bars[n], f.bars[n + 1])
        \/ IsDouble(f.bars[n - 1], f.bars[n])
    BY FunctionIs DEF Wiring
  <2> QED BY <2>1, <2>2, <2>3, <2>4, WordIs
<1>8. ASSUME NEW n \in 0 .. NBARS - 1
      PROVE  d.addr[n] \in Nat /\ (f.bars[n].value = 0 => d.addr[n] = 0)
  BY <1>2, <1>3, <1>7
<1>9. f.vendor # P!WORD - 1
  BY <1>4
<1>10. P!Answers(f.slot, f.func)
  BY <1>5, <1>9 DEF P!Answers
<1> QED BY <1>3, <1>5, <1>6, <1>8, <1>10 DEF IsRead

\* Where there is none, all ones are read, which is no vendor.
LEMMA NoAnswer ==
  ASSUME Wiring, NEW s \in 0 .. SLOTS - 1, NEW n \in 0 .. FUNCS - 1, P!Answers(s, n)
  PROVE  \E f \in bios.pci : f.slot = s /\ f.func = n
<1> SUFFICES ASSUME P!Address(s, n) \notin DOMAIN config PROVE FALSE
  <2>1. s \in Nat /\ n \in 0 .. 7
    BY BusConstants
  <2> QED BY <2>1, Decoding
<1>1. P!pciProbeDevice(s, n).vendor = P!get_word(P!DWORD - 1, 0)
  BY DEF P!pciProbeDevice, P!pciConfigReadDword
<1>2. P!DWORD - 1 = (P!WORD - 1) * P!WORD + (P!WORD - 1) /\ P!WORD - 1 \in 0 .. P!WORD - 1
  BY WordIs
<1>3. P!get_word(P!DWORD - 1, 0) = P!WORD - 1
  BY <1>2, WordsOf
<1> QED BY <1>1, <1>3 DEF P!Answers

\* How many functions of a slot are asked.
LEMMA FunctionsAre ==
  ASSUME Wiring, NEW s \in 0 .. SLOTS - 1
  PROVE  P!Functions(s) = IF Several(s) THEN FUNCS ELSE 1
<1>1. 0 \in 0 .. FUNCS - 1
  BY BusConstants
<1>2. ASSUME NEW g \in bios.pci, g.slot = s, g.func = 0
      PROVE  P!Answers(s, 0) /\ P!pciProbeDevice(s, 0).header_type = g.header
  <2>1. P!Answers(g.slot, g.func) /\ P!pciProbeDevice(g.slot, g.func).header_type = g.header
    BY ProbeIs
  <2> QED BY <1>2, <2>1
<1>3. CASE Several(s)
  <2>1. PICK g \in bios.pci : g.slot = s /\ g.func = 0 /\ g.header >= BYTE \div 2
    BY <1>3 DEF Several
  <2>2. P!Answers(s, 0) /\ P!pciProbeDevice(s, 0).header_type >= BYTE \div 2
    BY <1>2, <2>1
  <2> QED BY <1>3, <2>2 DEF P!Functions
<1>4. CASE ~ Several(s)
  <2> SUFFICES ASSUME P!Answers(s, 0), P!pciProbeDevice(s, 0).header_type >= BYTE \div 2 PROVE FALSE
    BY <1>4 DEF P!Functions
  <2>1. PICK g \in bios.pci : g.slot = s /\ g.func = 0
    BY <1>1, NoAnswer
  <2>2. g.header >= BYTE \div 2
    BY <1>2, <2>1
  <2> QED BY <1>4, <2>1, <2>2 DEF Several
<1> QED BY <1>3, <1>4

\* A turn of the loops passes the function asked, and no other one that there is
\* to find.
LEMMA Passing ==
  ASSUME Wiring, SearchInv, P!pciEnumerate, NEW f \in Reachable
  PROVE  Before(f, dev', fn') <=> Before(f, dev, fn) \/ (f.slot = dev /\ f.func = fn)
<1>1. /\ dev \in 0 .. SLOTS - 1 /\ dev \in Nat /\ fn \in Nat
  BY BusConstants DEF SearchInv, P!pciEnumerate
<1>2. f \in bios.pci /\ f.slot \in Nat /\ f.func \in Nat /\ f.func < FUNCS
  BY FunctionIs, BusConstants DEF Wiring, Reachable
<1>3. f.func # 0 => Several(f.slot)
  BY DEF Reachable, Several
<1>4. P!Functions(dev) = IF Several(dev) THEN FUNCS ELSE 1
  BY <1>1, FunctionsAre
<1>5. CASE fn' = fn + 1 /\ dev' = dev
  BY <1>1, <1>2, <1>5 DEF Before
<1>6. CASE fn + 1 >= P!Functions(dev) /\ fn' = 0 /\ dev' = dev + 1
  <2>1. f.slot = dev => f.func <= fn
    <3>1. CASE Several(dev)
      BY <1>1, <1>2, <1>4, <1>6, <3>1, BusConstants
    <3>2. CASE ~ Several(dev)
      BY <1>1, <1>3, <3>2
    <3> QED BY <3>1, <3>2
  <2> QED BY <1>1, <1>2, <1>6, <2>1 DEF Before
<1> QED BY <1>5, <1>6 DEF P!pciEnumerate

\* The function asked is there, and is one to find; or there is none.
LEMMA Asking ==
  ASSUME Wiring, SearchInv, P!pciEnumerate, NEW d, d = P!pciProbeDevice(dev, fn)
  PROVE  /\ d \in Results
         /\ P!Answers(dev, fn) =>
              \E f \in Reachable : f.slot = dev /\ f.func = fn /\ IsRead(d, f)
         /\ ~ P!Answers(dev, fn) => \A f \in Reachable : ~ (f.slot = dev /\ f.func = fn)
<1>1. dev \in 0 .. SLOTS - 1 /\ fn \in 0 .. FUNCS - 1
  BY BusConstants DEF SearchInv, P!pciEnumerate
<1>2. d \in Results
  BY <1>1 DEF Results
<1>3. ASSUME P!Answers(dev, fn)
      PROVE  \E f \in Reachable : f.slot = dev /\ f.func = fn /\ IsRead(d, f)
  <2>1. PICK f \in bios.pci : f.slot = dev /\ f.func = fn
    BY <1>1, <1>3, NoAnswer
  <2>2. IsRead(P!pciProbeDevice(f.slot, f.func), f)
    BY ProbeIs
  <2>3. f \in Reachable
    <3>1. CASE fn = 0
      BY <2>1, <3>1 DEF Reachable
    <3>2. CASE fn # 0
      <4>1. Several(dev)
        BY <1>1, <3>2 DEF SearchInv
      <4> QED BY <2>1, <4>1 DEF Reachable, Several
    <3> QED BY <3>1, <3>2
  <2> QED BY <2>1, <2>2, <2>3
<1>4. ASSUME NEW f \in Reachable, f.slot = dev, f.func = fn PROVE P!Answers(dev, fn)
  <2>1. f \in bios.pci
    BY DEF Reachable
  <2>2. P!Answers(f.slot, f.func)
    BY <2>1, ProbeIs
  <2> QED BY <1>4, <2>2
<1> QED BY <1>2, <1>3, <1>4

LEMMA SearchStep ==
  ASSUME Wiring, SearchInv, P!pciEnumerate, bios' = bios,
         stage' \in {"list", "up"} => dev' = SLOTS
  PROVE  SearchInv'
<1> DEFINE d == P!pciProbeDevice(dev, fn)
<1>1. /\ dev \in 0 .. SLOTS - 1 /\ dev \in Nat /\ fn \in 0 .. FUNCS - 1 /\ fn \in Nat
      /\ SLOTS \in Nat /\ FUNCS \in Nat
      /\ config' = config
  BY BusConstants DEF SearchInv, P!pciEnumerate
<1>2. Results' = Results
  BY <1>1 DEF Results, P!pciProbeDevice, P!pciConfigReadDword
<1>3. Reachable' = Reachable
  BY DEF Reachable
<1>4. P!Functions(dev) = IF Several(dev) THEN FUNCS ELSE 1
  BY <1>1, FunctionsAre
<1>5. /\ dev' \in 0 .. SLOTS /\ fn' \in 0 .. FUNCS - 1
      /\ dev' = SLOTS => fn' = 0
      /\ fn' > 0 => Several(dev)'
  <2>1. CASE fn + 1 < P!Functions(dev) /\ fn' = fn + 1 /\ dev' = dev
    <3>1. Several(dev)
      BY <1>1, <1>4, <2>1
    <3>2. P!Functions(dev) = FUNCS
      BY <1>4, <3>1
    <3>3. Several(dev)'
      BY <2>1, <3>1 DEF Several
    <3> QED BY <1>1, <2>1, <3>2, <3>3
  <2>2. CASE fn' = 0 /\ dev' = dev + 1
    BY <1>1, <2>2, BusConstants
  <2> QED BY <2>1, <2>2 DEF P!pciEnumerate
<1>6. \A f \in Reachable : Before(f, dev', fn') <=> Before(f, dev, fn) \/ (f.slot = dev /\ f.func = fn)
  BY Passing
<1>7. /\ d \in Results
      /\ P!Answers(dev, fn) => \E f \in Reachable : f.slot = dev /\ f.func = fn /\ IsRead(d, f)
      /\ ~ P!Answers(dev, fn) => \A f \in Reachable : ~ (f.slot = dev /\ f.func = fn)
  BY Asking
<1>8. out' = IF P!Answers(dev, fn) THEN Append(out, d) ELSE out
  BY DEF P!pciEnumerate
<1>9. /\ out \in Seq(Results) /\ Len(out) \in Nat /\ DOMAIN out = 1 .. Len(out)
  BY SeqIs DEF SearchInv
<1> HIDE DEF d
<1>10. dev * FUNCS + fn < dev' * FUNCS + fn' /\ {dev * FUNCS + fn, dev' * FUNCS + fn'} \subseteq Nat
  <2>1. dev * FUNCS \in Nat /\ (dev + 1) * FUNCS = dev * FUNCS + FUNCS
    BY <1>1
  <2>2. CASE fn' = fn + 1 /\ dev' = dev
    BY <1>1, <2>1, <2>2
  <2>3. CASE fn' = 0 /\ dev' = dev + 1
    BY <1>1, <2>1, <2>3
  <2> QED BY <2>2, <2>3 DEF P!pciEnumerate
<1>11. Len(out) <= dev * FUNCS + fn
  BY DEF SearchInv
<1>12. \A k \in DOMAIN out : \E f \in Reachable : Before(f, dev, fn) /\ IsRead(out[k], f)
  BY DEF SearchInv
<1>13. \A f \in Reachable : Before(f, dev, fn) => \E k \in DOMAIN out : IsRead(out[k], f)
  BY DEF SearchInv
<1>14. \A j, k \in DOMAIN out : j < k => Precedes(out[j], out[k])
  BY DEF SearchInv
<1>15. CASE ~ P!Answers(dev, fn)
  <2>1. out' = out /\ \A f \in Reachable : Before(f, dev', fn') <=> Before(f, dev, fn)
    BY <1>6, <1>7, <1>8, <1>15
  <2>2. Len(out) <= dev' * FUNCS + fn'
    BY <1>9, <1>10, <1>11
  <2> QED BY <1>2, <1>3, <1>5, <1>9, <1>12, <1>13, <1>14, <2>1, <2>2 DEF SearchInv, Before, IsRead, Precedes
<1>16. CASE P!Answers(dev, fn)
  <2>1. PICK g \in Reachable : g.slot = dev /\ g.func = fn /\ IsRead(d, g)
    BY <1>7, <1>16
  <2>2. out' = Append(out, d)
    BY <1>8, <1>16
  <2>3. /\ out' \in Seq(Results) /\ Len(out') = Len(out) + 1 /\ DOMAIN out' = 1 .. Len(out) + 1
        /\ out'[Len(out) + 1] = d
        /\ \A k \in DOMAIN out : k \in DOMAIN out' /\ out'[k] = out[k]
    BY <1>7, <1>9, <2>2
  <2>4. Len(out') <= dev' * FUNCS + fn'
    BY <1>9, <1>10, <1>11, <2>3
  <2>5. ASSUME NEW k \in DOMAIN out'
        PROVE  \E f \in Reachable : Before(f, dev', fn') /\ IsRead(out'[k], f)
    <3>1. CASE k \in DOMAIN out
      BY <1>6, <1>12, <2>3, <3>1
    <3>2. CASE k = Len(out) + 1
      BY <1>6, <2>1, <2>3, <3>2
    <3> QED BY <1>9, <2>3, <3>1, <3>2
  <2>6. ASSUME NEW f \in Reachable, Before(f, dev', fn')
        PROVE  \E k \in DOMAIN out' : IsRead(out'[k], f)
    <3>1. CASE Before(f, dev, fn)
      BY <1>13, <2>3, <3>1
    <3>2. CASE f.slot = dev /\ f.func = fn
      <4>1. IsRead(d, f)
        <5>1. f = g
          <6>1. f \in bios.pci /\ g \in bios.pci /\ bios \in Bioses
            BY DEF Reachable, Wiring
          <6> QED BY <2>1, <3>2, <6>1, FunctionIs
        <5> QED BY <2>1, <5>1
      <4>2. Len(out) + 1 \in DOMAIN out'
        BY <1>9, <2>3
      <4> QED BY <2>3, <4>1, <4>2
    <3> QED BY <1>6, <2>6, <3>1, <3>2
  <2>7. ASSUME NEW j \in DOMAIN out', NEW k \in DOMAIN out', j < k
        PROVE  Precedes(out'[j], out'[k])
    <3>1. j \in DOMAIN out /\ out'[j] = out[j]
      BY <1>9, <2>3, <2>7
    <3>2. CASE k \in DOMAIN out
      BY <1>14, <2>3, <2>7, <3>1, <3>2
    <3>3. CASE k = Len(out) + 1
      <4>1. PICK f \in Reachable : Before(f, dev, fn) /\ IsRead(out[j], f)
        BY <1>12, <3>1
      <4>2. out'[k] = d /\ d.dev = dev /\ d.func = fn /\ out[j].dev = f.slot /\ out[j].func = f.func
        BY <2>1, <2>3, <3>3, <4>1 DEF IsRead
      <4>3. f.slot < dev \/ (f.slot = dev /\ f.func < fn)
        BY <4>1 DEF Before
      <4> QED BY <3>1, <4>2, <4>3 DEF Precedes
    <3> QED BY <1>9, <2>3, <3>2, <3>3
  <2> QED BY <1>2, <1>3, <1>5, <2>3, <2>4, <2>5, <2>6, <2>7 DEF SearchInv, Before, IsRead, Precedes
<1> QED BY <1>15, <1>16

\* At the end of the search, all functions that there are to find have been passed.
LEMMA SearchEnd ==
  ASSUME Wiring, SearchInv
  PROVE  EveryFunctionFound
<1>1. /\ out \in Seq(Results) /\ Len(out) \in Nat /\ DOMAIN out = 1 .. Len(out)
      /\ Len(out) <= dev * FUNCS + fn
      /\ dev \in 0 .. SLOTS /\ fn \in 0 .. FUNCS - 1 /\ (dev = SLOTS => fn = 0)
  BY SeqIs DEF SearchInv
<1>2. \A k \in DOMAIN out : \E f \in Reachable : Before(f, dev, fn) /\ IsRead(out[k], f)
  BY DEF SearchInv
<1>3. SLOTS \in Nat /\ FUNCS \in Nat \ {0} /\ MAXOUT \in Nat /\ SLOTS * FUNCS <= MAXOUT
  BY StartupAssumption
<1>4. Len(out) <= MAXOUT
  <2>1. dev \in Nat /\ fn \in Nat /\ dev * FUNCS \in Nat /\ SLOTS * FUNCS \in Nat
    BY <1>1, <1>3
  <2>2. dev < SLOTS => dev * FUNCS + FUNCS <= SLOTS * FUNCS
    BY <1>3, <2>1, Units
  <2>3. dev * FUNCS + fn <= SLOTS * FUNCS
    <3>1. CASE dev = SLOTS
      BY <1>1, <2>1, <3>1
    <3>2. CASE dev < SLOTS
      BY <1>1, <1>3, <2>1, <2>2, <3>2
    <3> QED BY <1>1, <1>3, <3>1, <3>2
  <2> QED BY <1>1, <1>3, <2>1, <2>3
<1>5. ASSUME NEW f \in Reachable
      PROVE  f.slot \in 0 .. SLOTS - 1 /\ f.func \in 0 .. FUNCS - 1
  BY FunctionIs DEF Wiring, Reachable
<1>6. ASSUME NEW j \in DOMAIN out, NEW k \in DOMAIN out, j < k
      PROVE  out[j].dev * FUNCS + out[j].func < out[k].dev * FUNCS + out[k].func
  <2>1. PICK f \in Reachable : IsRead(out[j], f)
    BY <1>2
  <2>2. PICK g \in Reachable : IsRead(out[k], g)
    BY <1>2
  <2>3. /\ out[j].dev \in Nat /\ out[j].func \in 0 .. FUNCS - 1
        /\ out[k].dev \in Nat /\ out[k].func \in 0 .. FUNCS - 1
    BY <1>3, <1>5, <2>1, <2>2 DEF IsRead
  <2>4. Precedes(out[j], out[k])
    BY <1>6 DEF SearchInv
  <2>5. ASSUME NEW s \in Nat, NEW t \in Nat, NEW m \in 0 .. FUNCS - 1, NEW n \in 0 .. FUNCS - 1,
               s < t \/ (s = t /\ m < n)
        PROVE  s * FUNCS + m < t * FUNCS + n
    <3>1. s * FUNCS \in Nat /\ t * FUNCS \in Nat /\ (s < t => s * FUNCS + FUNCS <= t * FUNCS)
      BY <1>3, Units
    <3>2. CASE s < t
      BY <1>3, <3>1, <3>2
    <3>3. CASE s = t /\ m < n
      BY <1>3, <3>1, <3>3
    <3> QED BY <2>5, <3>2, <3>3
  <2> QED BY <2>3, <2>4, <2>5 DEF Precedes
<1>7. ASSUME stage \in {"list", "up"}
      PROVE  {<<d.dev, d.func, d.vendor, d.device>> : d \in Range(out)}
               = {<<f.slot, f.func, f.vendor, f.device>> : f \in Reachable}
  <2>1. dev = SLOTS
    BY <1>7 DEF SearchInv
  <2>2. \A f \in Reachable : Before(f, dev, fn)
    BY <1>3, <1>5, <2>1 DEF Before
  <2>3. \A f \in Reachable : \E k \in DOMAIN out : IsRead(out[k], f)
    BY <2>2 DEF SearchInv
  <2>4. \A d, f : IsRead(d, f) =>
          <<d.dev, d.func, d.vendor, d.device>> = <<f.slot, f.func, f.vendor, f.device>>
    BY DEF IsRead
  <2>5. \A d : d \in Range(out) <=> \E k \in DOMAIN out : d = out[k]
    BY DEF Range
  <2> QED BY <1>2, <2>3, <2>4, <2>5
<1> QED BY <1>4, <1>6, <1>7 DEF EveryFunctionFound

-----------------------------------------------------------------------------
(* Sizing *)

\* Numbers that are whole multiples of u, and what is left of others.
LEMMA Multiples ==
  ASSUME NEW u \in Nat \ {0}, NEW a \in Nat, NEW b \in Nat, a % u = 0, b % u = 0
  PROVE  /\ (a + b) % u = 0
         /\ b <= a => (a - b) % u = 0
<1> DEFINE m == a \div u  n == b \div u
<1>1. m \in Nat /\ n \in Nat /\ a = m * u /\ b = n * u
  BY Whole
<1>2. ASSUME NEW k \in Nat PROVE (k * u) % u = 0
  <2>1. k * u + 0 = k * u /\ 0 \in 0 .. u - 1
    OBVIOUS
  <2> QED BY <2>1, Quotient
<1> HIDE DEF m, n
<1>3. (a + b) % u = 0
  <2>1. m + n \in Nat /\ (m + n) * u = a + b
    BY <1>1, Units
  <2> QED BY <1>2, <2>1
<1>4. ASSUME b <= a PROVE (a - b) % u = 0
  <2>1. n <= m
    BY <1>1, <1>4, Units
  <2>2. m - n \in Nat /\ n + (m - n) = m
    BY <1>1, <2>1
  <2>3. (n + (m - n)) * u = n * u + (m - n) * u /\ (m - n) * u \in Nat
    BY <1>1, <2>2, Units
  <2>4. (m - n) * u = a - b
    BY <1>1, <2>2, <2>3
  <2> QED BY <1>2, <2>2, <2>4
<1> QED BY <1>3, <1>4

LEMMA Multiple ==
  ASSUME NEW u \in Nat \ {0}, NEW a \in Nat, a % u = 0
  PROVE  /\ \A c \in Nat : a * c \in Nat /\ (a * c) % u = 0
         /\ \A r \in 0 .. u - 1 : (a + r) % u = r
<1> DEFINE m == a \div u
<1>1. m \in Nat /\ a = m * u
  BY Whole
<1> HIDE DEF m
<1>2. ASSUME NEW c \in Nat PROVE a * c \in Nat /\ (a * c) % u = 0
  <2>1. m * c \in Nat /\ (m * c) * u = (m * u) * c
    BY <1>1
  <2>2. (m * c) * u + 0 = a * c /\ 0 \in 0 .. u - 1
    BY <1>1, <2>1
  <2> QED BY <2>1, <2>2, Quotient
<1>3. ASSUME NEW r \in 0 .. u - 1 PROVE (a + r) % u = r
  BY <1>1, Quotient
<1> QED BY <1>2, <1>3

\* What sticks of all ones where s divides w.
LEMMA Ones ==
  ASSUME NEW w \in Nat \ {0}, NEW s \in Nat \ {0}, w % s = 0
  PROVE  s <= w /\ (w - 1) - ((w - 1) % s) = w - s
<1>1. s <= w
  <2> SUFFICES ASSUME w < s PROVE FALSE
    OBVIOUS
  <2>1. 0 * s + w = w /\ w \in 0 .. s - 1
    OBVIOUS
  <2>2. w % s = w
    BY <2>1, Quotient
  <2> QED BY <2>2
<1>2. (w - s) % s = 0 /\ w - s \in Nat
  <2>1. s % s = 0
    <3>1. 1 * s + 0 = s /\ 0 \in 0 .. s - 1
      OBVIOUS
    <3> QED BY <3>1, Quotient
  <2>2. (w - s) % s = 0
    BY <1>1, <2>1, Multiples, Zenon
  <2> QED BY <1>1, <2>2
<1>3. ((w - s) + (s - 1)) % s = s - 1
  <2>1. s - 1 \in 0 .. s - 1
    OBVIOUS
  <2> QED BY <1>2, <2>1, Multiple
<1>4. (w - s) + (s - 1) = w - 1
  BY <1>1
<1> QED BY <1>1, <1>3, <1>4

\* A register of width w, for a region of s bytes, with flags g below low and an
\* address, v without the flags, that is a multiple of s.
Fits(w, low, s, g, v) ==
  /\ w \in Nat \ {0} /\ w % 16 = 0 /\ low \in {4, 16}
  /\ s \in 1 .. w - 1 /\ w % s = 0 /\ s % low = 0
  /\ g \in 0 .. low - 1
  /\ v \in Nat /\ v >= g /\ (v - g) % s = 0

\* What sticks of ones and of v.
LEMMA Register ==
  ASSUME NEW w, NEW low, NEW s, NEW g, NEW v, Fits(w, low, s, g, v)
  PROVE  /\ (w - 1) - ((w - 1) % s) + g = w - s + g
         /\ v - (v % s) + g = v
         /\ w - s + g \in Nat /\ (w - s + g) % low = g /\ w - s >= 1
         /\ v % low = g
<1> USE DEF Fits
<1>1. s \in Nat \ {0} /\ g \in Nat /\ v - g \in Nat /\ w - s \in Nat /\ w - s >= 1
  OBVIOUS
<1>2. (w - 1) - ((w - 1) % s) = w - s
  BY <1>1, Ones
<1>3. w % low = 0
  OBVIOUS
<1>4. low <= s
  BY <1>1, Ones
<1>5. v % s = g
  <2>1. g \in 0 .. s - 1
    BY <1>1, <1>4
  <2>2. ((v - g) + g) % s = g
    BY <1>1, <2>1, Multiple
  <2> QED BY <1>1, <2>2
<1>6. (w - s + g) % low = g
  <2>1. (w - s) % low = 0
    BY <1>1, <1>3, Multiples
  <2> QED BY <1>1, <2>1, Multiple
<1>7. v % low = g
  <2> DEFINE m == (v - g) \div s
  <2>1. m \in Nat /\ v - g = m * s
    BY <1>1, Whole
  <2> HIDE DEF m
  <2>2. s * m \in Nat /\ (s * m) % low = 0
    <3>1. low \in Nat \ {0} /\ s \in Nat /\ s % low = 0
      BY <1>1
    <3> QED BY <2>1, <3>1, Multiple, Zenon
  <2>3. s * m = v - g
    BY <1>1, <2>1
  <2>4. ((v - g) + g) % low = g
    BY <1>1, <2>2, <2>3, Multiple
  <2> QED BY <1>1, <2>4
<1> QED BY <1>1, <1>2, <1>5, <1>6, <1>7

LEMMA DwordIs ==
  /\ P!DWORD \in Nat \ {0} /\ P!DWORD % 16 = 0 /\ P!DWORD >= 16
<1>1. P!DWORD \in Nat /\ P!DWORD > 1 /\ P!DWORD % 16 = 0
  BY WordIs
<1> QED BY <1>1

LEMMA Lesser ==
  ASSUME NEW a \in Nat, NEW b \in Nat
  PROVE  P!Min({a, b}) = IF a <= b THEN a ELSE b
<1>1. {a, b} \in SUBSET Nat /\ {a, b} # {}
  OBVIOUS
<1>2. Min({a, b}) \in {a, b}
  BY <1>1, MinIs
<1>3. PICK m \in {a, b} : \A k \in {a, b} : m <= k
  BY <1>1, Least
<1>4. Min({a, b}) <= a /\ Min({a, b}) <= b
  BY <1>3 DEF Min
<1>5. Min({a, b}) = IF a <= b THEN a ELSE b
  BY <1>2, <1>4
<1> QED BY <1>5, Zenon DEF Min, P!Min

LEMMA Greater ==
  ASSUME NEW a \in Nat, NEW b \in Nat
  PROVE  P!Max({a, b}) = IF a <= b THEN b ELSE a
<1>1. {a, b} \in SUBSET Nat /\ {a, b} # {} /\ \A x \in {a, b} : x <= a + b
  OBVIOUS
<1>2. a + b \in Nat
  OBVIOUS
<1>3. Max({a, b}) \in {a, b} /\ \A x \in {a, b} : x <= Max({a, b})
  BY <1>1, <1>2, MaxIs
<1>4. Max({a, b}) = IF a <= b THEN b ELSE a
  BY <1>3
<1> QED BY <1>4, Zenon DEF Max, P!Max

\* The size that is computed from it.
LEMMA SizeIs ==
  ASSUME NEW w, NEW low, NEW s, NEW g, NEW v, Fits(w, low, s, g, v), NEW p, p = w - s + g
  PROVE  P!SizeOf(p, low, w) = s % SIZES
<1>1. w \in Nat \ {0} /\ s \in 1 .. w - 1 /\ s \in Nat /\ g \in Nat
  BY DEF Fits
<1>2. p \in Nat /\ p % low = g
  BY Register
<1>3. p - (p % low) = w - s /\ w - (w - s) = s
  BY <1>1, <1>2
<1>4. s % w = s
  <2>1. 0 * w + s = s /\ s \in 0 .. w - 1
    BY <1>1
  <2> QED BY <1>1, <2>1, Quotient
<1>5. P!SizeOf(p, low, w) = ((w - (p - (p % low))) % w) % SIZES
  BY DEF P!SizeOf
<1> QED BY <1>3, <1>4, <1>5, Zenon

\* A BAR of one register that is not empty.
LEMMA SingleIs ==
  ASSUME NEW b, IsSingle(b), b.kind # "none",
         NEW p, p = P!Sticks(b, P!DWORD - 1),
         NEW low, low = IF p % 2 = 1 THEN 4 ELSE 16
  PROVE  /\ p \in Nat /\ p # 0
         /\ p % 2 = 1 <=> b.kind = "io"
         /\ ~ (p % 2 = 0 /\ (p \div 2) % 4 = 2)
         /\ P!SizeOf(p, low, P!DWORD) = b.size % SIZES
         /\ b.value \in Nat /\ b.flags \in Nat /\ b.value >= b.flags
         /\ b.value - (b.value % low) = b.value - b.flags
         /\ P!Sticks(b, b.value) = b.value
<1> DEFINE w == P!DWORD  s == b.size  g == b.flags  v == b.value
           o == IF b.kind = "io" THEN 4 ELSE 16
<1>1. w \in Nat \ {0} /\ w % 16 = 0
  BY DwordIs
<1>2. /\ s \in 1 .. w - 1 /\ w % s = 0 /\ s % o = 0
      /\ v \in 0 .. w - 1 /\ v >= g /\ (v - g) % s = 0
      /\ b.kind \in {"io", "mem"}
      /\ g \in (IF b.kind = "io" THEN {1} ELSE {0, 2, 8, 10})
  BY DEF IsSingle
<1>3. P!Sticks(b, w - 1) = (w - 1) - ((w - 1) % s) + g /\ P!Sticks(b, v) = v - (v % s) + g
  <2>1. P!Min({s, w}) = s
    BY <1>1, <1>2, Lesser
  <2>2. \A x : P!Sticks(b, x) = x - (x % P!Min({s, w})) + g
    <3>1. b.kind # "none" /\ b.kind # "high"
      BY <1>2
    <3> QED BY <3>1, Zenon DEF P!Sticks
  <2> QED BY <2>1, <2>2, Zenon
<1> HIDE DEF w, s, g, v
<1>4. v \in Nat /\ g \in 0 .. o - 1 /\ o \in {4, 16} /\ g \in Nat /\ s \in Nat
  BY <1>1, <1>2
<1> HIDE DEF o
<1>5. Fits(w, o, s, g, v)
  BY <1>1, <1>2, <1>4 DEF Fits
<1>6. /\ (w - 1) - ((w - 1) % s) + g = w - s + g /\ v - (v % s) + g = v
      /\ w - s + g \in Nat /\ (w - s + g) % o = g /\ w - s >= 1 /\ v % o = g
  BY <1>5, Register
<1>7. p = w - s + g /\ p \in Nat /\ p # 0 /\ p % o = g
  <2>1. p = w - s + g
    BY <1>3, <1>6 DEF w
  <2> QED BY <1>1, <1>2, <1>4, <1>6, <2>1
<1>8. /\ p % 2 = 1 <=> b.kind = "io"
      /\ ~ (p % 2 = 0 /\ (p \div 2) % 4 = 2)
  <2>1. CASE b.kind = "io"
    <3>1. p % 4 = 1
      BY <1>2, <1>7, <2>1 DEF o
    <3> QED BY <1>7, <2>1, <3>1
  <2>2. CASE b.kind = "mem"
    <3>1. p % 16 \in {0, 2, 8, 10}
      BY <1>2, <1>7, <2>2 DEF o
    <3> QED BY <1>7, <2>2, <3>1
  <2> QED BY <1>2, <2>1, <2>2
<1>9. low = o
  BY <1>8 DEF o
<1>10. P!SizeOf(p, o, w) = s % SIZES
  BY <1>5, <1>7, SizeIs
<1> QED BY <1>2, <1>3, <1>4, <1>6, <1>7, <1>8, <1>9, <1>10 DEF w, s, g, v

\* What sticks of a value in one half of a BAR of 64 bits.
LEMMA Halves ==
  ASSUME NEW l, NEW h, IsDouble(l, h), NEW x
  PROVE  /\ P!Sticks(l, x) = x - (x % P!Min({l.size, P!DWORD})) + l.flags
         /\ P!Sticks(h, x) = x - (x % P!Max({1, l.size \div P!DWORD}))
<1>1. l.kind = "low" /\ h.kind = "high" /\ h.size = l.size
  BY DEF IsDouble
<1> QED BY <1>1, Zenon DEF P!Sticks

\* Seen as one register of 64 bits, both halves together keep what a register
\* with this size and these flags keeps of all ones.
LEMMA DoubleKeeps ==
  ASSUME NEW l, NEW h, IsDouble(l, h),
         NEW w, w = P!DWORD, NEW s, s = l.size, NEW g, g = l.flags, NEW v, v = l.value,
         NEW p, p = P!Sticks(l, w - 1), NEW r, r = P!Sticks(h, w - 1)
  PROVE  /\ Fits(w * w, 16, s, g, g)
         /\ r * w + p = w * w - s + g
         /\ p \in Nat /\ p % 16 = g
         /\ v \in Nat /\ v >= g /\ v % 16 = g
         /\ P!Sticks(l, v) = v /\ P!Sticks(h, h.value) = h.value
<1>1. w \in Nat \ {0} /\ w % 16 = 0 /\ w >= 16
  BY DwordIs
<1>2. g \in {4, 12} /\ v \in g .. w - 1 /\ h.value \in 0 .. w - 1 /\ v \in Nat /\ h.value \in Nat
  BY <1>1 DEF IsDouble
<1>3. w * w \in Nat \ {0} /\ (w * w) % 16 = 0
  <2>1. w * w \in Nat /\ w * w >= w
    BY <1>1
  <2>2. (w * w) % 16 = 0
    <3>1. 16 \in Nat \ {0} /\ w \in Nat
      BY <1>1
    <3> HIDE <2>1
    <3> QED BY <1>1, <3>1, Multiple
  <2> QED BY <1>1, <2>1, <2>2
<1>4. g \in 0 .. 15 /\ (g - g) = 0
  BY <1>2
<1>5. CASE s \in 1 .. w - 1 /\ w % s = 0 /\ s % 16 = 0 /\ (v - g) % s = 0
  <2>1. Fits(w, 16, s, g, v)
    BY <1>1, <1>2, <1>4, <1>5 DEF Fits
  <2>2. P!Min({s, w}) = s /\ s \div w = 0 /\ P!Max({1, 0}) = 1 /\ s \in Nat
    <3>1. s \in 0 .. w - 1 /\ s \in Nat /\ w \in Nat /\ s <= w
      BY <1>1, <1>5
    <3>2. s \div w = 0
      BY <1>1, <3>1, Small
    <3>3. P!Min({s, w}) = s
      BY <3>1, Lesser
    <3>4. P!Max({1, 0}) = 1
      BY Greater
    <3> QED BY <3>1, <3>2, <3>3, <3>4
  <2>3. p = (w - 1) - ((w - 1) % s) + g /\ P!Sticks(l, v) = v - (v % s) + g
    BY <2>2, Halves
  <2>4. r = (w - 1) - ((w - 1) % 1) /\ P!Sticks(h, h.value) = h.value - (h.value % 1)
    BY <2>2, Halves
  <2>5. p = w - s + g /\ p \in Nat /\ p % 16 = g /\ v % 16 = g /\ P!Sticks(l, v) = v
    BY <2>1, <2>3, Register
  <2>6. r = w - 1 /\ P!Sticks(h, h.value) = h.value
    BY <1>1, <1>2, <2>4
  <2>7. r * w + p = w * w - s + g
    <3>1. (w - 1) * w = w * w - w /\ w * w \in Nat
      BY <1>1
    <3>2. r * w = w * w - w
      BY <2>6, <3>1
    <3> QED BY <1>1, <1>2, <2>2, <2>5, <3>1, <3>2
  <2>8. (w * w) % s = 0
    <3> DEFINE m == w \div s
    <3>1. s \in Nat \ {0} /\ w \in Nat /\ w % s = 0
      BY <1>1, <1>5
    <3>2. s \in Nat \ {0} /\ m \in Nat /\ w = m * s
      <4> HIDE <1>5
      <4> QED BY <3>1, Whole
    <3> HIDE DEF m
    <3>3. m * w \in Nat /\ w * w = (m * w) * s
      BY <1>1, <3>2
    <3> QED BY <3>2, <3>3, Exact
  <2>9. s \in 1 .. w * w - 1
    BY <1>1, <1>5
  <2>10. 0 % s = 0
    BY <1>5
  <2>11. Fits(w * w, 16, s, g, g)
    BY <1>2, <1>3, <1>4, <1>5, <2>8, <2>9, <2>10 DEF Fits
  <2> QED BY <1>2, <2>5, <2>6, <2>7, <2>11
<1>6. ASSUME NEW q \in 1 .. w - 1, s = q * w, w % q = 0, v = g, h.value % q = 0
      PROVE  /\ Fits(w * w, 16, s, g, g)
             /\ r * w + p = w * w - s + g
             /\ p \in Nat /\ p % 16 = g
             /\ v \in Nat /\ v >= g /\ v % 16 = g
             /\ P!Sticks(l, v) = v /\ P!Sticks(h, h.value) = h.value
  <2>1. q \in Nat \ {0} /\ s \in Nat /\ s >= w
    BY <1>1, <1>6
  <2>2. s \div w = q
    BY <1>1, <1>6, <2>1, Exact
  <2>3. P!Min({s, w}) = w
    BY <1>1, <2>1, Lesser
  <2>4. P!Max({1, q}) = q
    BY <2>1, Greater
  <2>5. \A x \in 0 .. w - 1 : x % w = x
    <3>1. ASSUME NEW x \in 0 .. w - 1 PROVE x % w = x
      BY <1>1, <3>1, Small
    <3> QED BY <3>1
  <2>6. p = g /\ P!Sticks(l, v) = g
    <3>1. p = (w - 1) - ((w - 1) % w) + g /\ P!Sticks(l, v) = v - (v % w) + g
      BY <2>3, Halves
    <3>2. w - 1 \in 0 .. w - 1 /\ v \in 0 .. w - 1
      BY <1>1, <1>2
    <3> QED BY <1>1, <1>2, <2>5, <3>1, <3>2
  <2>7. r = w - q /\ P!Sticks(h, h.value) = h.value
    <3>1. r = (w - 1) - ((w - 1) % q) /\ P!Sticks(h, h.value) = h.value - (h.value % q)
      BY <2>2, <2>4, Halves
    <3>2. (w - 1) - ((w - 1) % q) = w - q
      BY <1>1, <1>6, <2>1, Ones
    <3> QED BY <1>2, <1>6, <3>1, <3>2
  <2>8. r * w + p = w * w - s + g
    BY <1>1, <1>2, <1>6, <2>1, <2>6, <2>7
  <2>9. g % 16 = g
    BY <1>2
  <2>10. (w * w) % s = 0
    <3> DEFINE m == w \div q
    <3>1. m \in Nat /\ w = m * q
      BY <1>1, <1>6, <2>1, Whole
    <3> HIDE DEF m
    <3>2. w * w = m * s
      BY <1>1, <1>6, <2>1, <3>1
    <3>3. s \in Nat \ {0}
      BY <1>1, <2>1
    <3> QED BY <3>1, <3>2, <3>3, Exact
  <2>11. s \in 1 .. w * w - 1
    <3>1. q * w + w <= w * w
      BY <1>1, <1>6, <2>1, Units
    <3> QED BY <1>1, <1>3, <1>6, <2>1, <3>1
  <2>12. s % 16 = 0
    <3>1. s = w * q
      BY <1>1, <1>6, <2>1
    <3>2. 16 \in Nat \ {0} /\ w \in Nat /\ q \in Nat
      BY <1>1, <2>1
    <3>3. (w * q) % 16 = 0
      BY <1>1, <3>2, Multiple
    <3> QED BY <3>1, <3>3
  <2>13. 0 % s = 0
    BY <1>1, <2>1
  <2>14. Fits(w * w, 16, s, g, g)
    BY <1>2, <1>3, <1>4, <2>10, <2>11, <2>12, <2>13 DEF Fits
  <2> QED BY <1>2, <1>6, <2>6, <2>7, <2>8, <2>9, <2>14
<1>7. \/ s \in 1 .. w - 1 /\ w % s = 0 /\ s % 16 = 0 /\ (v - g) % s = 0
      \/ \E q \in 1 .. w - 1 : s = q * w /\ w % q = 0 /\ v = g /\ h.value % q = 0
  BY Zenon DEF IsDouble
<1> QED BY <1>5, <1>6, <1>7

\* A BAR is written with ones and read; restored, it has again what it had.
LEMMA Trying ==
  ASSUME Wiring, NEW f \in bios.pci, target = Decoded(f), NEW n \in 0 .. NBARS - 1
  PROVE  /\ P!Orig(n) = f.bars[n].value
         /\ P!Probe(n) = P!Sticks(f.bars[n], P!DWORD - 1)
         /\ P!Sticks(f.bars[n], f.bars[n].value) = f.bars[n].value =>
              P!Restored(config, n) = config
<1> DEFINE a == Decoded(f)  o == P!BarOffset(n)
<1>1. a \in DOMAIN config /\ config[a] = Registers(f) /\ wired[a] = f.bars
  BY Decode
<1>2. o \in DOMAIN config[a] /\ config[a][o] = f.bars[n].value
  BY <1>1, RegistersAre
<1>3. \A x : P!pciConfigWriteDword(config, a, n, x)
               = [config EXCEPT ![a][o] = P!Sticks(f.bars[n], x)]
  BY <1>1 DEF P!pciConfigWriteDword
<1> HIDE DEF a, o
<1>4. P!Orig(n) = f.bars[n].value
  BY <1>1, <1>2 DEF P!Orig, P!pciConfigReadDword, a, o
<1>5. P!Probe(n) = P!Sticks(f.bars[n], P!DWORD - 1)
  <2> DEFINE c == [config EXCEPT ![a][o] = P!Sticks(f.bars[n], P!DWORD - 1)]
  <2>1. a \in DOMAIN c /\ c[a][o] = P!Sticks(f.bars[n], P!DWORD - 1)
    BY <1>1, <1>2
  <2>2. P!pciConfigWriteDword(config, target, n, P!DWORD - 1) = c
    BY <1>3 DEF a
  <2> HIDE DEF c
  <2> QED BY <2>1, <2>2 DEF P!Probe, P!pciConfigReadDword, a, o
<1>6. ASSUME P!Sticks(f.bars[n], f.bars[n].value) = f.bars[n].value
      PROVE  P!Restored(config, n) = config
  <2>1. P!Restored(config, n) = [config EXCEPT ![a][o] = f.bars[n].value]
    BY <1>3, <1>4, <1>6 DEF P!Restored, a
  <2>2. config = [x \in DOMAIN config |-> config[x]]
    BY DEF Wiring
  <2>3. config[a] = [x \in DOMAIN config[a] |-> config[a][x]]
    BY <1>1 DEF Registers
  <2>4. [config EXCEPT ![a][o] = config[a][o]] = config
    BY <1>1, <1>2, <2>2, <2>3
  <2> QED BY <1>2, <2>1, <2>4
<1> QED BY <1>4, <1>5, <1>6

\* What a BAR is, by its kind; the second half of one of 64 bits follows the first.
LEMMA KindIs ==
  ASSUME bios \in Bioses, NEW f \in bios.pci, NEW n \in 0 .. NBARS - 1
  PROVE  /\ \/ IsSingle(f.bars[n]) /\ f.bars[n].kind \in {"none", "io", "mem"}
            \/ n + 1 < NBARS /\ IsDouble(f.bars[n], f.bars[n + 1]) /\ f.bars[n].kind = "low"
            \/ n > 0 /\ IsDouble(f.bars[n - 1], f.bars[n]) /\ f.bars[n].kind = "high"
         /\ f.bars[n].kind = "none" => f.bars[n].value = 0
<1>1. \/ IsSingle(f.bars[n])
      \/ n + 1 < NBARS /\ IsDouble(f.bars[n], f.bars[n + 1])
      \/ n > 0 /\ IsDouble(f.bars[n - 1], f.bars[n])
  BY FunctionIs
<1>2. ASSUME NEW b, IsSingle(b)
      PROVE  b.kind \in {"none", "io", "mem"} /\ (b.kind = "none" => b.value = 0)
  BY <1>2 DEF IsSingle
<1>3. ASSUME NEW l, NEW h, IsDouble(l, h) PROVE l.kind = "low" /\ h.kind = "high"
  BY <1>3 DEF IsDouble
<1> QED BY <1>1, <1>2, <1>3

\* pciProbeBars takes as BARs what was read of them.
LEMMA ProbeBarsStep ==
  ASSUME Wiring, SearchInv, SizingInv, NEW k \in DOMAIN out, P!pciProbeBars(out[k]), bios' = bios
  PROVE  SizingInv'
<1>1. /\ target = -1 /\ i = 0 /\ i' = 0
      /\ target' = P!Address(out[k].dev, out[k].func)
      /\ bar' = [n \in 0 .. NBARS - 1 |-> [P!NoBar EXCEPT !.addr = out[k].addr[n]]]
  BY DEF P!pciProbeBars, SizingInv
<1>2. PICK f \in bios.pci : IsRead(out[k], f)
  BY DEF SearchInv, Reachable
<1>3. target' = Decoded(f) /\ target' \in Nat
  <2>1. P!Address(f.slot, f.func) = Decoded(f) /\ Decoded(f) \in Nat
    BY Decode
  <2> QED BY <1>1, <1>2, <2>1 DEF IsRead
<1>4. \A n \in 0 .. NBARS - 1 : out[k].addr[n] \in Nat /\ (f.bars[n].value = 0 => out[k].addr[n] = 0)
  BY <1>2 DEF IsRead
<1>5. \A n \in 0 .. NBARS - 1 : bar'[n] = [is_io |-> FALSE, size |-> 0, addr |-> out[k].addr[n]]
  BY <1>1 DEF P!NoBar
<1>6. /\ bar' \in [0 .. NBARS - 1 -> Result]
      /\ \A n \in 0 .. NBARS - 1 : f.bars[n].value = 0 => bar'[n].addr = 0
  <2>1. ASSUME NEW n \in 0 .. NBARS - 1
        PROVE  /\ bar'[n] \in Result
               /\ f.bars[n].value = 0 => bar'[n].addr = 0
    <3>1. ASSUME NEW x \in Nat
          PROVE  LET r == [is_io |-> FALSE, size |-> 0, addr |-> x] IN
                 r \in Result /\ r.addr = x
      BY DEF Result
    <3> DEFINE x == out[k].addr[n]
    <3>2. x \in Nat /\ bar'[n] = [is_io |-> FALSE, size |-> 0, addr |-> x]
      BY <1>4, <1>5, Zenon
    <3>3. f.bars[n].value = 0 => x = 0
      BY <1>4, Zenon
    <3> HIDE DEF x
    <3>4. bar'[n] \in Result /\ bar'[n].addr = x
      BY <3>1, <3>2, Zenon
    <3> QED BY <3>3, <3>4, Zenon
  <2>2. bar' = [n \in 0 .. NBARS - 1 |-> bar'[n]]
    BY <1>1, Zenon
  <2> QED BY <2>1, <2>2, Zenon
<1>7. 0 \in 0 .. NBARS - 1 /\ NBARS \in Nat
  BY BusConstants
<1>8. f.bars[0].kind # "high"
  BY <1>7, KindIs DEF Wiring
<1> QED BY <1>1, <1>3, <1>6, <1>7, <1>8 DEF SizingInv

\* The first half of a BAR of 64 bits has an address and says what it is.
LEMMA LowIs ==
  ASSUME Wiring, NEW f \in bios.pci, target = Decoded(f), NEW n \in 0 .. NBARS - 1,
         n + 1 < NBARS, IsDouble(f.bars[n], f.bars[n + 1])
  PROVE  P!Orig(n) # 0 /\ P!Is64Bit(n)
<1> DEFINE l == f.bars[n]  h == f.bars[n + 1]  g == l.flags  v == l.value
           p == P!Sticks(l, P!DWORD - 1)
<1>1. P!Orig(n) = v /\ P!Probe(n) = p
  BY Trying
<1>2. g \in {4, 12}
  BY DEF IsDouble
<1>3. p \in Nat /\ p % 16 = g /\ v \in Nat /\ v >= g
  BY DoubleKeeps
<1> HIDE DEF l, h, g, v, p
<1>4. v # 0 /\ p % 2 = 0 /\ (p \div 2) % 4 = 2
  BY <1>2, <1>3
<1> QED BY <1>1, <1>4 DEF P!Is64Bit

Holds(t, c, z, u) == t \in Result /\ t.is_io = c /\ t.size = z /\ t.addr = u

LEMMA ResultIs ==
  ASSUME NEW z \in Nat, NEW u \in Nat
  PROVE  /\ Holds([is_io |-> TRUE, size |-> z, addr |-> u], TRUE, z, u)
         /\ Holds([is_io |-> FALSE, size |-> z, addr |-> u], FALSE, z, u)
  BY DEF Holds, Result

\* What SizeBar makes of r for a BAR b where p sticks of ones.
Reported(r, b, p, low) ==
  IF b.value = 0 \/ p = 0 THEN [r EXCEPT !.size = 0, !.is_io = FALSE]
  ELSE [is_io |-> p % 2 = 1, size |-> P!SizeOf(p, low, P!DWORD),
        addr |-> b.value - (b.value % low)]

\* The result of sizing a BAR that takes one register.
LEMMA SizedSingle ==
  ASSUME NEW b, IsSingle(b), NEW p, p = P!Sticks(b, P!DWORD - 1),
         NEW low, low = IF p % 2 = 1 THEN 4 ELSE 16,
         NEW r, r \in Result, b.value = 0 => r.addr = 0,
         NEW t, t = Reported(r, b, p, low)
  PROVE  t \in Result /\ Sized(t, b)
<1>1. CASE b.value = 0
  <2>1. t \in Result /\ t.is_io = FALSE /\ t.size = 0 /\ t.addr = 0
    BY <1>1 DEF Reported, Result
  <2>2. /\ b.kind = "none" \/ (b.kind \in {"io", "mem"} /\ b.value >= b.flags)
        /\ b.kind \in {"io", "mem"} => b.flags \in (IF b.kind = "io" THEN {1} ELSE {0, 2, 8, 10})
    BY DEF IsSingle
  <2>3. b.kind # "io" /\ (b.kind = "none" \/ (b.kind = "mem" /\ b.flags = 0))
    BY <1>1, <2>2
  <2> QED BY <1>1, <2>1, <2>3 DEF Sized
<1>2. CASE b.value # 0
  <2>1. b.kind \in {"io", "mem"} /\ b.size \in 1 .. P!DWORD - 1
    BY <1>2 DEF IsSingle
  <2>2. /\ p \in Nat /\ p # 0 /\ (p % 2 = 1 <=> b.kind = "io")
        /\ P!SizeOf(p, low, P!DWORD) = b.size % SIZES
        /\ b.value \in Nat /\ b.flags \in Nat /\ b.value >= b.flags
        /\ b.value - (b.value % low) = b.value - b.flags
    BY <2>1, SingleIs
  <2>3. b.size % SIZES \in Nat /\ b.value - b.flags \in Nat
    <3>1. b.size \in Nat
      BY <2>1, DwordIs
    <3>2. ASSUME NEW x \in Nat PROVE x % SIZES \in Nat
      BY <3>2, BusConstants
    <3>3. ASSUME NEW x \in Nat, NEW y \in Nat, x >= y PROVE x - y \in Nat
      BY <3>3
    <3> QED BY <2>2, <3>1, <3>2, <3>3
  <2> DEFINE z == b.size % SIZES  u == b.value - b.flags
  <2>4. t = [is_io |-> p % 2 = 1, size |-> z, addr |-> u]
    BY <1>2, <2>2 DEF Reported
  <2>5. /\ t \in Result
        /\ (t.is_io <=> b.kind = "io") /\ t.size = z /\ t.addr = u
    <3>1. z \in Nat /\ u \in Nat
      BY <2>3
    <3> HIDE DEF z, u
    <3>2. CASE b.kind = "io"
      <4>1. t = [is_io |-> TRUE, size |-> z, addr |-> u]
        BY <2>2, <2>4, <3>2, Zenon
      <4>2. Holds(t, TRUE, z, u)
        BY <3>1, <4>1, ResultIs, Zenon
      <4> QED BY <3>2, <4>2, Zenon DEF Holds
    <3>3. CASE b.kind # "io"
      <4>1. t = [is_io |-> FALSE, size |-> z, addr |-> u]
        BY <2>2, <2>4, <3>3, Zenon
      <4>2. Holds(t, FALSE, z, u)
        BY <3>1, <4>1, ResultIs, Zenon
      <4> QED BY <3>3, <4>2, Zenon DEF Holds
    <3> QED BY <3>2, <3>3
  <2>6. b.kind # "none" /\ b.kind # "high"
    BY <2>1
  <2> QED BY <1>2, <2>2, <2>5, <2>6 DEF Sized
<1> QED BY <1>1, <1>2

\* A result that is put where i stands.
LEMMA SizeBarStep ==
  ASSUME Wiring, SizingInv, P!SizeBar, bios' = bios
  PROVE  SizingInv' /\ config' = config
<1>1. /\ target # -1 /\ i < NBARS /\ i \in 0 .. NBARS - 1 /\ i \in Nat /\ NBARS \in Nat
      /\ target' = target /\ i' = i + 1
  BY BusConstants DEF P!SizeBar, SizingInv
<1>2. PICK f \in bios.pci :
        /\ target = Decoded(f)
        /\ bar \in [0 .. NBARS - 1 -> Result]
        /\ f.bars[i].kind # "high"
        /\ \A n \in 0 .. NBARS - 1 :
             IF n < i THEN Sized(bar[n], f.bars[n]) ELSE f.bars[n].value = 0 => bar[n].addr = 0
  BY <1>1 DEF SizingInv
<1> DEFINE b == f.bars[i]
           p == P!Sticks(b, P!DWORD - 1)
           low == IF p % 2 = 1 THEN 4 ELSE 16
<1>3. P!Orig(i) = b.value /\ P!Probe(i) = p
  BY <1>1, <1>2, Trying
<1>4. IsSingle(b) /\ b.kind \in {"none", "io", "mem"} /\ (b.kind = "none" => b.value = 0)
  <2>1. ~ (i + 1 < NBARS /\ IsDouble(f.bars[i], f.bars[i + 1]))
    BY <1>1, <1>2, LowIs DEF P!SizeBar
  <2> QED BY <1>1, <1>2, <2>1, KindIs DEF Wiring
<1>5. PICK t : bar' = [bar EXCEPT ![i] = t] /\ t = Reported(bar[i], b, p, low)
  BY <1>3 DEF P!SizeBar, Reported
<1>6. config' = config
  <2>1. config' = IF b.value = 0 THEN config ELSE P!Restored(config, i)
    BY <1>3 DEF P!SizeBar
  <2>2. b.value # 0 => P!Sticks(b, b.value) = b.value
    BY <1>4, SingleIs
  <2> QED BY <1>1, <1>2, <2>1, <2>2, Trying
<1>7. t \in Result /\ Sized(t, b)
  <2>1. bar[i] \in Result /\ (b.value = 0 => bar[i].addr = 0)
    BY <1>1, <1>2
  <2> HIDE DEF b, p, low
  <2> QED BY <1>4, <1>5, <2>1, SizedSingle DEF p, low
<1> HIDE DEF p, low
<1>8. /\ bar' \in [0 .. NBARS - 1 -> Result]
      /\ \A n \in 0 .. NBARS - 1 :
           IF n < i + 1 THEN Sized(bar'[n], f.bars[n]) ELSE f.bars[n].value = 0 => bar'[n].addr = 0
  <2>1. bar' \in [0 .. NBARS - 1 -> Result] /\ bar'[i] = t
    BY <1>1, <1>2, <1>5, <1>7
  <2>2. \A n \in 0 .. NBARS - 1 : n # i => bar'[n] = bar[n]
    BY <1>2, <1>5
  <2> QED BY <1>1, <1>2, <1>7, <2>1, <2>2
<1>9. i + 1 < NBARS => f.bars[i + 1].kind # "high"
  <2> SUFFICES ASSUME i + 1 < NBARS, f.bars[i + 1].kind = "high" PROVE FALSE
    OBVIOUS
  <2>1. i + 1 \in 0 .. NBARS - 1 /\ (i + 1) - 1 = i
    BY <1>1
  <2>2. IsDouble(f.bars[i], f.bars[i + 1])
    BY <2>1, KindIs DEF Wiring
  <2> QED BY <1>4, <2>2 DEF IsDouble
<1>10. i + 1 \in 0 .. NBARS
  BY <1>1
<1>11. SizingInv'
  <2> HIDE DEF b
  <2>1. \E g \in bios'.pci :
          /\ target' = Decoded(g)
          /\ bar' \in [0 .. NBARS - 1 -> Result]
          /\ i' < NBARS => g.bars[i'].kind # "high"
          /\ \A n \in 0 .. NBARS - 1 :
               IF n < i' THEN Sized(bar'[n], g.bars[n])
               ELSE g.bars[n].value = 0 => bar'[n].addr = 0
    BY <1>1, <1>2, <1>8, <1>9
  <2> QED BY <1>1, <1>10, <2>1 DEF SizingInv
<1> QED BY <1>6, <1>11

\* The result of sizing the first half of a BAR of 64 bits.
LEMMA SizedDouble ==
  ASSUME NEW l, NEW h, IsDouble(l, h),
         NEW p, p = P!Sticks(l, P!DWORD - 1), NEW r, r = P!Sticks(h, P!DWORD - 1),
         NEW t, t = [is_io |-> FALSE, size |-> P!SizeOf(r * P!DWORD + p, 16, P!DWORD * P!DWORD),
                     addr |-> l.value - (l.value % 16)]
  PROVE  t \in Result /\ Sized(t, l)
<1> DEFINE w == P!DWORD  s == l.size  g == l.flags  v == l.value
           z == s % SIZES  u == v - g
<1>1. /\ Fits(w * w, 16, s, g, g) /\ r * w + p = w * w - s + g
      /\ v \in Nat /\ v >= g /\ v % 16 = g
  BY DoubleKeeps
<1>2. P!SizeOf(r * w + p, 16, w * w) = z
  BY <1>1, SizeIs
<1>3. g \in {4, 12} /\ l.kind = "low"
  BY DEF IsDouble
<1>4. s \in Nat
  <2>1. w * w \in Nat /\ s \in 1 .. w * w - 1
    BY <1>1 DEF Fits
  <2> QED BY <2>1
<1>5. z \in Nat /\ u \in Nat
  <2>1. SIZES \in Nat \ {0}
    BY BusConstants
  <2> HIDE <1>1
  <2>2. z \in Nat
    BY <1>4, <2>1
  <2>3. u \in Nat
    BY <1>1, <1>3
  <2> QED BY <2>2, <2>3
<1>6. t = [is_io |-> FALSE, size |-> z, addr |-> u]
  BY <1>1, <1>2, Zenon
<1>7. v # 0
  <2>1. v \in Nat /\ v >= g
    BY <1>1, Zenon
  <2>2. ASSUME NEW x \in Nat, NEW y \in {4, 12}, x >= y PROVE x # 0
    BY <2>2
  <2> QED BY <1>3, <2>1, <2>2, Zenon
<1> HIDE DEF z, u
<1>8. Holds(t, FALSE, z, u)
  BY <1>5, <1>6, ResultIs, Zenon
<1> QED BY <1>3, <1>7, <1>8 DEF Holds, Sized, z, u

LEMMA SizeBar64Step ==
  ASSUME Wiring, SizingInv, P!SizeBar64, bios' = bios
  PROVE  SizingInv' /\ config' = config
<1>1. /\ target # -1 /\ i < NBARS /\ i \in 0 .. NBARS - 1 /\ i \in Nat /\ NBARS \in Nat
      /\ target' = target /\ i' = i + 2
  BY BusConstants DEF P!SizeBar64, SizingInv
<1>2. PICK f \in bios.pci :
        /\ target = Decoded(f)
        /\ bar \in [0 .. NBARS - 1 -> Result]
        /\ f.bars[i].kind # "high"
        /\ \A n \in 0 .. NBARS - 1 :
             IF n < i THEN Sized(bar[n], f.bars[n]) ELSE f.bars[n].value = 0 => bar[n].addr = 0
  BY <1>1 DEF SizingInv
<1> DEFINE l == f.bars[i]
           h == f.bars[i + 1]
           p == P!Sticks(l, P!DWORD - 1)
           r == P!Sticks(h, P!DWORD - 1)
<1>3. P!Orig(i) = l.value /\ P!Probe(i) = p
  BY <1>1, <1>2, Trying
<1>4. l.value # 0 /\ p % 2 = 0 /\ (p \div 2) % 4 = 2 /\ i + 1 < NBARS
  BY <1>3 DEF P!SizeBar64, P!Is64Bit
<1>5. IsDouble(l, h)
  <2>1. IsSingle(l) /\ l.kind # "none" => ~ (p % 2 = 0 /\ (p \div 2) % 4 = 2)
    BY SingleIs
  <2> QED BY <1>1, <1>2, <1>4, <2>1, KindIs DEF Wiring
<1>6. i + 1 \in 0 .. NBARS - 1
  BY <1>1, <1>4
<1>7. P!Orig(i + 1) = h.value /\ P!Probe(i + 1) = r
  BY <1>2, <1>6, Trying
<1>8. config' = config
  <2>1. P!Sticks(l, l.value) = l.value /\ P!Sticks(h, h.value) = h.value
    BY <1>5, DoubleKeeps
  <2>2. P!Restored(config, i) = config /\ P!Restored(config, i + 1) = config
    BY <1>1, <1>2, <1>6, <2>1, Trying
  <2> QED BY <2>2 DEF P!SizeBar64
<1>9. PICK t : /\ bar' = [bar EXCEPT ![i] = t, ![i + 1] = P!NoBar]
               /\ t = [is_io |-> FALSE,
                       size |-> P!SizeOf(r * P!DWORD + p, 16, P!DWORD * P!DWORD),
                       addr |-> l.value - (l.value % 16)]
  BY <1>3, <1>7 DEF P!SizeBar64
<1>10. t \in Result /\ Sized(t, l)
  <2> HIDE DEF l, h
  <2> QED BY <1>5, <1>9, SizedDouble
<1>11. P!NoBar \in Result /\ Sized(P!NoBar, h)
  <2>1. h.kind = "high"
    BY <1>5 DEF IsDouble
  <2> QED BY <2>1 DEF P!NoBar, Result, Sized
<1> HIDE DEF p, r
<1>12. /\ bar' \in [0 .. NBARS - 1 -> Result]
       /\ \A n \in 0 .. NBARS - 1 :
            IF n < i + 2 THEN Sized(bar'[n], f.bars[n])
            ELSE f.bars[n].value = 0 => bar'[n].addr = 0
  <2>1. /\ bar' \in [0 .. NBARS - 1 -> Result]
        /\ bar'[i] = t /\ bar'[i + 1] = P!NoBar
    <3> DEFINE c == [bar EXCEPT ![i] = t]
    <3>1. c \in [0 .. NBARS - 1 -> Result] /\ c[i] = t
      BY <1>1, <1>2, <1>10
    <3>2. bar' = [c EXCEPT ![i + 1] = P!NoBar]
      BY <1>9
    <3> HIDE DEF c
    <3>3. i + 1 # i /\ P!NoBar \in Result
      BY <1>1, <1>11
    <3> QED BY <1>1, <1>6, <3>1, <3>2, <3>3
  <2>2. \A n \in 0 .. NBARS - 1 : n # i /\ n # i + 1 => bar'[n] = bar[n]
    BY <1>2, <1>9
  <2>3. ASSUME NEW n \in 0 .. NBARS - 1
        PROVE  IF n < i + 2 THEN Sized(bar'[n], f.bars[n])
               ELSE f.bars[n].value = 0 => bar'[n].addr = 0
    <3>1. CASE n < i
      BY <1>1, <1>2, <2>2, <3>1
    <3>2. CASE n = i
      BY <1>1, <1>10, <2>1, <3>2
    <3>3. CASE n = i + 1
      BY <1>1, <1>11, <2>1, <3>3
    <3>4. CASE n > i + 1
      BY <1>1, <1>2, <2>2, <3>4
    <3> QED BY <1>1, <3>1, <3>2, <3>3, <3>4
  <2> QED BY <2>1, <2>3
<1>13. i + 2 < NBARS => f.bars[i + 2].kind # "high"
  <2> SUFFICES ASSUME i + 2 < NBARS, f.bars[i + 2].kind = "high" PROVE FALSE
    OBVIOUS
  <2>1. i + 2 \in 0 .. NBARS - 1 /\ (i + 2) - 1 = i + 1
    BY <1>1
  <2>2. IsDouble(f.bars[i + 1], f.bars[i + 2])
    BY <2>1, KindIs DEF Wiring
  <2> QED BY <1>5, <2>2 DEF IsDouble
<1>14. i + 2 \in 0 .. NBARS
  BY <1>1, <1>4
<1>15. SizingInv'
  <2> HIDE DEF l, h
  <2>1. \E k \in bios'.pci :
          /\ target' = Decoded(k)
          /\ bar' \in [0 .. NBARS - 1 -> Result]
          /\ i' < NBARS => k.bars[i'].kind # "high"
          /\ \A n \in 0 .. NBARS - 1 :
               IF n < i' THEN Sized(bar'[n], k.bars[n])
               ELSE k.bars[n].value = 0 => bar'[n].addr = 0
    BY <1>1, <1>2, <1>12, <1>13
  <2> QED BY <1>1, <1>14, <2>1 DEF SizingInv
<1> QED BY <1>8, <1>15

\* Search, sizing and what they do not touch.
LEMMA InitPci == StartupInit => PciInv
<1> SUFFICES ASSUME StartupInit PROVE PciInv
  OBVIOUS
<1>1. Wiring
  BY DEF StartupInit, Init, Wiring
<1>2. SizingInv
  BY BusConstants DEF StartupInit, SizingInv
<1>3. /\ dev = 0 /\ fn = 0 /\ out = <<>> /\ stage = "boot"
      /\ SLOTS \in Nat \ {0} /\ FUNCS \in 1 .. 8
  BY BusConstants DEF StartupInit
<1>4. \A f \in Reachable : ~ Before(f, dev, fn)
  <2>1. ASSUME NEW f \in Reachable PROVE f.slot \in Nat /\ f.func \in Nat
    BY <1>1, FunctionIs, BusConstants DEF Wiring, Reachable
  <2> QED BY <1>3, <2>1 DEF Before
<1>5. SearchInv
  BY <1>3, <1>4 DEF SearchInv
<1> QED BY <1>1, <1>2, <1>5 DEF PciInv

LEMMA WiringKept ==
  ASSUME Wiring, bios' = bios, config' = config, wired' = wired
  PROVE  Wiring'
  BY DEF Wiring, Hardware

LEMMA SearchKept ==
  ASSUME SearchInv, bios' = bios, UNCHANGED <<config, dev, fn, out>>,
         stage' \in {"list", "up"} => dev = SLOTS
  PROVE  SearchInv'
<1>1. Results' = Results
  BY DEF Results, P!pciProbeDevice, P!pciConfigReadDword
<1>2. Reachable' = Reachable /\ (Several(dev)' <=> Several(dev))
  BY DEF Reachable, Several
<1> QED BY <1>1, <1>2 DEF SearchInv, Before, IsRead, Precedes

LEMMA SizingKept ==
  ASSUME SizingInv, bios' = bios, UNCHANGED <<target, i, bar>>
  PROVE  SizingInv'
  BY DEF SizingInv, Sized

LEMMA NextPci == PciInv /\ [StartupNext]_startupVars => PciInv'
<1> SUFFICES ASSUME PciInv, [StartupNext]_startupVars PROVE PciInv'
  OBVIOUS
<1> USE DEF PciInv
<1>1. bios' = bios
  <2>1. [Next]_vars
    BY MemStep
  <2> QED BY <2>1 DEF Next, E820, Int12, FindTop, PlaceBitmap, MarkUsable, Reserve, vars
<1>2. CASE Boot \/ mmp \/ pmm_init \/ List \/ ListRest \/ UNCHANGED startupVars
  <2>1. UNCHANGED pci
    BY <1>2 DEF Boot, mmp, pmm_init, List, ListRest, startupVars
  <2>2. UNCHANGED <<config, wired, dev, fn, out, target, i, bar>>
    BY <2>1 DEF pci
  <2>3. stage' \in {"list", "up"} => stage \in {"list", "up"}
    BY <1>2 DEF Boot, mmp, pmm_init, List, ListRest, startupVars
  <2>4. stage' \in {"list", "up"} => dev = SLOTS
    BY <2>3 DEF SearchInv
  <2> QED BY <1>1, <2>2, <2>4, WiringKept, SearchKept, SizingKept
<1>3. CASE Enumerate
  <2>1. P!pciEnumerate /\ stage' = IF dev' = SLOTS THEN "list" ELSE "pci"
    BY <1>3 DEF Enumerate
  <2>2. UNCHANGED <<config, wired, target, i, bar>>
    BY <2>1 DEF P!pciEnumerate
  <2> QED BY <1>1, <2>1, <2>2, WiringKept, SearchStep, SizingKept
<1>4. CASE Driver
  <2>1. stage' = stage /\ ((\E k \in DOMAIN out : P!pciProbeBars(out[k])) \/ P!SizeBar \/ P!SizeBar64)
    BY <1>4 DEF Driver
  <2>2. UNCHANGED <<wired, dev, fn, out>>
    BY <2>1 DEF P!pciProbeBars, P!SizeBar, P!SizeBar64
  <2>3. SizingInv' /\ config' = config
    <3>1. CASE \E k \in DOMAIN out : P!pciProbeBars(out[k])
      BY <1>1, <3>1, ProbeBarsStep DEF P!pciProbeBars
    <3>2. CASE P!SizeBar
      BY <1>1, <3>2, SizeBarStep
    <3>3. CASE P!SizeBar64
      BY <1>1, <3>3, SizeBar64Step
    <3> QED BY <2>1, <3>1, <3>2, <3>3
  <2>4. stage' \in {"list", "up"} => dev = SLOTS
    BY <2>1 DEF SearchInv
  <2> QED BY <1>1, <2>2, <2>3, <2>4, WiringKept, SearchKept
<1> QED BY <1>2, <1>3, <1>4 DEF StartupNext

\* What is known of the bus holds all through start-up.
THEOREM PciInductive == StartupSpec => []PciInv
<1> QED BY InitPci, NextPci, PTL DEF StartupSpec

\* On every machine, whatever its bus, pciEnumerate finds exactly the functions
\* that there are to find, each once and in their order, and never has more of
\* them than the caller's array holds.
THEOREM AllFound == StartupSpec => []EveryFunctionFound
<1>1. PciInv => EveryFunctionFound
  BY SearchEnd DEF PciInv
<1> QED BY <1>1, PciInductive, PTL

LEMMA SizingEnd ==
  ASSUME Wiring, SizingInv
  PROVE  BarsExact
<1>1. \A a \in DOMAIN config : config[a] = Registers(Hardware(bios)[a])
  BY DEF Wiring
<1>2. ASSUME target # -1, i >= NBARS, NEW n \in 0 .. NBARS - 1
      PROVE  Sized(bar[n], wired[target][n])
  <2>1. PICK f \in bios.pci :
          /\ target = Decoded(f)
          /\ n < i => Sized(bar[n], f.bars[n])
    BY <1>2 DEF SizingInv
  <2>2. n < i
    BY <1>2, BusConstants DEF SizingInv
  <2>3. wired[target] = f.bars
    BY <2>1, Decode
  <2> QED BY <2>1, <2>2, <2>3
<1> QED BY <1>1, <1>2 DEF BarsExact, Sized

\* On every machine, whatever the BARs of its functions, sizing them leaves every
\* register as it was, and reports each one's kind, address and size.
THEOREM BarsAreExact == StartupSpec => []BarsExact
<1>1. PciInv => BarsExact
  BY SizingEnd DEF PciInv
<1> QED BY <1>1, PciInductive, PTL
=============================================================================
