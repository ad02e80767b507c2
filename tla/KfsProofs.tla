----------------------------- MODULE KfsProofs -----------------------------
(***************************************************************************)
(* The file system for volumes of any size, any image, any number of files *)
(* and every sequence of writes, failures and crashes.                     *)
(***************************************************************************)
EXTENDS Kfs, SequenceTheorems, WellFoundedInduction, TLAPS

-----------------------------------------------------------------------------
(* The loop over the entries *)

\* Every set of numbers has a least one: induction, for sets.
LEMMA Least ==
  ASSUME NEW T \in SUBSET Nat, T # {}
  PROVE  \E m \in T : \A k \in T : m <= k
<1>1. PICK m \in T : \A k \in T : ~ (<<k, m>> \in OpToRel(<, Nat))
  BY NatLessThanWellFounded, WFMin
<1>2. ASSUME NEW k \in T PROVE m <= k
  <2>1. k < m => <<k, m>> \in OpToRel(<, Nat)
    BY DEF OpToRel
  <2>2. ~ (k < m)
    BY <1>1, <2>1
  <2> QED BY <2>2
<1> QED BY <1>2

\* What the loop over files of known sizes computes, turn by turn.
IsLba(f, s) ==
  /\ f \in [0 .. Len(s) -> Nat]
  /\ f[0] = 1
  /\ \A k \in 1 .. Len(s) : f[k] = f[k - 1] + s[k].size

LEMMA LbaExists ==
  ASSUME NEW R, \A r \in R : r.size \in Nat, NEW s \in Seq(R)
  PROVE  \E f : IsLba(f, s)
<1> DEFINE Upto(n) == \E f \in [0 .. n -> Nat] :
                        f[0] = 1 /\ \A k \in 1 .. n : f[k] = f[k - 1] + s[k].size
<1> DEFINE T == {n \in 0 .. Len(s) : ~ Upto(n)}
<1>1. CASE T = {}
  <2>1. Len(s) \in 0 .. Len(s) /\ Len(s) \notin T
    <3>1. Len(s) \in 0 .. Len(s)
      OBVIOUS
    <3> HIDE DEF T
    <3> QED BY <1>1, <3>1
  <2>2. Upto(Len(s))
    BY <2>1
  <2> QED BY <2>2 DEF IsLba
<1>2. CASE T # {}
  <2>1. T \in SUBSET Nat
    OBVIOUS
  <2> HIDE DEF T
  <2>2. PICK n \in T : \A k \in T : n <= k
    BY <1>2, <2>1, Least
  <2>3. n \in 0 .. Len(s) /\ ~ Upto(n)
    BY DEF T
  <2>4. n # 0
    <3> DEFINE h == [k \in 0 .. 0 |-> 1]
    <3>1. h \in [0 .. 0 -> Nat] /\ h[0] = 1 /\ \A k \in 1 .. 0 : h[k] = h[k - 1] + s[k].size
      OBVIOUS
    <3>2. Upto(0)
      BY <3>1
    <3> QED BY <2>3, <3>2
  <2>5. n - 1 \in 0 .. Len(s) /\ n \in 1 .. Len(s) /\ ~ (n <= n - 1)
    BY <2>4, <2>3
  <2>6. Upto(n - 1)
    <3>1. n - 1 \notin T
      BY <2>2, <2>5
    <3> QED BY <2>5, <3>1 DEF T
  <2>7. PICK f \in [0 .. n - 1 -> Nat] :
               f[0] = 1 /\ \A k \in 1 .. n - 1 : f[k] = f[k - 1] + s[k].size
    BY <2>6
  <2> DEFINE g == [k \in 0 .. n |-> IF k = n THEN f[n - 1] + s[n].size ELSE f[k]]
  <2>8. s[n].size \in Nat
    BY <2>5
  <2>9. g \in [0 .. n -> Nat]
    BY <2>5, <2>8
  <2>10. g[0] = 1 /\ \A k \in 1 .. n : g[k] = g[k - 1] + s[k].size
    BY <2>5, <2>7
  <2>11. Upto(n)
    BY <2>9, <2>10
  <2> QED BY <2>11, <2>3
<1> QED BY <1>1, <1>2

LEMMA LbaIs ==
  ASSUME NEW R, \A r \in R : r.size \in Nat, NEW s \in Seq(R)
  PROVE  IsLba(Lba(s), s)
<1> DEFINE Rec(f) == f = [k \in 0 .. Len(s) |-> IF k = 0 THEN 1 ELSE f[k - 1] + s[k].size]
<1>1. PICK f : IsLba(f, s)
  BY LbaExists
<1>2. Rec(f)
  BY <1>1 DEF IsLba
<1>3. Lba(s) = CHOOSE g : Rec(g)
  BY DEF Lba
<1>4. Rec(Lba(s))
  BY <1>2, <1>3
<1> DEFINE g == Lba(s)
           T == {k \in 0 .. Len(s) : g[k] # f[k]}
<1>5. g[0] = 1 /\ \A k \in 1 .. Len(s) : g[k] = g[k - 1] + s[k].size
  BY <1>4
<1> HIDE DEF g
<1>6. T = {}
  <2> SUFFICES ASSUME T # {} PROVE FALSE
    OBVIOUS
  <2>1. T \in SUBSET Nat
    OBVIOUS
  <2> HIDE DEF T
  <2>2. PICK n \in T : \A k \in T : n <= k
    BY <2>1, Least
  <2> USE DEF T
  <2>3. n # 0
    BY <1>1, <1>5 DEF IsLba
  <2>4. n \in 1 .. Len(s) /\ n - 1 \in 0 .. Len(s) /\ ~ (n <= n - 1)
    BY <2>3
  <2>5. n - 1 \notin T
    BY <2>2, <2>4
  <2>6. g[n - 1] = f[n - 1]
    BY <2>4, <2>5
  <2> QED BY <1>1, <1>5, <2>4, <2>6 DEF IsLba
<1>7. g = f
  <2>1. g = [k \in 0 .. Len(s) |-> g[k]] /\ f = [k \in 0 .. Len(s) |-> f[k]]
    BY <1>1, <1>4 DEF IsLba, g
  <2>2. \A k \in 0 .. Len(s) : g[k] = f[k]
    BY <1>6
  <2> QED BY <2>1, <2>2
<1> QED BY <1>1, <1>7 DEF g

\* Two tables of files with the same sizes up to the n-th agree up to there.
LEMMA LbaAgree ==
  ASSUME NEW R, \A r \in R : r.size \in Nat, NEW s \in Seq(R),
         NEW Q, \A q \in Q : q.size \in Nat, NEW t \in Seq(Q),
         NEW n \in Nat, n <= Len(s), n <= Len(t),
         \A k \in 1 .. n : s[k].size = t[k].size
  PROVE  \A k \in 0 .. n : Lba(s)[k] = Lba(t)[k]
<1>1. IsLba(Lba(s), s) /\ IsLba(Lba(t), t)
  BY LbaIs
<1> DEFINE T == {k \in 0 .. n : Lba(s)[k] # Lba(t)[k]}
<1> SUFFICES ASSUME T # {} PROVE FALSE
  OBVIOUS
<1>2. T \in SUBSET Nat
  OBVIOUS
<1> HIDE DEF T
<1>3. PICK m \in T : \A k \in T : m <= k
  BY <1>2, Least
<1> USE DEF T
<1>4. m # 0
  BY <1>1 DEF IsLba
<1>5. m \in 1 .. n /\ m - 1 \in 0 .. n /\ ~ (m <= m - 1)
  BY <1>4
<1>6. Lba(s)[m - 1] = Lba(t)[m - 1]
  BY <1>3, <1>5
<1>7. m \in 1 .. Len(s) /\ m \in 1 .. Len(t)
  BY <1>5
<1> QED BY <1>1, <1>5, <1>6, <1>7 DEF IsLba

\* lba never decreases.
LEMMA LbaMonotone ==
  ASSUME NEW R, \A r \in R : r.size \in Nat, NEW s \in Seq(R),
         NEW j \in 0 .. Len(s), NEW k \in j .. Len(s)
  PROVE  Lba(s)[j] <= Lba(s)[k] /\ Lba(s)[j] \in Nat \ {0} /\ Lba(s)[k] \in Nat
<1>1. IsLba(Lba(s), s)
  BY LbaIs
<1> DEFINE f == Lba(s)
<1> HIDE DEF f
<1> DEFINE T(a) == {b \in a .. Len(s) : ~ (f[a] <= f[b])}
<1>2. ASSUME NEW a \in 0 .. Len(s), T(a) # {} PROVE FALSE
  <2>1. T(a) \in SUBSET Nat
    OBVIOUS
  <2> HIDE DEF T
  <2>2. PICK m \in T(a) : \A b \in T(a) : m <= b
    BY <1>2, <2>1, Least
  <2> USE DEF T
  <2>3. f[a] \in Nat
    BY <1>1 DEF IsLba, f
  <2>4. m # a
    BY <2>3
  <2>5. m \in 1 .. Len(s) /\ m - 1 \in a .. Len(s) /\ ~ (m <= m - 1)
    BY <2>4
  <2>6. m - 1 \notin T(a)
    BY <2>2, <2>5
  <2>7. f[a] <= f[m - 1]
    BY <2>5, <2>6
  <2>8. f[m] = f[m - 1] + s[m].size /\ s[m].size \in Nat /\ f[m - 1] \in Nat
    BY <1>1, <2>5 DEF IsLba, f
  <2> QED BY <2>3, <2>7, <2>8
<1>3. f[j] <= f[k]
  BY <1>2
<1>4. f[0] <= f[j]
  BY <1>2
<1> QED BY <1>1, <1>3, <1>4 DEF IsLba, f

-----------------------------------------------------------------------------
(* The search for a name *)

Find(sb, n) == SelectInSeq(sb, LAMBDA f : f.name = n)

\* The result is the first entry with the name, or 0 if there is none.
LEMMA FindIs ==
  ASSUME NEW sb \in Seq(Entries), NEW n
  PROVE  /\ Find(sb, n) \in 0 .. Len(sb)
         /\ Find(sb, n) # 0 => sb[Find(sb, n)].name = n
         /\ \A k \in 1 .. Len(sb) :
              k < Find(sb, n) \/ Find(sb, n) = 0 => sb[k].name # n
<1> DEFINE I == {k \in 1 .. Len(sb) : sb[k].name = n}
<1>1. Find(sb, n) = IF I # {} THEN Min(I) ELSE 0
  BY DEF Find, SelectInSeq
<1>2. CASE I = {}
  BY <1>1, <1>2
<1>3. CASE I # {}
  <2>1. I \in SUBSET Nat
    OBVIOUS
  <2> HIDE DEF I
  <2>2. Min(I) \in I /\ \A k \in I : Min(I) <= k
    BY <1>3, <2>1, Least DEF Min
  <2>3. Find(sb, n) \in I /\ \A k \in I : Find(sb, n) <= k
    BY <1>1, <1>3, <2>2
  <2> QED BY <2>3 DEF I
<1> QED BY <1>2, <1>3

\* Entries that are appended, and changes behind the entry found, do not change
\* the result.
LEMMA FindStable ==
  ASSUME NEW sb \in Seq(Entries), NEW tb \in Seq(Entries), NEW n,
         NEW m \in 0 .. Len(sb), m <= Len(tb),
         \A k \in 1 .. m : tb[k].name = sb[k].name,
         Find(sb, n) # 0, Find(sb, n) <= m
  PROVE  Find(tb, n) = Find(sb, n)
<1> DEFINE a == Find(sb, n)
           b == Find(tb, n)
<1>1. a \in 1 .. m /\ sb[a].name = n /\ \A k \in 1 .. Len(sb) : k < a => sb[k].name # n
  BY FindIs
<1>2. /\ b \in 0 .. Len(tb)
      /\ b # 0 => tb[b].name = n
      /\ \A k \in 1 .. Len(tb) : k < b \/ b = 0 => tb[k].name # n
  BY FindIs
<1> HIDE DEF a, b
<1>3. tb[a].name = n /\ a \in 1 .. Len(tb)
  BY <1>1
<1>4. b # 0 /\ b <= a
  BY <1>2, <1>3
<1>5. ~ (b < a)
  <2> SUFFICES ASSUME b < a PROVE FALSE
    OBVIOUS
  <2>1. b \in 1 .. m /\ b \in 1 .. Len(sb)
    BY <1>1, <1>2, <1>4
  <2> QED BY <1>1, <1>2, <2>1
<1> QED BY <1>1, <1>2, <1>4, <1>5 DEF a, b

-----------------------------------------------------------------------------
(* The invariant *)

\* Every file starts where kfs_write puts it: behind those listed before it.
Layout(sb) == \A k \in 1 .. Len(sb) : sb[k].start_lba = Lba(sb)[k - 1]

Mounted == pc \in {"idle", "data", "super"}

\* The entries that no step changes any more: all but the one being written.
Settled == IF pc \in {"data", "super"} THEN Len(superblock) - 1 ELSE Len(superblock)

\* The disk lists settled entries only.
Prefix ==
  Mounted => /\ Len(disk_super) <= Settled
             /\ \A k \in 1 .. Len(disk_super) : superblock[k] = disk_super[k]

\* The first n sectors of a file are on the disk.
OnDisk(dk, f, n) ==
  \A j \in 0 .. n - 1 : f.start_lba + j \in DataSectors
                        /\ dk[f.start_lba + j] = Piece(f.data, j)

AllOnDisk(dk, sb) == \A k \in 1 .. Len(sb) : sb[k].whole => OnDisk(dk, sb[k], sb[k].size)

\* While a file is written its sectors are there up to the loop variable.
Writing ==
  pc = "data" => ~ NewFile.whole /\ sector < NewFile.size % COUNT /\ OnDisk(disk, NewFile, sector)

\* What the screen says of the file f that it is about.
About(sh, f) ==
  /\ sh.kind = "contents" =>
       /\ Len(sh.pieces) <= MAX_CAT
       /\ f.whole => sh.pieces = [k \in 1 .. f.size |-> Piece(f.data, k - 1)]
  /\ sh.kind = "ioerr" /\ ~ sh.fault => f.size = 0 \/ f.start_lba + f.size > DiskSectors
  /\ sh.kind = "too large" => f.size > MAX_CAT

\* That file is a settled entry, the first with its name.
ScreenIsTrue ==
  shown.kind \in {"contents", "ioerr", "too large"} =>
    LET i == Find(superblock, shown.name) IN
    Mounted /\ i # 0 /\ i <= Settled /\ About(shown, superblock[i])

IInv ==
  /\ TypeOK /\ Len(disk_super) <= KFS_MAX_FILES
  /\ Layout(superblock) /\ Layout(disk_super)
  /\ Prefix
  /\ AllOnDisk(disk, superblock) /\ AllOnDisk(disk, disk_super)
  /\ Writing
  /\ ScreenIsTrue

LEMMA EntrySizes == \A e \in Entries : e.size \in Nat
  BY DEF Entries

\* In a table that is laid out like this no file reaches into a later one.
LEMMA LayoutOrder ==
  ASSUME NEW sb \in Seq(Entries), Layout(sb), NEW k \in 1 .. Len(sb)
  PROVE  /\ sb[k].start_lba \in Nat \ {0}
         /\ sb[k].size \in Nat
         /\ \A j \in 1 .. k - 1 : sb[j].start_lba + sb[j].size <= sb[k].start_lba
<1>1. IsLba(Lba(sb), sb)
  BY LbaIs, EntrySizes
<1>2. Lba(sb)[k - 1] \in Nat \ {0}
  BY LbaMonotone, EntrySizes
<1>3. ASSUME NEW j \in 1 .. k - 1 PROVE sb[j].start_lba + sb[j].size <= sb[k].start_lba
  <2>1. j \in 1 .. Len(sb) /\ j \in 0 .. Len(sb) /\ k - 1 \in j .. Len(sb)
    OBVIOUS
  <2>2. sb[j].start_lba + sb[j].size = Lba(sb)[j]
    BY <1>1, <2>1 DEF IsLba, Layout
  <2>3. Lba(sb)[j] <= Lba(sb)[k - 1]
    BY <2>1, LbaMonotone, EntrySizes
  <2> QED BY <2>2, <2>3 DEF Layout
<1>4. sb[k] \in Entries
  OBVIOUS
<1> QED BY <1>2, <1>3, <1>4 DEF Layout, Entries

\* The layout depends on sizes and starts only.
LEMMA LayoutAgree ==
  ASSUME NEW sb \in Seq(Entries), NEW tb \in Seq(Entries), Layout(sb), Len(tb) = Len(sb),
         \A k \in 1 .. Len(sb) : tb[k].size = sb[k].size /\ tb[k].start_lba = sb[k].start_lba
  PROVE  Layout(tb)
<1>1. Len(sb) \in Nat /\ Len(sb) <= Len(sb) /\ Len(sb) <= Len(tb)
  OBVIOUS
<1>2. \A k \in 0 .. Len(sb) : Lba(sb)[k] = Lba(tb)[k]
  BY <1>1, LbaAgree, EntrySizes
<1> QED BY <1>2 DEF Layout

\* kfs_write's new entry continues it.
LEMMA LayoutAppend ==
  ASSUME NEW sb \in Seq(Entries), Layout(sb),
         NEW e \in Entries, e.start_lba = NextLba(sb)
  PROVE  Layout(Append(sb, e))
<1> DEFINE tb == Append(sb, e)
<1>1. /\ tb \in Seq(Entries) /\ Len(tb) = Len(sb) + 1 /\ Len(sb) \in Nat
      /\ \A k \in 1 .. Len(sb) : tb[k] = sb[k]
      /\ tb[Len(sb) + 1] = e
  OBVIOUS
<1> HIDE DEF tb
<1>2. \A k \in 0 .. Len(sb) : Lba(sb)[k] = Lba(tb)[k]
  BY <1>1, LbaAgree, EntrySizes
<1>3. Layout(tb)
  <2> SUFFICES ASSUME NEW k \in 1 .. Len(tb) PROVE tb[k].start_lba = Lba(tb)[k - 1]
    BY DEF Layout
  <2>1. CASE k \in 1 .. Len(sb)
    BY <1>1, <1>2, <2>1 DEF Layout
  <2>2. CASE k = Len(sb) + 1
    BY <1>1, <1>2, <2>2 DEF NextLba
  <2> QED BY <1>1, <2>1, <2>2
<1> QED BY <1>3 DEF tb
-----------------------------------------------------------------------------
(* The image *)

\* genkfs.py lays the files out as kfs_write would.
LEMMA ImageTable ==
  /\ ImageSuper \in Seq(Entries) /\ Len(ImageSuper) = Len(InitialFiles)
  /\ Layout(ImageSuper)
  /\ \A k \in 0 .. Len(InitialFiles) : Lba(ImageSuper)[k] = Lba(InitialFiles)[k]
<1> DEFINE R == [name : Names, size : Nat, data : Data]
           F == InitialFiles
<1>1. F \in Seq(R) /\ (\A r \in R : r.size \in Nat) /\ Len(F) \in Nat
  BY KfsAssumption
<1>2. IsLba(Lba(F), F)
  BY <1>1, LbaIs
<1>3. ASSUME NEW k \in 1 .. Len(F) PROVE NextLba(SubSeq(F, 1, k - 1)) = Lba(F)[k - 1]
  <2> DEFINE s == SubSeq(F, 1, k - 1)
  <2>1. s \in Seq(R) /\ Len(s) = k - 1 /\ \A j \in 1 .. k - 1 : s[j] = F[j]
    <3> HIDE DEF R, F
    <3>1. \A j \in 1 .. k - 1 : F[j] \in R
      BY <1>1
    <3> QED BY <1>1, <3>1, SubSeqProperties
  <2> HIDE DEF s, F, R
  <2>2. k - 1 \in Nat /\ k - 1 <= Len(s) /\ k - 1 <= Len(F) /\ k - 1 \in 0 .. k - 1
    BY <1>1, <2>1
  <2>3. \A j \in 0 .. k - 1 : Lba(s)[j] = Lba(F)[j]
    BY <1>1, <2>1, <2>2, LbaAgree
  <2>4. NextLba(s) = Lba(F)[k - 1]
    BY <2>1, <2>2, <2>3 DEF NextLba
  <2> QED BY <2>4 DEF s, F
<1>4. ASSUME NEW k \in 1 .. Len(F)
      PROVE  /\ ImageSuper[k].size = F[k].size
             /\ ImageSuper[k].start_lba = Lba(F)[k - 1]
             /\ ImageSuper[k] \in Entries
  <2>1. ImageSuper[k] = [NewEntry(SubSeq(F, 1, k - 1), F[k].name, F[k].size, F[k].data)
                           EXCEPT !.whole = TRUE]
    <3>1. k \in DOMAIN InitialFiles
      BY <1>1
    <3> QED BY <3>1 DEF ImageSuper
  <2> HIDE DEF F, R
  <2>2. ImageSuper[k] = [name |-> F[k].name, start_lba |-> Lba(F)[k - 1],
                         size |-> F[k].size, data |-> F[k].data, whole |-> TRUE]
    BY <1>3, <2>1 DEF NewEntry
  <2>3. k - 1 \in 0 .. Len(F) /\ F[k] \in R
    BY <1>1
  <2>4. Lba(F)[k - 1] \in Nat
    BY <1>2, <2>3 DEF IsLba
  <2>5. F[k].name \in Names /\ F[k].size \in Nat /\ F[k].data \in Data
    BY <2>3 DEF R
  <2> QED BY <2>2, <2>4, <2>5 DEF Entries
<1>5. ImageSuper \in Seq(Entries) /\ Len(ImageSuper) = Len(F)
  <2>1. ImageSuper = [k \in 1 .. Len(F) |-> ImageSuper[k]]
    BY <1>1 DEF ImageSuper
  <2> HIDE DEF F
  <2> QED BY <1>1, <1>4, <2>1
<1>6. \A k \in 0 .. Len(F) : Lba(ImageSuper)[k] = Lba(F)[k]
  <2>1. \A k \in 1 .. Len(F) : ImageSuper[k].size = F[k].size
    BY <1>4
  <2> HIDE DEF F, R
  <2>2. Len(F) <= Len(ImageSuper) /\ Len(F) <= Len(F)
    BY <1>1, <1>5
  <2> QED BY <1>1, <1>5, <2>1, <2>2, LbaAgree, EntrySizes
<1>7. Layout(ImageSuper)
  <2> SUFFICES ASSUME NEW k \in 1 .. Len(F)
               PROVE  ImageSuper[k].start_lba = Lba(ImageSuper)[k - 1]
    BY <1>5 DEF Layout
  <2> HIDE DEF F
  <2>1. k - 1 \in 0 .. Len(F)
    BY <1>1
  <2> QED BY <1>4, <1>6, <2>1
<1> QED BY <1>5, <1>6, <1>7

\* ... and writes their sectors there.
\* A sector of two files: neither ends before the other begins.
LEMMA Overlap ==
  ASSUME NEW a \in Nat, NEW n \in Nat, NEW b \in Nat, NEW m \in Nat, NEW x \in Int,
         a <= x, x < a + n, b <= x, x < b + m
  PROVE  ~ (a + n <= b) /\ ~ (b + m <= a)
  OBVIOUS

LEMMA InSectors ==
  ASSUME NEW f, f.start_lba \in Nat, f.size \in Nat, NEW x \in Sectors(f)
  PROVE  x \in Int /\ f.start_lba <= x /\ x < f.start_lba + f.size
  BY DEF Sectors

\* A sector of a file that ends on the disk.
LEMMA Inside ==
  ASSUME NEW a \in Nat \ {0}, NEW n \in Nat, NEW j \in 0 .. n - 1, NEW d \in Nat, a + n <= d
  PROVE  a + j \in 1 .. d - 1 /\ a + j \in a .. a + n - 1 /\ a + j \in Nat /\ j \in Nat
  OBVIOUS

LEMMA ImageOnDisk == AllOnDisk(Image, ImageSuper)
<1> DEFINE sb == ImageSuper
<1>1. sb \in Seq(Entries) /\ Layout(sb) /\ Len(sb) \in Nat
  BY ImageTable
<1>2. Lba(sb)[Len(sb)] <= DiskSectors
  <2>1. Len(InitialFiles) \in Nat
    BY KfsAssumption
  <2> QED BY <2>1, ImageTable, ImageAssumption DEF NextLba
<1> SUFFICES ASSUME NEW k \in 1 .. Len(sb), NEW j \in 0 .. sb[k].size - 1
             PROVE  /\ sb[k].start_lba + j \in DataSectors
                    /\ Image[sb[k].start_lba + j] = Piece(sb[k].data, j)
  BY DEF AllOnDisk, OnDisk
<1> DEFINE s == sb[k].start_lba + j
<1>3. sb[k].start_lba \in Nat \ {0} /\ sb[k].size \in Nat
  BY <1>1, LayoutOrder
<1>4. s \in DataSectors /\ s \in Sectors(sb[k])
  <2>1. sb[k].start_lba + sb[k].size = Lba(sb)[k]
    BY <1>1, LbaIs, EntrySizes DEF IsLba, Layout
  <2>2. k \in 0 .. Len(sb) /\ Len(sb) \in k .. Len(sb)
    BY <1>1
  <2>3. Lba(sb)[k] <= Lba(sb)[Len(sb)] /\ Lba(sb)[k] \in Nat /\ Lba(sb)[Len(sb)] \in Nat
    BY <1>1, <2>2, LbaMonotone, EntrySizes
  <2> HIDE DEF sb
  <2>4. DiskSectors \in Nat
    BY KfsAssumption
  <2>5. sb[k].start_lba + sb[k].size <= DiskSectors
    BY <1>2, <2>1, <2>3, <2>4
  <2> QED BY <1>3, <2>4, <2>5, Inside DEF DataSectors, Sectors
<1> HIDE DEF sb
<1>5. ASSUME NEW i \in 1 .. Len(sb), s \in Sectors(sb[i]) PROVE i = k
  <2>1. sb[i].start_lba \in Nat /\ sb[i].size \in Nat
    BY <1>1, LayoutOrder
  <2>2. i < k => sb[i].start_lba + sb[i].size <= sb[k].start_lba
    BY <1>1, LayoutOrder
  <2>3. k < i => sb[k].start_lba + sb[k].size <= sb[i].start_lba
    BY <1>1, LayoutOrder
  <2>4. /\ sb[i].start_lba <= s /\ s < sb[i].start_lba + sb[i].size
        /\ sb[k].start_lba <= s /\ s < sb[k].start_lba + sb[k].size /\ s \in Int
    BY <1>3, <1>4, <1>5, <2>1, InSectors
  <2> HIDE DEF s
  <2>5. /\ ~ (sb[i].start_lba + sb[i].size <= sb[k].start_lba)
        /\ ~ (sb[k].start_lba + sb[k].size <= sb[i].start_lba)
    BY <1>3, <2>1, <2>4, Overlap
  <2>6. i \in Nat /\ k \in Nat
    BY <1>1
  <2> QED BY <2>2, <2>3, <2>5, <2>6
<1>6. sb[k] \in Range(sb) /\ \A f \in Range(sb) : s \in Sectors(f) => f = sb[k]
  BY <1>1, <1>5 DEF Range
<1> USE DEF sb
<1>7. Image[s] = Piece(sb[k].data, s - sb[k].start_lba)
  <2>1. (CHOOSE f \in Range(sb) : s \in Sectors(f)) = sb[k]
    BY <1>4, <1>6
  <2> QED BY <1>4, <1>6, <2>1 DEF Image
<1>8. s - sb[k].start_lba = j
  BY <1>3
<1> QED BY <1>4, <1>7, <1>8

LEMMA NothingShown == Nothing \in Shown
  BY KfsAssumption DEF Nothing, Shown

LEMMA InitIInv == Init => IInv
<1> SUFFICES ASSUME Init PROVE IInv
  OBVIOUS
<1>1. superblock = <<>> /\ disk_super = ImageSuper /\ disk = Image /\ pc = "off"
      /\ sector = 0 /\ shown = Nothing
  BY DEF Init
<1>2. TypeOK
  <2>1. superblock \in Seq(Entries) /\ Len(superblock) <= KFS_MAX_FILES
    BY <1>1, KfsAssumption
  <2>2. disk \in [DataSectors -> [data : Data, index : Nat] \cup {Blank}]
    <3> SUFFICES ASSUME NEW s \in DataSectors, \E f \in Range(ImageSuper) : s \in Sectors(f)
                 PROVE  LET f == CHOOSE f \in Range(ImageSuper) : s \in Sectors(f)
                        IN Piece(f.data, s - f.start_lba) \in [data : Data, index : Nat]
      BY <1>1 DEF Image
    <3>1. PICK f \in Range(ImageSuper) :
                 s \in Sectors(f) /\ f = CHOOSE g \in Range(ImageSuper) : s \in Sectors(g)
      OBVIOUS
    <3>2. f \in Entries
      BY ImageTable DEF Range
    <3> QED BY <3>1, <3>2, KfsAssumption DEF Sectors, Entries, Piece, DataSectors
  <2>3. sector \in 0 .. COUNT /\ shown \in Shown
    BY <1>1, NothingShown, KfsAssumption
  <2> QED BY <1>1, <2>1, <2>2, <2>3, ImageTable DEF TypeOK
<1>3. Len(disk_super) <= KFS_MAX_FILES
  BY <1>1, ImageTable, KfsAssumption
<1>4. Layout(superblock) /\ Layout(disk_super)
  BY <1>1, ImageTable DEF Layout
<1>5. AllOnDisk(disk, superblock) /\ AllOnDisk(disk, disk_super)
  <2>1. AllOnDisk(disk, superblock)
    BY <1>1 DEF AllOnDisk
  <2> QED BY <1>1, <2>1, ImageOnDisk
<1>6. Prefix /\ Writing
  BY <1>1 DEF Prefix, Mounted, Writing
<1>7. ScreenIsTrue
  BY <1>1 DEF ScreenIsTrue, Nothing
<1> QED BY <1>2, <1>3, <1>4, <1>5, <1>6, <1>7 DEF IInv
-----------------------------------------------------------------------------
(* The actions *)

LEMMA TypeFacts ==
  ASSUME IInv
  PROVE  /\ superblock \in Seq(Entries) /\ disk_super \in Seq(Entries)
         /\ Len(superblock) \in Nat /\ Len(disk_super) \in Nat
         /\ Settled \in Int /\ Settled <= Len(superblock)
         /\ Mounted => Settled \in 0 .. Len(superblock)
         /\ sector \in Nat /\ COUNT \in Nat \ {0}
<1>1. superblock \in Seq(Entries) /\ disk_super \in Seq(Entries) /\ sector \in 0 .. COUNT
  BY DEF IInv, TypeOK
<1>2. Len(superblock) \in Nat /\ Len(disk_super) \in Nat
  BY <1>1
<1>3. Settled \in Int /\ Settled <= Len(superblock)
  BY <1>2 DEF Settled
<1>4. Mounted => Len(disk_super) <= Settled
  BY DEF IInv, Prefix
<1> QED BY <1>1, <1>2, <1>3, <1>4, KfsAssumption

\* A step that keeps the settled entries keeps what the screen says true.
LEMMA AboutStable ==
  ASSUME NEW sb \in Seq(Entries), NEW tb \in Seq(Entries),
         NEW m \in 0 .. Len(sb), m <= Len(tb), NEW m2 \in Int, m <= m2,
         \A k \in 1 .. m : tb[k] = sb[k],
         NEW sh, Find(sb, sh.name) # 0, Find(sb, sh.name) <= m,
         About(sh, sb[Find(sb, sh.name)])
  PROVE  /\ Find(tb, sh.name) # 0 /\ Find(tb, sh.name) <= m2
         /\ About(sh, tb[Find(tb, sh.name)])
<1> DEFINE i == Find(sb, sh.name)
<1>1. Find(tb, sh.name) = i
  BY FindStable
<1>2. i \in 0 .. Len(sb)
  BY FindIs
<1> HIDE DEF i
<1>3. i # 0 /\ i <= m /\ About(sh, sb[i])
  BY DEF i
<1>4. i \in 1 .. m /\ i <= m2
  BY <1>2, <1>3
<1> QED BY <1>1, <1>3, <1>4

LEMMA ScreenStable ==
  ASSUME IInv, shown' = shown, Mounted', superblock' \in Seq(Entries),
         Settled' \in Int, Settled <= Settled', Settled <= Len(superblock'),
         \A k \in 1 .. Settled : superblock'[k] = superblock[k]
  PROVE  ScreenIsTrue'
<1> SUFFICES ASSUME shown.kind \in {"contents", "ioerr", "too large"}
             PROVE  LET i == Find(superblock', shown.name) IN
                    i # 0 /\ i <= Settled' /\ About(shown, superblock'[i])
  BY DEF ScreenIsTrue
<1>1. LET i == Find(superblock, shown.name) IN
      Mounted /\ i # 0 /\ i <= Settled /\ About(shown, superblock[i])
  BY DEF IInv, ScreenIsTrue
<1>2. superblock \in Seq(Entries) /\ Settled \in 0 .. Len(superblock)
  BY <1>1, TypeFacts
<1> QED BY <1>1, <1>2, AboutStable

LEMMA MountStep ==
  ASSUME IInv, kfs_mount PROVE IInv'
<1>1. /\ pc = "off" /\ pc' = "idle" /\ superblock' = disk_super
      /\ disk_super' = disk_super /\ disk' = disk /\ sector' = sector /\ shown' = shown
  BY DEF kfs_mount
<1>2. TypeOK' /\ Len(disk_super)' <= KFS_MAX_FILES
  BY <1>1 DEF IInv, TypeOK
<1>3. (Layout(superblock) /\ Layout(disk_super))'
  BY <1>1 DEF IInv
<1>4. (AllOnDisk(disk, superblock) /\ AllOnDisk(disk, disk_super))'
  BY <1>1 DEF IInv
<1>5. Prefix'
  <2>1. Len(disk_super) \in Nat
    BY TypeFacts
  <2> QED BY <1>1, <2>1 DEF Prefix, Settled
<1>6. Writing'
  BY <1>1 DEF Writing
<1>7. ScreenIsTrue'
  BY <1>1 DEF IInv, ScreenIsTrue, Mounted
<1> QED BY <1>2, <1>3, <1>4, <1>5, <1>6, <1>7 DEF IInv

LEMMA MountFailsStep ==
  ASSUME IInv, MountFails PROVE IInv'
<1>1. /\ pc = "off" /\ pc' = "panic" /\ superblock' = superblock
      /\ disk_super' = disk_super /\ disk' = disk /\ sector' = sector /\ shown' = shown
  BY DEF MountFails
<1>2. TypeOK' /\ Len(disk_super)' <= KFS_MAX_FILES
  BY <1>1 DEF IInv, TypeOK
<1>3. (Layout(superblock) /\ Layout(disk_super))'
  BY <1>1 DEF IInv
<1>4. (AllOnDisk(disk, superblock) /\ AllOnDisk(disk, disk_super))'
  BY <1>1 DEF IInv
<1>5. Prefix' /\ Writing'
  BY <1>1 DEF Prefix, Mounted, Writing
<1>6. ScreenIsTrue'
  BY <1>1 DEF IInv, ScreenIsTrue, Mounted
<1> QED BY <1>2, <1>3, <1>4, <1>5, <1>6 DEF IInv

LEMMA PowerOffStep ==
  ASSUME IInv, PowerOff PROVE IInv'
<1>1. /\ pc' = "off" /\ superblock' = <<>> /\ disk_super' = disk_super /\ disk' = disk
      /\ sector' = 0 /\ shown' = Nothing
  BY DEF PowerOff
<1>2. TypeOK' /\ Len(disk_super)' <= KFS_MAX_FILES
  <2>1. superblock' \in Seq(Entries) /\ Len(superblock') <= KFS_MAX_FILES
    BY <1>1, KfsAssumption
  <2>2. sector' \in 0 .. COUNT /\ shown' \in Shown
    BY <1>1, KfsAssumption, NothingShown
  <2> QED BY <1>1, <2>1, <2>2 DEF IInv, TypeOK
<1>3. (Layout(superblock) /\ Layout(disk_super))'
  <2>1. Layout(<<>>)
    BY DEF Layout
  <2> QED BY <1>1, <2>1 DEF IInv
<1>4. (AllOnDisk(disk, superblock) /\ AllOnDisk(disk, disk_super))'
  <2>1. AllOnDisk(disk, <<>>)
    BY DEF AllOnDisk
  <2> QED BY <1>1, <2>1 DEF IInv
<1>5. Prefix' /\ Writing'
  BY <1>1 DEF Prefix, Mounted, Writing
<1>6. ScreenIsTrue'
  BY <1>1 DEF ScreenIsTrue, Nothing
<1> QED BY <1>2, <1>3, <1>4, <1>5, <1>6 DEF IInv
\* The entry that kfs_write appends.
LEMMA NewEntryIs ==
  ASSUME NEW sb \in Seq(Entries), NEW n \in Names, NEW size \in Nat, NEW d \in Data
  PROVE  LET e == NewEntry(sb, n, size, d) IN
         /\ e \in Entries /\ e.start_lba = NextLba(sb) /\ e.size = size
         /\ e.whole <=> size = 0
<1>1. NextLba(sb) \in Nat
  <2>1. Len(sb) \in 0 .. Len(sb)
    OBVIOUS
  <2> QED BY <2>1, LbaIs, EntrySizes DEF IsLba, NextLba
<1>2. (size = 0) \in BOOLEAN
  OBVIOUS
<1> QED BY <1>1, <1>2 DEF NewEntry, Entries

LEMMA Modulo ==
  ASSUME NEW a \in Nat
  PROVE  /\ a % COUNT \in Nat /\ a % COUNT < COUNT /\ a % COUNT <= a
         /\ a < COUNT => a % COUNT = a
  BY KfsAssumption

LEMMA WriteStep ==
  ASSUME IInv, NEW n \in Names, NEW size \in Nat, NEW d \in Data, kfs_write(n, size, d)
  PROVE  IInv'
<1> DEFINE e == NewEntry(superblock, n, size, d)
<1>1. /\ pc = "idle" /\ Len(superblock) < KFS_MAX_FILES
      /\ superblock' = Append(superblock, e) /\ sector' = 0
      /\ pc' = IF size % COUNT = 0 THEN "super" ELSE "data"
      /\ disk_super' = disk_super /\ disk' = disk /\ shown' = shown
  BY DEF kfs_write
<1>2. superblock \in Seq(Entries) /\ Len(superblock) \in Nat /\ Len(disk_super) \in Nat
  BY TypeFacts
<1>3. e \in Entries /\ e.start_lba = NextLba(superblock) /\ e.size = size /\ (e.whole <=> size = 0)
  BY <1>2, NewEntryIs
<1> HIDE DEF e
<1>4. /\ superblock' \in Seq(Entries) /\ Len(superblock') = Len(superblock) + 1
      /\ \A k \in 1 .. Len(superblock) : superblock'[k] = superblock[k]
      /\ superblock'[Len(superblock) + 1] = e
  BY <1>1, <1>2, <1>3, AppendProperties
<1>5. pc' \in {"data", "super"}
  BY <1>1
<1>6. Settled = Len(superblock) /\ Settled' = Len(superblock)
  BY <1>1, <1>2, <1>4, <1>5 DEF Settled
<1>7. TypeOK'
  <2>1. Len(superblock') <= KFS_MAX_FILES
    BY <1>1, <1>2, <1>4, KfsAssumption
  <2>2. sector' \in 0 .. COUNT
    BY <1>1, KfsAssumption
  <2>3. /\ disk_super \in Seq(Entries) /\ shown \in Shown
        /\ disk \in [DataSectors -> [data : Data, index : Nat] \cup {Blank}]
    BY DEF IInv, TypeOK
  <2> QED BY <1>1, <1>4, <1>5, <2>1, <2>2, <2>3 DEF TypeOK
<1>8. (Layout(superblock) /\ Layout(disk_super))'
  <2>1. Layout(superblock) /\ Layout(disk_super)
    BY DEF IInv
  <2> QED BY <1>1, <1>2, <1>3, <2>1, LayoutAppend
<1>9. (AllOnDisk(disk, superblock) /\ AllOnDisk(disk, disk_super))'
  <2>1. AllOnDisk(disk, superblock) /\ AllOnDisk(disk, disk_super)
    BY DEF IInv
  <2> SUFFICES ASSUME NEW k \in 1 .. Len(superblock'), superblock'[k].whole
               PROVE  OnDisk(disk, superblock'[k], superblock'[k].size)
    BY <1>1, <2>1 DEF AllOnDisk
  <2>2. CASE k \in 1 .. Len(superblock)
    BY <1>4, <2>1, <2>2 DEF AllOnDisk
  <2>3. CASE k = Len(superblock) + 1
    <3>1. superblock'[k].size = 0
      BY <1>3, <1>4, <2>3
    <3> QED BY <3>1 DEF OnDisk
  <2> QED BY <1>2, <1>4, <2>2, <2>3
<1>10. Prefix'
  <2>1. /\ Len(disk_super) <= Len(superblock)
        /\ \A k \in 1 .. Len(disk_super) : superblock[k] = disk_super[k]
    BY <1>1, <1>6 DEF IInv, Prefix, Mounted
  <2>2. \A k \in 1 .. Len(disk_super) : superblock'[k] = disk_super[k]
    BY <1>2, <1>4, <2>1
  <2> QED BY <1>1, <1>6, <2>1, <2>2 DEF Prefix
<1>11. Writing'
  <2> SUFFICES ASSUME pc' = "data"
               PROVE  ~ NewFile'.whole /\ sector' < NewFile'.size % COUNT
                      /\ OnDisk(disk', NewFile', sector')
    BY DEF Writing
  <2>1. NewFile' = e
    BY <1>4 DEF NewFile
  <2>2. size % COUNT # 0
    BY <1>1
  <2>3. size # 0 /\ 0 < size % COUNT
    BY <2>2, Modulo
  <2>4. OnDisk(disk', NewFile', 0)
    BY DEF OnDisk
  <2> QED BY <1>1, <1>3, <2>1, <2>3, <2>4
<1>12. ScreenIsTrue'
  <2>1. Mounted'
    BY <1>5 DEF Mounted
  <2> QED BY <1>1, <1>2, <1>4, <1>6, <2>1, ScreenStable
<1>13. Len(disk_super') <= KFS_MAX_FILES
  BY <1>1 DEF IInv
<1> QED BY <1>7, <1>8, <1>9, <1>10, <1>11, <1>12, <1>13 DEF IInv
LEMMA DataSectorStep ==
  ASSUME IInv, DataSector PROVE IInv'
<1> DEFINE m == Len(superblock)
           f == superblock[m]
           s == f.start_lba + sector
           b == (sector + 1 = f.size)
<1>1. /\ pc = "data" /\ s \in DataSectors
      /\ disk' = [disk EXCEPT ![s] = Piece(f.data, sector)]
      /\ sector' = sector + 1
      /\ pc' = IF sector + 1 = f.size % COUNT THEN "super" ELSE "data"
      /\ superblock' = [superblock EXCEPT ![m].whole = b]
      /\ disk_super' = disk_super /\ shown' = shown
  BY DEF DataSector, NewFile
<1>2. /\ superblock \in Seq(Entries) /\ disk_super \in Seq(Entries)
      /\ m \in Nat /\ Len(disk_super) \in Nat
      /\ sector \in Nat /\ COUNT \in Nat \ {0}
  BY TypeFacts
<1>3. /\ Len(disk_super) <= m - 1
      /\ \A k \in 1 .. Len(disk_super) : superblock[k] = disk_super[k]
  <2>1. Settled = m - 1 /\ Mounted
    BY <1>1 DEF Settled, Mounted
  <2> QED BY <2>1 DEF IInv, Prefix
<1>4. m # 0 /\ m \in 1 .. m /\ f \in Entries
  BY <1>2, <1>3
<1>5. ~ f.whole /\ sector < f.size % COUNT /\ OnDisk(disk, f, sector)
  BY <1>1 DEF IInv, Writing, NewFile
<1>6. f.size \in Nat /\ f.start_lba \in Nat /\ f.data \in Data
  BY <1>4 DEF Entries
<1>7. f.size % COUNT \in Nat /\ f.size % COUNT <= f.size /\ f.size % COUNT < COUNT
  BY <1>6, Modulo
<1>8. /\ superblock' \in Seq(Entries) /\ Len(superblock') = m
      /\ \A k \in 1 .. m - 1 : superblock'[k] = superblock[k]
      /\ superblock'[m].size = f.size /\ superblock'[m].start_lba = f.start_lba
      /\ superblock'[m].data = f.data /\ superblock'[m].whole = b
  <2>1. b \in BOOLEAN
    OBVIOUS
  <2> HIDE DEF b
  <2> DEFINE e == [f EXCEPT !.whole = b]
  <2>2. /\ e \in Entries /\ e.size = f.size /\ e.start_lba = f.start_lba
        /\ e.data = f.data /\ e.whole = b
    BY <1>4, <2>1 DEF Entries
  <2>3. superblock' = [superblock EXCEPT ![m] = e]
    BY <1>1
  <2> HIDE DEF e
  <2>4. /\ superblock' \in Seq(Entries) /\ Len(superblock') = m
        /\ \A k \in 1 .. m - 1 : superblock'[k] = superblock[k]
        /\ superblock'[m] = e
    BY <1>2, <1>4, <2>2, <2>3
  <2> QED BY <2>2, <2>4
<1>9. pc' \in {"data", "super"}
  BY <1>1
<1>10. Settled = m - 1 /\ Settled' = m - 1
  BY <1>1, <1>8, <1>9 DEF Settled
<1>11. disk \in [DataSectors -> [data : Data, index : Nat] \cup {Blank}]
       /\ shown \in Shown /\ m <= KFS_MAX_FILES
  BY DEF IInv, TypeOK
<1>12. TypeOK'
  <2>1. disk' \in [DataSectors -> [data : Data, index : Nat] \cup {Blank}]
    <3>1. Piece(f.data, sector) \in [data : Data, index : Nat]
      BY <1>2, <1>6 DEF Piece
    <3> HIDE DEF s, f
    <3> QED BY <1>1, <1>11, <3>1
  <2>2. sector' \in 0 .. COUNT
    BY <1>1, <1>2, <1>5, <1>7
  <2> QED BY <1>1, <1>2, <1>8, <1>9, <1>11, <2>1, <2>2 DEF TypeOK
<1>13. (Layout(superblock) /\ Layout(disk_super))'
  <2>1. Layout(superblock) /\ Layout(disk_super)
    BY DEF IInv
  <2>2. \A k \in 1 .. m : superblock'[k].size = superblock[k].size
                          /\ superblock'[k].start_lba = superblock[k].start_lba
    <3> SUFFICES ASSUME NEW k \in 1 .. m
                 PROVE  superblock'[k].size = superblock[k].size
                        /\ superblock'[k].start_lba = superblock[k].start_lba
      OBVIOUS
    <3>1. CASE k = m
      BY <1>8, <3>1
    <3>2. CASE k \in 1 .. m - 1
      BY <1>8, <3>2
    <3> QED BY <1>2, <3>1, <3>2
  <2> QED BY <1>1, <1>2, <1>8, <2>1, <2>2, LayoutAgree
\* The sector belongs to the new file alone.
<1>14. ASSUME NEW k \in 1 .. m - 1, superblock[k].whole
       PROVE  OnDisk(disk', superblock[k], superblock[k].size)
  <2> DEFINE g == superblock[k]
  <2>1. g.start_lba + g.size <= f.start_lba
    <3>1. Layout(superblock)
      BY DEF IInv
    <3> QED BY <1>2, <1>4, <3>1, LayoutOrder
  <2>2. g \in Entries
    BY <1>2
  <2>3. g.start_lba \in Nat /\ g.size \in Nat
    BY <2>2 DEF Entries
  <2>4. OnDisk(disk, g, g.size)
    <3>1. k \in 1 .. m
      BY <1>2
    <3> QED BY <1>14, <3>1 DEF IInv, AllOnDisk
  <2> SUFFICES ASSUME NEW j \in 0 .. g.size - 1
               PROVE  g.start_lba + j \in DataSectors /\ disk'[g.start_lba + j] = Piece(g.data, j)
    BY DEF OnDisk
  <2>5. g.start_lba + j # s
    <3>1. j \in Nat /\ j < g.size
      BY <2>3
    <3> HIDE DEF g, f
    <3> QED BY <1>2, <1>6, <2>1, <2>3, <3>1
  <2>6. g.start_lba + j \in DataSectors /\ disk[g.start_lba + j] = Piece(g.data, j)
    BY <2>4 DEF OnDisk
  <2> HIDE DEF s, g
  <2> QED BY <1>1, <1>11, <2>5, <2>6
\* It holds the next piece of it.
<1>15. OnDisk(disk', superblock'[m], sector + 1)
  <2> SUFFICES ASSUME NEW j \in 0 .. sector
               PROVE  f.start_lba + j \in DataSectors /\ disk'[f.start_lba + j] = Piece(f.data, j)
    BY <1>2, <1>8 DEF OnDisk
  <2>1. CASE j = sector
    BY <1>1, <1>11, <2>1
  <2>2. CASE j \in 0 .. sector - 1
    <3>1. f.start_lba + j \in DataSectors /\ disk[f.start_lba + j] = Piece(f.data, j)
      BY <1>5, <2>2 DEF OnDisk
    <3>2. f.start_lba + j # s
      BY <1>2, <1>6, <2>2
    <3> HIDE DEF s, f
    <3> QED BY <1>1, <1>11, <3>1, <3>2
  <2> QED BY <1>2, <2>1, <2>2
<1>16. (AllOnDisk(disk, superblock) /\ AllOnDisk(disk, disk_super))'
  <2>1. ASSUME NEW k \in 1 .. m, superblock'[k].whole
        PROVE  OnDisk(disk', superblock'[k], superblock'[k].size)
    <3>1. CASE k = m
      BY <1>8, <1>15, <2>1, <3>1
    <3>2. CASE k \in 1 .. m - 1
      BY <1>8, <1>14, <2>1, <3>2
    <3> QED BY <1>2, <3>1, <3>2
  <2>2. ASSUME NEW k \in 1 .. Len(disk_super), disk_super[k].whole
        PROVE  OnDisk(disk', disk_super[k], disk_super[k].size)
    <3>1. k \in 1 .. m - 1 /\ superblock[k] = disk_super[k]
      BY <1>2, <1>3
    <3> QED BY <1>14, <2>2, <3>1
  <2> QED BY <1>1, <1>8, <2>1, <2>2 DEF AllOnDisk
<1>17. Prefix'
  <2>1. \A k \in 1 .. Len(disk_super) : superblock'[k] = disk_super[k]
    BY <1>2, <1>3, <1>8
  <2> QED BY <1>1, <1>3, <1>10, <2>1 DEF Prefix
<1>18. Writing'
  <2> SUFFICES ASSUME pc' = "data"
               PROVE  ~ NewFile'.whole /\ sector' < NewFile'.size % COUNT
                      /\ OnDisk(disk', NewFile', sector')
    BY DEF Writing
  <2>1. NewFile' = superblock'[m]
    BY <1>8 DEF NewFile
  <2>2. sector + 1 # f.size % COUNT
    BY <1>1
  <2>3. sector + 1 < f.size % COUNT /\ ~ b
    BY <1>2, <1>5, <1>6, <1>7, <2>2
  <2>4. ~ superblock'[m].whole
    BY <1>8, <2>3
  <2> QED BY <1>1, <1>8, <1>15, <2>1, <2>3, <2>4
<1>19. ScreenIsTrue'
  <2>1. Mounted'
    BY <1>9 DEF Mounted
  <2>2. /\ Settled' \in Int /\ Settled <= Settled' /\ Settled <= Len(superblock')
        /\ \A k \in 1 .. Settled : superblock'[k] = superblock[k]
    BY <1>2, <1>8, <1>10
  <2> QED BY <1>1, <1>8, <2>1, <2>2, ScreenStable
<1>20. Len(disk_super') <= KFS_MAX_FILES
  BY <1>1 DEF IInv
<1> QED BY <1>12, <1>13, <1>16, <1>17, <1>18, <1>19, <1>20 DEF IInv
LEMMA DataErrorStep ==
  ASSUME IInv, DataError PROVE IInv'
<1>1. /\ pc = "data" /\ pc' = "super" /\ superblock' = superblock
      /\ disk_super' = disk_super /\ disk' = disk /\ sector' = sector /\ shown' = shown
  BY DEF DataError
<1>2. Settled' = Settled /\ Mounted' /\ Mounted
  BY <1>1 DEF Settled, Mounted
<1>3. TypeOK' /\ Len(disk_super)' <= KFS_MAX_FILES
  BY <1>1 DEF IInv, TypeOK
<1>4. (Layout(superblock) /\ Layout(disk_super))'
  BY <1>1 DEF IInv
<1>5. (AllOnDisk(disk, superblock) /\ AllOnDisk(disk, disk_super))'
  BY <1>1 DEF IInv
<1>6. Prefix'
  BY <1>1, <1>2 DEF IInv, Prefix
<1>7. Writing'
  BY <1>1 DEF Writing
<1>8. ScreenIsTrue'
  BY <1>1, <1>2 DEF IInv, ScreenIsTrue
<1> QED BY <1>3, <1>4, <1>5, <1>6, <1>7, <1>8 DEF IInv

\* The superblock's sector is written, or not: the new entry is settled.
LEMMA SuperStep ==
  ASSUME IInv, pc = "super", pc' = "idle", sector' = 0,
         superblock' = superblock, disk' = disk, shown' = shown,
         disk_super' \in {superblock, disk_super}
  PROVE  IInv'
<1>1. /\ superblock \in Seq(Entries) /\ disk_super \in Seq(Entries)
      /\ Len(superblock) \in Nat /\ Len(disk_super) \in Nat
  BY TypeFacts
<1>2. Settled = Len(superblock) - 1 /\ Settled' = Len(superblock) /\ Mounted /\ Mounted'
  BY DEF Settled, Mounted
<1>3. TypeOK' /\ Len(disk_super)' <= KFS_MAX_FILES
  <2>1. sector' \in 0 .. COUNT
    BY KfsAssumption
  <2> QED BY <2>1 DEF IInv, TypeOK
<1>4. (Layout(superblock) /\ Layout(disk_super))'
  BY DEF IInv
<1>5. (AllOnDisk(disk, superblock) /\ AllOnDisk(disk, disk_super))'
  BY DEF IInv
<1>6. Prefix'
  <2>1. /\ Len(disk_super) <= Settled
        /\ \A k \in 1 .. Len(disk_super) : superblock[k] = disk_super[k]
    BY <1>2 DEF IInv, Prefix
  <2>2. CASE disk_super' = superblock
    BY <1>1, <1>2, <2>2 DEF Prefix
  <2>3. CASE disk_super' = disk_super
    BY <1>1, <1>2, <2>1, <2>3 DEF Prefix
  <2> QED BY <2>2, <2>3
<1>7. Writing'
  BY DEF Writing
<1>8. ScreenIsTrue'
  <2>1. /\ Settled' \in Int /\ Settled <= Settled' /\ Settled <= Len(superblock')
        /\ \A k \in 1 .. Settled : superblock'[k] = superblock[k]
    BY <1>1, <1>2
  <2> QED BY <1>1, <1>2, <2>1, ScreenStable
<1> QED BY <1>3, <1>4, <1>5, <1>6, <1>7, <1>8 DEF IInv

\* The four ways cat ends, for the file that kfs_find returns.
LEMMA CatStep ==
  ASSUME IInv, NEW n \in Names, cat(n) PROVE IInv'
<1> DEFINE i == Find(superblock, n)
           f == superblock[i]
<1>1. /\ pc = "idle" /\ pc' = pc /\ superblock' = superblock
      /\ disk_super' = disk_super /\ disk' = disk /\ sector' = sector
      /\ \/ i = 0 /\ Display("not found", n, <<>>)
         \/ i # 0 /\ f.size > MAX_CAT /\ Display("too large", n, <<>>)
         \/ /\ i # 0 /\ f.size <= MAX_CAT
            /\ \/ ~ Readable(f) /\ Display("ioerr", n, <<>>)
               \/ shown' = [kind |-> "ioerr", name |-> n, pieces |-> <<>>, fault |-> TRUE]
               \/ /\ Readable(f)
                  /\ Display("contents", n, [k \in 1 .. f.size |-> disk[f.start_lba + k - 1]])
  BY DEF cat, kfs_find, Find
<1>2. superblock \in Seq(Entries) /\ Len(superblock) \in Nat
  BY TypeFacts
<1>3. i \in 0 .. Len(superblock)
  BY <1>2, FindIs
<1>4. Settled' = Settled /\ Mounted' /\ Mounted /\ Settled = Len(superblock)
  BY <1>1 DEF Settled, Mounted
<1> HIDE DEF i
<1>5. i # 0 => i \in 1 .. Len(superblock) /\ f \in Entries
  BY <1>2, <1>3
<1>6. i # 0 => f.size \in Nat /\ f.start_lba \in Nat \ {0}
  <2>1. Layout(superblock)
    BY DEF IInv
  <2> QED BY <1>2, <1>5, <2>1, LayoutOrder
<1>7. disk \in [DataSectors -> [data : Data, index : Nat] \cup {Blank}]
  BY DEF IInv, TypeOK
<1>8. /\ shown' \in Shown /\ shown'.name = n
      /\ i = 0 => shown'.kind = "not found"
      /\ i # 0 => About(shown', f)
  <2>1. CASE i = 0
    <3>1. shown' = [kind |-> "not found", name |-> n, pieces |-> <<>>, fault |-> FALSE]
      BY <1>1, <2>1 DEF Display
    <3>2. shown' \in Shown
      <4>1. "not found" \in {"nothing", "not found", "too large", "ioerr", "contents"}
        OBVIOUS
      <4>2. <<>> \in Seq([data : Data, index : Nat] \cup {Blank}) /\ FALSE \in BOOLEAN
        OBVIOUS
      <4> QED BY <3>1, <4>1, <4>2 DEF Shown
    <3> QED BY <2>1, <3>1, <3>2
  <2>2. CASE i # 0 /\ f.size > MAX_CAT /\ Display("too large", n, <<>>)
    <3>1. shown' = [kind |-> "too large", name |-> n, pieces |-> <<>>, fault |-> FALSE]
      BY <2>2 DEF Display
    <3> HIDE DEF f
    <3>2. shown' \in Shown /\ shown'.name = n
      <4>1. "too large" \in {"nothing", "not found", "too large", "ioerr", "contents"}
        OBVIOUS
      <4>2. <<>> \in Seq([data : Data, index : Nat] \cup {Blank}) /\ FALSE \in BOOLEAN
        OBVIOUS
      <4> QED BY <3>1, <4>1, <4>2 DEF Shown
    <3>3. About(shown', f)
      BY <2>2, <3>1 DEF About
    <3> QED BY <2>2, <3>2, <3>3
  <2>3. CASE i # 0 /\ f.size <= MAX_CAT /\ ~ Readable(f) /\ Display("ioerr", n, <<>>)
    <3>1. f.size % COUNT = f.size
      <4>1. f.size \in Nat /\ f.size <= MAX_CAT
        BY <1>6, <2>3
      <4> HIDE DEF f
      <4>2. f.size < COUNT
        BY <4>1, KfsAssumption
      <4> QED BY <4>1, <4>2, Modulo
    <3>2. f.size = 0 \/ f.start_lba + f.size > DiskSectors
      <4> SUFFICES ASSUME f.size # 0 PROVE f.start_lba + f.size > DiskSectors
        OBVIOUS
      <4>1. PICK k \in 0 .. f.size - 1 : f.start_lba + k \notin DataSectors
        BY <2>3, <3>1 DEF Readable
      <4> HIDE DEF f
      <4>2. k \in Nat /\ k < f.size
        BY <1>6, <2>3
      <4> QED BY <1>6, <2>3, <4>1, <4>2, KfsAssumption DEF DataSectors
    <3> QED BY <2>3, <3>2 DEF Display, Shown, About
  <2>4. CASE i # 0 /\ shown' = [kind |-> "ioerr", name |-> n, pieces |-> <<>>, fault |-> TRUE]
    BY <2>4 DEF Shown, About
  <2>5. CASE /\ i # 0 /\ f.size <= MAX_CAT /\ Readable(f)
             /\ Display("contents", n, [k \in 1 .. f.size |-> disk[f.start_lba + k - 1]])
    <3> DEFINE pieces == [k \in 1 .. f.size |-> disk[f.start_lba + k - 1]]
    <3>1. shown' = [kind |-> "contents", name |-> n, pieces |-> pieces, fault |-> FALSE]
      BY <2>5 DEF Display
    <3>2. ASSUME NEW k \in 1 .. f.size
          PROVE  disk[f.start_lba + k - 1] \in [data : Data, index : Nat] \cup {Blank}
      <4> HIDE DEF f
      <4>1. k - 1 \in 0 .. f.size - 1 /\ f.start_lba + (k - 1) = f.start_lba + k - 1
        BY <1>6, <2>5
      <4>2. f.start_lba + (k - 1) \in DataSectors
        BY <2>5, <4>1 DEF Readable
      <4> QED BY <1>7, <4>1, <4>2
    <3>3. pieces \in Seq([data : Data, index : Nat] \cup {Blank}) /\ Len(pieces) = f.size
      <4> HIDE DEF f
      <4> QED BY <1>6, <2>5, <3>2
    <3>4. f.whole => pieces = [k \in 1 .. f.size |-> Piece(f.data, k - 1)]
      <4> SUFFICES ASSUME f.whole, NEW k \in 1 .. f.size
                   PROVE  disk[f.start_lba + k - 1] = Piece(f.data, k - 1)
        OBVIOUS
      <4>1. OnDisk(disk, f, f.size)
        BY <1>5, <2>5 DEF IInv, AllOnDisk
      <4> HIDE DEF f
      <4>2. k - 1 \in 0 .. f.size - 1 /\ f.start_lba + (k - 1) = f.start_lba + k - 1
        BY <1>6, <2>5
      <4> QED BY <4>1, <4>2 DEF OnDisk
    <3> HIDE DEF pieces, f
    <3>5. shown' \in Shown /\ shown'.name = n
      BY <3>1, <3>3 DEF Shown
    <3>6. About(shown', f)
      BY <2>5, <3>1, <3>3, <3>4 DEF About
    <3> QED BY <2>5, <3>5, <3>6
  <2> HIDE DEF f
  <2> QED BY <1>1, <2>1, <2>2, <2>3, <2>4, <2>5
<1>9. TypeOK' /\ Len(disk_super)' <= KFS_MAX_FILES
  BY <1>1, <1>8 DEF IInv, TypeOK
<1>10. (Layout(superblock) /\ Layout(disk_super))'
  BY <1>1 DEF IInv
<1>11. (AllOnDisk(disk, superblock) /\ AllOnDisk(disk, disk_super))'
  BY <1>1 DEF IInv
<1>12. Prefix'
  BY <1>1, <1>4 DEF IInv, Prefix
<1>13. Writing'
  BY <1>1 DEF Writing
<1>14. ScreenIsTrue'
  <2>1. i <= Settled'
    BY <1>2, <1>3, <1>4
  <2> SUFFICES ASSUME shown'.kind \in {"contents", "ioerr", "too large"}
               PROVE  LET j == Find(superblock', shown'.name) IN
                      j # 0 /\ j <= Settled' /\ About(shown', superblock'[j])
    BY <1>4 DEF ScreenIsTrue
  <2>2. Find(superblock', shown'.name) = i
    BY <1>1, <1>8 DEF i
  <2>3. i # 0
    BY <1>8
  <2> QED BY <1>1, <1>8, <2>1, <2>2, <2>3
<1> QED BY <1>9, <1>10, <1>11, <1>12, <1>13, <1>14 DEF IInv

LEMMA NextIInv == IInv /\ [Next]_vars => IInv'
<1> SUFFICES ASSUME IInv, [Next]_vars PROVE IInv'
  OBVIOUS
<1>1. CASE kfs_mount
  BY <1>1, MountStep
<1>2. CASE MountFails
  BY <1>2, MountFailsStep
<1>3. CASE PowerOff
  BY <1>3, PowerOffStep
<1>4. ASSUME NEW n \in Names, touch(n) PROVE IInv'
  <2> DEFINE d == CHOOSE d \in Data : TRUE
  <2>1. d \in Data /\ kfs_write(n, 0, d)
    BY <1>4, KfsAssumption DEF touch
  <2> HIDE DEF d
  <2> QED BY <2>1, WriteStep
<1>5. ASSUME NEW n \in Names, NEW size \in Sizes, NEW d \in Data, vfs_l_write(n, size, d)
      PROVE  IInv'
  <2>1. size \in Nat /\ kfs_write(n, size, d)
    BY <1>5, KfsAssumption DEF vfs_l_write
  <2> QED BY <2>1, WriteStep
<1>6. CASE DataSector
  BY <1>6, DataSectorStep
<1>7. CASE DataError
  BY <1>7, DataErrorStep
<1>8. CASE SuperWritten
  BY <1>8, SuperStep DEF SuperWritten
<1>9. CASE SuperError
  BY <1>9, SuperStep DEF SuperError
<1>10. ASSUME NEW n \in Names, cat(n) PROVE IInv'
  BY <1>10, CatStep
<1>11. CASE UNCHANGED vars
  <2>1. /\ superblock' = superblock /\ disk_super' = disk_super /\ disk' = disk
        /\ pc' = pc /\ sector' = sector /\ shown' = shown
    BY <1>11 DEF vars
  <2> QED BY <2>1 DEF IInv, TypeOK, Prefix, Mounted, Settled, Writing, NewFile, ScreenIsTrue
<1> QED BY <1>1, <1>2, <1>3, <1>4, <1>5, <1>6, <1>7, <1>8, <1>9, <1>10, <1>11 DEF Next

-----------------------------------------------------------------------------
(* Theorems *)

\* The inductive invariant of the file system.
THEOREM Inductive == Spec => []IInv
  BY InitIInv, NextIInv, PTL DEF Spec

\* kfs_write's superblock never outgrows its table, and sectors, entries and
\* the screen have their types.
THEOREM TypeCorrect == Spec => []TypeOK
<1>1. IInv => TypeOK
  BY DEF IInv
<1> QED BY <1>1, Inductive, PTL

\* Two sequences that agree as far as the shorter one goes.
LEMMA PrefixIs ==
  ASSUME NEW s \in Seq(Entries), NEW u \in Seq(Entries), Len(s) <= Len(u),
         \A k \in 1 .. Len(s) : u[k] = s[k]
  PROVE  IsPrefix(s, u)
<1>1. Len(s) \in Nat /\ Len(u) \in Nat
  OBVIOUS
<1>2. ASSUME NEW w \in Seq(Entries), Len(s) <= Len(w)
      PROVE  SubSeq(w, 1, Len(s)) = [k \in 1 .. Len(s) |-> w[k]]
  BY <1>1, <1>2
<1>3. SubSeq(s, 1, Len(s)) = SubSeq(u, 1, Len(s))
  <2>1. [k \in 1 .. Len(s) |-> s[k]] = [k \in 1 .. Len(s) |-> u[k]]
    OBVIOUS
  <2>2. SubSeq(s, 1, Len(s)) = [k \in 1 .. Len(s) |-> s[k]]
    BY <1>1, <1>2
  <2>3. SubSeq(u, 1, Len(s)) = [k \in 1 .. Len(s) |-> u[k]]
    BY <1>1, <1>2
  <2> QED BY <2>1, <2>2, <2>3
<1> QED BY <1>3 DEF IsPrefix

\* The superblock on disk lists a prefix of what memory lists (kfs_write,
\* kfs_mount), for every sequence of failures and crashes.
THEOREM MemoryIsAhead == Spec => []DiskIsPrefix
<1>1. ASSUME IInv PROVE DiskIsPrefix
  <2>1. superblock \in Seq(Entries) /\ disk_super \in Seq(Entries)
        /\ Len(superblock) \in Nat /\ Len(disk_super) \in Nat
        /\ Settled \in Int /\ Settled <= Len(superblock)
    BY <1>1, TypeFacts
  <2> SUFFICES ASSUME Mounted PROVE IsPrefix(disk_super, superblock)
    BY DEF DiskIsPrefix, Mounted
  <2>2. Len(disk_super) <= Settled /\ \A k \in 1 .. Len(disk_super) : superblock[k] = disk_super[k]
    BY <1>1 DEF IInv, Prefix
  <2>3. Len(disk_super) <= Len(superblock)
    BY <2>1, <2>2
  <2> QED BY <2>1, <2>2, <2>3, PrefixIs
<1> QED BY <1>1, Inductive, PTL

LEMMA LayoutDisjoint ==
  ASSUME NEW sb \in Seq(Entries), Layout(sb), NEW k \in 1 .. Len(sb)
  PROVE  /\ sb[k].start_lba > 0
         /\ \A j \in 1 .. k - 1 : Sectors(sb[j]) \cap Sectors(sb[k]) = {}
<1>1. /\ sb[k].start_lba \in Nat \ {0} /\ sb[k].size \in Nat
      /\ \A j \in 1 .. k - 1 : sb[j].start_lba + sb[j].size <= sb[k].start_lba
  BY LayoutOrder
<1>2. ASSUME NEW j \in 1 .. k - 1 PROVE Sectors(sb[j]) \cap Sectors(sb[k]) = {}
  <2>1. j \in 1 .. Len(sb)
    OBVIOUS
  <2>2. sb[j].start_lba \in Nat /\ sb[j].size \in Nat
    BY <2>1, LayoutOrder
  <2>3. sb[j].start_lba + sb[j].size <= sb[k].start_lba
    BY <1>1
  <2> SUFFICES ASSUME NEW x \in Sectors(sb[j]), x \in Sectors(sb[k]) PROVE FALSE
    OBVIOUS
  <2>4. /\ sb[j].start_lba <= x /\ x < sb[j].start_lba + sb[j].size /\ x \in Int
    BY <2>2, InSectors
  <2>5. sb[k].start_lba <= x /\ x < sb[k].start_lba + sb[k].size
    BY <1>1, InSectors
  <2> QED BY <1>1, <2>2, <2>3, <2>4, <2>5, Overlap
<1> QED BY <1>1, <1>2

\* No two files of either superblock share a sector (start_lba in kfs_write).
THEOREM FilesApart == Spec => []NoOverlap
<1>1. ASSUME IInv PROVE NoOverlap
  <2> SUFFICES ASSUME NEW sb \in {superblock, disk_super}, NEW k \in DOMAIN sb
               PROVE  /\ sb[k].start_lba > 0
                      /\ \A j \in 1 .. k - 1 : Sectors(sb[j]) \cap Sectors(sb[k]) = {}
    BY DEF NoOverlap
  <2>1. sb \in Seq(Entries) /\ Layout(sb)
    BY <1>1 DEF IInv, TypeOK
  <2>2. k \in 1 .. Len(sb)
    BY <2>1
  <2> QED BY <2>1, <2>2, LayoutDisjoint
<1> QED BY <1>1, Inductive, PTL

\* Crash consistency: a file that sector 0 lists, transferred without error,
\* keeps its data for ever (kfs_write, ata_write_sectors, kfs_mount).
THEOREM CrashConsistent == Spec => []CommittedDataIntact
<1>1. ASSUME IInv PROVE CommittedDataIntact
  <2>1. disk_super \in Seq(Entries) /\ AllOnDisk(disk, disk_super)
    BY <1>1 DEF IInv, TypeOK
  <2>2. DOMAIN disk_super = 1 .. Len(disk_super)
    BY <2>1
  <2> QED BY <2>1, <2>2 DEF CommittedDataIntact, AllOnDisk, OnDisk
<1> QED BY <1>1, Inductive, PTL

\* cat shows a completely written file exactly, and withholds none that it
\* could show (cmd_cat, kfs_read).
THEOREM CatIsTrue == Spec => []CatShowsTheFile
<1>1. ASSUME IInv PROVE CatShowsTheFile
  <2> DEFINE i == Find(superblock, shown.name)
  <2>1. kfs_find(shown.name) = i
    BY DEF kfs_find, Find
  <2>2. shown.kind \in {"contents", "ioerr", "too large"} => About(shown, superblock[i])
    BY <1>1 DEF IInv, ScreenIsTrue
  <2> HIDE DEF i
  <2> QED BY <2>1, <2>2 DEF CatShowsTheFile, About
<1> QED BY <1>1, Inductive, PTL

\* An entry that kfs_find would find on the disk is never replaced or lost.
THEOREM CommittedForEver == Spec => CommittedStable
<1> DEFINE Kept == \A n \in Names :
                     Find(disk_super, n) # 0
                       => /\ Find(disk_super', n) = Find(disk_super, n)
                          /\ disk_super'[Find(disk_super, n)] = disk_super[Find(disk_super, n)]
<1>1. ASSUME IInv, [Next]_vars PROVE [Kept]_vars
  <2>1. CASE disk_super' = disk_super
    BY <2>1
  <2>2. CASE disk_super' # disk_super
    <3>1. SuperWritten
      BY <1>1, <2>2 DEF Next, vars, kfs_mount, MountFails, PowerOff, touch, vfs_l_write,
                        kfs_write, DataSector, DataError, SuperError, cat
    <3>2. /\ disk_super' = superblock
          /\ \A k \in 1 .. Len(disk_super) : superblock[k] = disk_super[k]
          /\ Len(disk_super) <= Settled
      BY <1>1, <3>1 DEF SuperWritten, IInv, Prefix, Mounted
    <3>3. /\ superblock \in Seq(Entries) /\ disk_super \in Seq(Entries)
          /\ Len(disk_super) <= Len(superblock) /\ Len(disk_super) \in 0 .. Len(disk_super)
      BY <1>1, <3>2, TypeFacts
    <3>4. ASSUME NEW n \in Names, Find(disk_super, n) # 0
          PROVE  /\ Find(superblock, n) = Find(disk_super, n)
                 /\ superblock[Find(disk_super, n)] = disk_super[Find(disk_super, n)]
      <4>1. Find(disk_super, n) \in 0 .. Len(disk_super)
        BY <3>3, FindIs
      <4>2. Find(disk_super, n) \in 1 .. Len(disk_super) /\ Find(disk_super, n) <= Len(disk_super)
        BY <3>3, <3>4, <4>1
      <4>3. \A k \in 1 .. Len(disk_super) : superblock[k].name = disk_super[k].name
        BY <3>2
      <4>4. Find(superblock, n) = Find(disk_super, n)
        BY <3>3, <3>4, <4>2, <4>3, FindStable
      <4> QED BY <3>2, <4>2, <4>4
    <3> QED BY <3>2, <3>4
  <2> QED BY <2>1, <2>2
<1>2. [][Kept]_vars <=> CommittedStable
  BY DEF CommittedStable, Find
<1> QED BY <1>1, <1>2, Inductive, PTL DEF Spec
=============================================================================
