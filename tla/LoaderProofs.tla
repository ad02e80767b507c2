---------------------------- MODULE LoaderProofs ----------------------------
(***************************************************************************)
(* The loader and fblogo for sectors, pages and files of every size, with  *)
(* any read failing.                                                       *)
(***************************************************************************)
EXTENDS Loader, TLAPS

-----------------------------------------------------------------------------
(* The invariant *)

\* The stages of uexExec at which the program has its memory.
Loaded == {"first", "rest", "clear", "running"}

Stages == {"idle", "done", "place", "exec_alloc", "logo", "logo_alloc", "logo_read"} \cup Loaded

\* A picture as fblogo sees it: with the size of some other file, if the
\* header was never read.
PictureHeaders == [size : Nat, w : Nat \ {0}, h : Nat \ {0}, off : Nat]

\* The operation holds one run more than there were before it.
Owns(r) == live = before \cup {r} /\ r \notin before

Control ==
  /\ pc \in Stages /\ dest \in Nat /\ at \in Nat \X Nat
  /\ pc = "logo_read" => dest % PAGE = 0
  /\ pc \in {"place", "exec_alloc"} \cup Loaded => file \in Programs
  /\ pc \in {"logo", "logo_alloc", "logo_read"} => file \in PictureHeaders
  /\ pc = "running" => status = "ERR_SUCCESS"

PagesInv ==
  /\ pc \in {"place", "exec_alloc", "logo", "logo_alloc"} => live = before
  /\ pc = "exec_alloc" => pending = RoundUp(memSize(file), PAGE) /\ file.loadAddr = 0
  /\ pc = "logo_alloc" => pending = RoundUp(img_size(file), PAGE)
  /\ pc \in Loaded => IF file.loadAddr = 0 THEN Owns(Run(file)) ELSE live = before
  /\ pc = "logo_read" => Owns(LogoRun)

\* The byte k of the memory of a program.
Byte(f, k) == IF k < f.fileSize THEN Image(k) ELSE Zero

\* What the first sector has of the file, and how far the others reach.
Chunk(f) == IF f.fileSize <= SECTOR - HDR THEN f.fileSize ELSE SECTOR - HDR

Reach(f) ==
  IF Chunk(f) < f.fileSize
  THEN Chunk(f) + (RoundUp(f.fileSize - Chunk(f), SECTOR) % COUNT) * SECTOR
  ELSE Chunk(f)

\* Where the bytes are that were written for a program.
ProgramInv ==
  /\ pc \in {"rest", "clear", "running"} =>
       /\ copied = Chunk(file)
       /\ \A a \in DOMAIN wrote : wrote[a] = Byte(file, a - dest)
  /\ pc = "rest" => copied < file.fileSize /\ DOMAIN wrote = dest .. dest + copied - 1
  /\ pc = "clear" => DOMAIN wrote = dest .. dest + Reach(file) - 1
  /\ pc = "running" =>
       DOMAIN wrote = (dest .. dest + Reach(file) - 1)
                        \cup (dest + file.fileSize .. dest + memSize(file) - 1)

\* And for a picture: behind the first one, sectors are read from their start.
PictureInv ==
  pc = "logo_read" =>
    /\ copied \in Nat /\ copied <= size(file)
    /\ copied = 0 \/ copied = size(file) \/ (file.off + copied) % SECTOR = 0
    /\ DOMAIN wrote = dest .. dest + copied - 1
    /\ \A k \in 0 .. copied - 1 : wrote[dest + k] = Image(file.off + k)

\* Nothing is written before the memory is there.
Untouched ==
  pc \in {"idle", "place", "exec_alloc", "first", "logo", "logo_alloc"} =>
    copied = 0 /\ wrote = Nothing

IInv ==
  Control /\ PagesInv /\ Untouched /\ ProgramInv /\ PictureInv /\ PagesReturned /\ PictureExact

-----------------------------------------------------------------------------
(* Arithmetic *)

LEMMA Sizes ==
  /\ HDR \in Nat \ {0} /\ SECTOR \in Nat \ {0} /\ PAGE \in Nat \ {0} /\ COUNT \in Nat \ {0}
  /\ HDR < SECTOR /\ PAGE % SECTOR = 0 /\ FBW \in Nat /\ FBH \in Nat
  BY LoaderAssumption

LEMMA MinOfTwo ==
  ASSUME NEW a \in Int, NEW b \in Int
  PROVE  Min({a, b}) = IF a <= b THEN a ELSE b
<1> DEFINE m == IF a <= b THEN a ELSE b
<1>1. m \in {a, b} /\ \A y \in {a, b} : m <= y
  OBVIOUS
<1>2. \A x \in {a, b} : (\A y \in {a, b} : x <= y) => x = m
  OBVIOUS
<1> HIDE DEF m
<1>3. Min({a, b}) = m
  BY <1>1, <1>2 DEF Min
<1> QED BY <1>3 DEF m

LEMMA MaxOfTwo ==
  ASSUME NEW a \in Int, NEW b \in Int
  PROVE  Max({a, b}) = IF a >= b THEN a ELSE b
<1> DEFINE m == IF a >= b THEN a ELSE b
<1>1. m \in {a, b} /\ \A y \in {a, b} : m >= y
  OBVIOUS
<1>2. \A x \in {a, b} : (\A y \in {a, b} : x >= y) => x = m
  OBVIOUS
<1> HIDE DEF m
<1>3. Max({a, b}) = m
  BY <1>1, <1>2 DEF Max
<1> QED BY <1>3 DEF m

LEMMA Division ==
  ASSUME NEW n \in Nat, NEW u \in Nat \ {0}
  PROVE  /\ n \div u \in Nat /\ n % u \in 0 .. u - 1
         /\ n = (n \div u) * u + (n % u)
<1>1. n \div u \in Nat /\ n % u \in 0 .. u - 1
  OBVIOUS
<1>2. n = u * (n \div u) + (n % u)
  OBVIOUS
<1>3. u * (n \div u) = (n \div u) * u
  BY <1>1
<1> QED BY <1>1, <1>2, <1>3

\* RoundUp is the least number of units that has room for n.
LEMMA RoundUpIs ==
  ASSUME NEW n \in Nat, NEW u \in Nat \ {0}
  PROVE  /\ RoundUp(n, u) \in Nat /\ RoundUp(n, u) * u \in Nat
         /\ n <= RoundUp(n, u) * u /\ RoundUp(n, u) * u < n + u
<1> DEFINE q == (n + u - 1) \div u
<1>1. n + u - 1 \in Nat
  OBVIOUS
<1>2. q \in Nat /\ (n + u - 1) % u \in 0 .. u - 1 /\ n + u - 1 = q * u + ((n + u - 1) % u)
  BY <1>1, Division
<1>3. q * u \in Nat
  BY <1>2
<1>4. RoundUp(n, u) = q
  BY DEF RoundUp
<1> HIDE DEF q
<1> QED BY <1>2, <1>3, <1>4

\* The pages of a program have room for it, and end with a sector.
LEMMA MemSizeIs ==
  ASSUME NEW f \in Programs
  PROVE  /\ f.fileSize \in Nat /\ f.loadAddr \in Nat
         /\ memSize(f) \in Nat /\ f.fileSize <= memSize(f)
         /\ f.fileSize = 0 => memSize(f) = 0
         /\ \E m \in Nat : memSize(f) = m * SECTOR
<1>1. f.fileSize \in Nat /\ f.loadAddr \in Nat
  BY LoaderAssumption
<1> DEFINE r == RoundUp(f.fileSize, PAGE)
<1>2. r \in Nat /\ r * PAGE \in Nat /\ f.fileSize <= r * PAGE /\ r * PAGE < f.fileSize + PAGE
  BY <1>1, RoundUpIs, Sizes
<1>3. memSize(f) = r * PAGE
  BY DEF memSize
<1> HIDE DEF r
<1> DEFINE q == PAGE \div SECTOR
<1>4. q \in Nat /\ PAGE = q * SECTOR
  <2>1. PAGE = q * SECTOR + (PAGE % SECTOR) /\ q \in Nat
    BY Division, Sizes
  <2> HIDE DEF q
  <2>2. q * SECTOR \in Nat /\ PAGE % SECTOR = 0
    BY <2>1, Sizes
  <2> QED BY <2>1, <2>2
<1> HIDE DEF q
<1>5. r * PAGE = (r * q) * SECTOR /\ r * q \in Nat
  BY <1>2, <1>4, Sizes
<1>6. f.fileSize = 0 => r * PAGE = 0
  <2> SUFFICES ASSUME f.fileSize = 0 PROVE r * PAGE = 0
    OBVIOUS
  <2>1. r * PAGE < PAGE
    BY <1>1, <1>2, Sizes
  <2>2. r = 0
    <3>1. CASE r >= 1
      <4>1. r * PAGE >= PAGE
        BY <1>2, <3>1, Sizes
      <4> QED BY <1>2, <2>1, <4>1, Sizes
    <3> QED BY <1>2, <3>1
  <2> QED BY <2>2, Sizes
<1> QED BY <1>1, <1>2, <1>3, <1>5, <1>6

\* How far the sectors of a program reach, if their count does not wrap.
LEMMA ReachIs ==
  ASSUME NEW f \in Programs
  PROVE  LET left == RoundUp(f.fileSize - Chunk(f), SECTOR) IN
         /\ Chunk(f) \in Nat /\ Chunk(f) <= f.fileSize /\ left \in Nat
         /\ Reach(f) \in Nat /\ Chunk(f) <= Reach(f)
         /\ left < COUNT =>
              /\ f.fileSize <= Reach(f)
              /\ \/ Reach(f) = f.fileSize /\ f.fileSize <= SECTOR - HDR
                 \/ /\ Reach(f) = (left + 1) * SECTOR - HDR /\ f.fileSize > 0
                    /\ (left + 1) * SECTOR < f.fileSize + HDR + SECTOR
<1> DEFINE c == Chunk(f)
           left == RoundUp(f.fileSize - c, SECTOR)
<1>1. f.fileSize \in Nat
  BY MemSizeIs
<1>2. c \in Nat /\ c <= f.fileSize /\ (c < f.fileSize => c = SECTOR - HDR)
      /\ (c = f.fileSize => f.fileSize <= SECTOR - HDR)
  BY <1>1, Sizes DEF Chunk
<1>3. f.fileSize - c \in Nat
  BY <1>1, <1>2
<1> HIDE DEF c
<1>4. /\ left \in Nat /\ left * SECTOR \in Nat /\ f.fileSize - c <= left * SECTOR
      /\ left * SECTOR < (f.fileSize - c) + SECTOR
  BY <1>3, RoundUpIs, Sizes
<1>5. Reach(f) = IF c < f.fileSize THEN c + (left % COUNT) * SECTOR ELSE c
  BY DEF Reach, c
<1> HIDE DEF left
<1>6. (left % COUNT) \in Nat /\ (left % COUNT) * SECTOR \in Nat
  <2>1. left % COUNT \in Nat
    BY <1>4, Sizes
  <2> QED BY <2>1, Sizes
<1>7. Reach(f) \in Nat /\ c <= Reach(f)
  BY <1>1, <1>2, <1>5, <1>6
<1>8. ASSUME left < COUNT
      PROVE  /\ f.fileSize <= Reach(f)
             /\ \/ Reach(f) = f.fileSize /\ f.fileSize <= SECTOR - HDR
                \/ /\ Reach(f) = (left + 1) * SECTOR - HDR /\ f.fileSize > 0
                   /\ (left + 1) * SECTOR < f.fileSize + HDR + SECTOR
  <2>1. left % COUNT = left
    BY <1>4, <1>8, Sizes
  <2>2. (left + 1) * SECTOR = left * SECTOR + SECTOR
    BY <1>4, Sizes
  <2>3. CASE c < f.fileSize
    <3>1. Reach(f) = c + left * SECTOR /\ c = SECTOR - HDR
      BY <1>2, <1>5, <2>1, <2>3
    <3> QED BY <1>1, <1>2, <1>4, <2>2, <3>1, Sizes
  <2>4. CASE c = f.fileSize
    BY <1>1, <1>2, <1>5, <2>4, Sizes
  <2> QED BY <1>1, <1>2, <2>3, <2>4
<1> QED BY <1>2, <1>4, <1>7, <1>8 DEF c, left

LEMMA Multiples ==
  ASSUME NEW a \in Nat, NEW b \in Nat, NEW u \in Nat \ {0}
  PROVE  a * u \in Nat /\ (a * u < b * u => a < b) /\ (a <= b => a * u <= b * u)
<1>1. a <= b => a * u <= b * u
  OBVIOUS
<1>2. a >= b => a * u >= b * u
  OBVIOUS
<1>3. a * u \in Nat /\ b * u \in Nat
  OBVIOUS
<1> QED BY <1>1, <1>2, <1>3

\* How far behind the pages of the program that is.
LEMMA ReachBehind ==
  ASSUME NEW f \in Programs, RoundUp(f.fileSize - Chunk(f), SECTOR) < COUNT
  PROVE  /\ memSize(f) - f.fileSize < HDR /\ f.fileSize > 0
              => Reach(f) = memSize(f) + SECTOR - HDR
         /\ ~ (memSize(f) - f.fileSize < HDR /\ f.fileSize > 0) => Reach(f) <= memSize(f)
<1> DEFINE left == RoundUp(f.fileSize - Chunk(f), SECTOR)
           size0 == f.fileSize
           mem == memSize(f)
           e == Reach(f)
<1>1. size0 \in Nat /\ mem \in Nat /\ size0 <= mem /\ (size0 = 0 => mem = 0)
  BY MemSizeIs
<1>2. PICK m \in Nat : mem = m * SECTOR
  BY MemSizeIs
<1>3. /\ left \in Nat /\ e \in Nat /\ size0 <= e
      /\ \/ e = size0 /\ size0 <= SECTOR - HDR
         \/ /\ e = (left + 1) * SECTOR - HDR /\ size0 > 0
            /\ (left + 1) * SECTOR < size0 + HDR + SECTOR
  BY ReachIs
<1> SUFFICES /\ mem - size0 < HDR /\ size0 > 0 => e = mem + SECTOR - HDR
             /\ ~ (mem - size0 < HDR /\ size0 > 0) => e <= mem
  OBVIOUS
<1> HIDE DEF left, size0, mem, e
<1>4. CASE e = size0 /\ size0 <= SECTOR - HDR
  <2>1. CASE size0 > 0
    <3>1. mem > 0
      BY <1>1, <2>1
    <3>2. m >= 1
      BY <1>2, <3>1, Sizes
    <3>3. 1 * SECTOR <= m * SECTOR
      BY <3>2, Sizes, Multiples
    <3> QED BY <1>1, <1>2, <1>4, <2>1, <3>3, Sizes
  <2>2. CASE size0 = 0
    BY <1>1, <1>4, <2>2, Sizes
  <2> QED BY <1>1, <2>1, <2>2
<1>5. CASE /\ e = (left + 1) * SECTOR - HDR /\ size0 > 0
           /\ (left + 1) * SECTOR < size0 + HDR + SECTOR
  <2>1. /\ left + 1 \in Nat /\ m + 1 \in Nat /\ m + 2 \in Nat
        /\ (left + 1) * SECTOR \in Nat /\ m * SECTOR \in Nat
        /\ (m + 1) * SECTOR = m * SECTOR + SECTOR
        /\ (m + 2) * SECTOR = m * SECTOR + SECTOR + SECTOR
        /\ (left + 1) * SECTOR = left * SECTOR + SECTOR /\ left * SECTOR \in Nat
    BY <1>3, Sizes
  <2>2. CASE mem - size0 < HDR
    <3>1. m * SECTOR < (left + 1) * SECTOR
      BY <1>1, <1>2, <1>3, <1>5, <2>1, <2>2, Sizes
    <3>2. (left + 1) * SECTOR < (m + 2) * SECTOR
      BY <1>1, <1>2, <1>3, <1>5, <2>1, <2>2, Sizes
    <3>3. m < left + 1 /\ left + 1 < m + 2
      BY <2>1, <3>1, <3>2, Sizes, Multiples
    <3>4. left = m
      BY <1>3, <3>3
    <3> QED BY <1>1, <1>2, <1>5, <2>1, <2>2, <3>4, Sizes
  <2>3. CASE ~ (mem - size0 < HDR)
    <3>1. left * SECTOR < m * SECTOR
      BY <1>1, <1>2, <1>3, <1>5, <2>1, <2>3, Sizes
    <3>2. left + 1 <= m
      BY <1>3, <3>1, Sizes, Multiples
    <3>3. (left + 1) * SECTOR <= m * SECTOR
      BY <2>1, <3>2, Sizes, Multiples
    <3> QED BY <1>2, <1>5, <2>1, <2>3, <3>3, Sizes
  <2> QED BY <2>2, <2>3
<1> QED BY <1>3, <1>4, <1>5

-----------------------------------------------------------------------------
(* Pictures *)

\* A row has room for its pixels, and the pages for all rows.
LEMMA PictureSizes ==
  ASSUME NEW f \in PictureHeaders
  PROVE  /\ f.w \in Nat \ {0} /\ f.h \in Nat \ {0} /\ f.off \in Nat /\ f.size \in Nat
         /\ row_size(f) \in Nat /\ 3 * f.w <= row_size(f)
         /\ img_size(f) \in Nat /\ img_size(f) = row_size(f) * f.h
         /\ size(f) \in Nat /\ size(f) <= img_size(f)
         /\ \A k \in Nat : k < img_size(f) => (k < size(f) <=> f.off + k < f.size)
<1>1. f.w \in Nat \ {0} /\ f.h \in Nat \ {0} /\ f.off \in Nat /\ f.size \in Nat
  BY DEF PictureHeaders
<1>2. row_size(f) \in Nat /\ 3 * f.w <= row_size(f)
  <2>1. f.w * 3 \in Nat /\ 4 \in Nat \ {0}
    BY <1>1
  <2>2. f.w * 3 <= RoundUp(f.w * 3, 4) * 4 /\ RoundUp(f.w * 3, 4) * 4 \in Nat
    BY <2>1, RoundUpIs
  <2>3. f.w * 3 = 3 * f.w
    BY <1>1
  <2>4. row_size(f) = RoundUp(f.w * 3, 4) * 4
    BY DEF row_size
  <2> QED BY <2>2, <2>3, <2>4
<1>3. img_size(f) \in Nat /\ img_size(f) = row_size(f) * f.h
  BY <1>1, <1>2 DEF img_size
<1> DEFINE m == IF img_size(f) <= f.size - f.off THEN img_size(f) ELSE f.size - f.off
<1>4. Min({img_size(f), f.size - f.off}) = m /\ m \in Int
  <2>1. img_size(f) \in Int /\ f.size - f.off \in Int
    BY <1>1, <1>3
  <2> QED BY <2>1, MinOfTwo
<1>5. size(f) = IF 0 >= m THEN 0 ELSE m
  <2> HIDE DEF m
  <2>1. size(f) = Max({0, m})
    BY <1>4, Zenon DEF size
  <2>2. 0 \in Int
    OBVIOUS
  <2> QED BY <1>4, <2>1, <2>2, MaxOfTwo
<1> QED BY <1>1, <1>2, <1>3, <1>5

-----------------------------------------------------------------------------
(* The steps *)

LEMMA InitIInv == Init => IInv
<1> SUFFICES ASSUME Init PROVE IInv
  OBVIOUS
<1>1. 0 \in Nat /\ <<0, 0>> \in Nat \X Nat
  BY Sizes
<1>2. Control
  BY <1>1 DEF Init, Control, Stages, Loaded
<1>3. PagesInv /\ Untouched /\ ProgramInv /\ PictureInv
  BY DEF Init, PagesInv, Untouched, ProgramInv, PictureInv, Loaded
<1>4. PagesReturned /\ PictureExact
  BY DEF Init, PagesReturned, PictureExact
<1> QED BY <1>2, <1>3, <1>4 DEF IInv

\* An operation that ends with the pages it had, and with a picture that is
\* exact or none.
LEMMA Ended ==
  ASSUME pc' = "done", live' = before', dest' \in Nat, at' \in Nat \X Nat,
         status' # "0" \/ PictureExact'
  PROVE  IInv'
<1>1. Control'
  BY DEF Control, Stages, Loaded
<1>2. PagesInv' /\ Untouched' /\ ProgramInv' /\ PictureInv'
  BY DEF PagesInv, Untouched, ProgramInv, PictureInv, Loaded
<1>3. PagesReturned' /\ PictureExact'
  BY DEF PagesReturned, PictureExact
<1> QED BY <1>1, <1>2, <1>3 DEF IInv

LEMMA ReturnedIInv == IInv /\ Returned => IInv'
<1> SUFFICES ASSUME IInv, Returned PROVE IInv'
  OBVIOUS
<1>1. 0 \in Nat /\ <<0, 0>> \in Nat \X Nat
  BY Sizes
<1>2. Control'
  BY <1>1 DEF Returned, Control, Stages, Loaded
<1>3. PagesInv' /\ Untouched' /\ ProgramInv' /\ PictureInv'
  BY DEF Returned, PagesInv, Untouched, ProgramInv, PictureInv, Loaded
<1>4. PagesReturned' /\ PictureExact'
  BY DEF Returned, PagesReturned, PictureExact
<1> QED BY <1>2, <1>3, <1>4 DEF IInv

\* An operation begins: nothing is written, and all pages are those of before.
LEMMA Begun ==
  ASSUME IInv, NEW f, Begin(f), at' \in Nat \X Nat
  PROVE  /\ file' = f /\ live' = before' /\ copied' = 0 /\ wrote' = Nothing
         /\ dest' \in Nat
  BY DEF IInv, Control, Untouched, Begin, pages

LEMMA execIInv ==
  ASSUME IInv, NEW f \in AllFiles, exec(f) PROVE IInv'
<1>1. Begin(f) /\ at' = at /\ at' \in Nat \X Nat
  BY DEF exec, IInv, Control
<1>2. /\ file' = f /\ live' = before' /\ copied' = 0 /\ wrote' = Nothing
      /\ dest' \in Nat
  BY <1>1, Begun
<1>3. ASSUME NEW code \in HeaderErrors(f), Return(code) PROVE IInv'
  <2>1. pc' = "done" /\ status' # "0"
    BY <1>3 DEF HeaderErrors, Return
  <2> QED BY <1>1, <1>2, <2>1, Ended
<1>4. CASE f \in Programs /\ Goto("place")
  <2>1. pc' = "place"
    BY <1>4 DEF Goto
  <2>2. Control'
    BY <1>1, <1>2, <1>4, <2>1 DEF Control, Stages, Loaded
  <2>3. PagesInv' /\ Untouched' /\ ProgramInv' /\ PictureInv'
    BY <1>2, <2>1 DEF PagesInv, Untouched, ProgramInv, PictureInv, Loaded
  <2>4. PagesReturned' /\ PictureExact'
    BY <2>1 DEF PagesReturned, PictureExact
  <2> QED BY <2>2, <2>3, <2>4 DEF IInv
<1> QED BY <1>3, <1>4 DEF exec

LEMMA HeadersAre ==
  ASSUME NEW f \in AllFiles, f # NoFile, NEW p \in Headers(f)
  PROVE  p \in PictureHeaders
<1>1. Pictures \subseteq PictureHeaders /\ f.size \in Nat
  BY LoaderAssumption DEF PictureHeaders, AllFiles
<1>2. CASE f.size >= BMPHDR
  BY <1>1, <1>2 DEF Headers
<1>3. CASE ~ (f.size >= BMPHDR)
  <2>1. PICK q \in Pictures : p = [q EXCEPT !.size = f.size]
    BY <1>3 DEF Headers
  <2>2. q \in PictureHeaders
    BY <1>1
  <2> QED BY <1>1, <2>1, <2>2 DEF PictureHeaders
<1> QED BY <1>2, <1>3

LEMMA fblogoIInv ==
  ASSUME IInv, NEW f \in AllFiles, NEW place \in Places, fblogo(f, place) PROVE IInv'
<1>1. at' \in Nat \X Nat
  BY LoaderAssumption DEF fblogo
<1>2. ASSUME NEW p, NEW code, Begin(p), Return(code), code # "0" PROVE IInv'
  <2>1. pc' = "done" /\ status' # "0"
    BY <1>2 DEF Return
  <2>2. live' = before' /\ dest' \in Nat
    BY <1>1, <1>2, Begun
  <2> QED BY <1>1, <2>1, <2>2, Ended
<1>3. ASSUME f # NoFile, NEW p \in Headers(f), Begin(p), Goto("logo") PROVE IInv'
  <2>1. pc' = "logo"
    BY <1>3 DEF Goto
  <2>2. /\ file' = p /\ live' = before' /\ copied' = 0 /\ wrote' = Nothing
        /\ dest' \in Nat
    BY <1>1, <1>3, Begun
  <2>3. p \in PictureHeaders
    BY <1>3, HeadersAre
  <2>4. Control'
    BY <1>1, <2>1, <2>2, <2>3 DEF Control, Stages, Loaded
  <2>5. PagesInv' /\ Untouched' /\ ProgramInv' /\ PictureInv'
    BY <2>1, <2>2 DEF PagesInv, Untouched, ProgramInv, PictureInv, Loaded
  <2>6. PagesReturned' /\ PictureExact'
    BY <2>1 DEF PagesReturned, PictureExact
  <2> QED BY <2>4, <2>5, <2>6 DEF IInv
<1>4. "-1" # "0" /\ "-2" # "0" /\ "-3" # "0" /\ "-4" # "0"
  OBVIOUS
<1> QED BY <1>2, <1>3, <1>4 DEF fblogo

LEMMA PlaceFixedIInv == IInv /\ PlaceFixed => IInv'
<1> SUFFICES ASSUME IInv, PlaceFixed PROVE IInv'
  OBVIOUS
<1>1. /\ pc = "place" /\ pc' = "first" /\ file.loadAddr # 0 /\ dest' = file.loadAddr
      /\ UNCHANGED <<status, file, copied, wrote, at, live, before>>
  BY DEF PlaceFixed, Goto, pages
<1>2. file \in Programs /\ dest' \in Nat
  BY <1>1, MemSizeIs DEF IInv, Control
<1>3. Control'
  BY <1>1, <1>2 DEF IInv, Control, Stages, Loaded
<1>4. PagesInv' /\ Untouched' /\ ProgramInv' /\ PictureInv'
  BY <1>1 DEF IInv, PagesInv, Untouched, ProgramInv, PictureInv, Loaded
<1>5. PagesReturned' /\ PictureExact'
  BY <1>1 DEF PagesReturned, PictureExact
<1> QED BY <1>3, <1>4, <1>5 DEF IInv

\* pmm_alloc is called: for the program, or for the picture.
LEMMA PlaceAnywhereIInv == IInv /\ PlaceAnywhere => IInv'
<1> SUFFICES ASSUME IInv, PlaceAnywhere PROVE IInv'
  OBVIOUS
<1> DEFINE n == RoundUp(memSize(file), PAGE)
<1>1. pc = "place" /\ file.loadAddr = 0 /\ pmm_alloc(n, "exec_alloc", "ERR_OOM")
  BY DEF PlaceAnywhere
<1> HIDE DEF n
<1>2. UNCHANGED <<file, dest, copied, wrote, at, before, live>>
  BY <1>1 DEF pmm_alloc, loading, pages, PA!Request
<1>3. CASE n = 0 /\ Return("ERR_OOM")
  BY <1>1, <1>2, <1>3, Ended DEF Return, IInv, Control, PagesInv
<1>4. CASE PA!Request(n) /\ Goto("exec_alloc")
  <2>1. pc' = "exec_alloc" /\ pending' = n
    BY <1>4 DEF Goto, PA!Request
  <2>2. Control'
    BY <1>1, <1>2, <2>1 DEF IInv, Control, Stages, Loaded
  <2>3. Untouched' /\ ProgramInv' /\ PictureInv'
    BY <1>1, <1>2, <2>1 DEF IInv, Untouched, ProgramInv, PictureInv
  <2>4. PagesInv'
    BY <1>1, <1>2, <2>1 DEF n, IInv, PagesInv, memSize, Loaded
  <2>5. PagesReturned' /\ PictureExact'
    BY <2>1 DEF PagesReturned, PictureExact
  <2> QED BY <2>2, <2>3, <2>4, <2>5 DEF IInv
<1> QED BY <1>1, <1>3, <1>4 DEF pmm_alloc

LEMMA LogoPagesIInv == IInv /\ LogoPages => IInv'
<1> SUFFICES ASSUME IInv, LogoPages PROVE IInv'
  OBVIOUS
<1> DEFINE n == RoundUp(img_size(file), PAGE)
<1>1. pc = "logo" /\ pmm_alloc(n, "logo_alloc", "-6")
  BY DEF LogoPages
<1> HIDE DEF n
<1>2. UNCHANGED <<file, dest, copied, wrote, at, before, live>>
  BY <1>1 DEF pmm_alloc, loading, pages, PA!Request
<1>3. CASE n = 0 /\ Return("-6")
  BY <1>1, <1>2, <1>3, Ended DEF Return, IInv, Control, PagesInv
<1>4. CASE PA!Request(n) /\ Goto("logo_alloc")
  <2>1. pc' = "logo_alloc" /\ pending' = n
    BY <1>4 DEF Goto, PA!Request
  <2>2. Control'
    BY <1>1, <1>2, <2>1 DEF IInv, Control, Stages, Loaded
  <2>3. Untouched' /\ ProgramInv' /\ PictureInv'
    BY <1>1, <1>2, <2>1 DEF IInv, Untouched, ProgramInv, PictureInv
  <2>4. PagesInv'
    BY <1>1, <1>2, <2>1 DEF n, IInv, PagesInv, img_size, row_size, Loaded
  <2>5. PagesReturned' /\ PictureExact'
    BY <2>1 DEF PagesReturned, PictureExact
  <2> QED BY <2>2, <2>3, <2>4, <2>5 DEF IInv
<1> QED BY <1>1, <1>3, <1>4 DEF pmm_alloc

\* A run that is granted was not held by anybody.
LEMMA GrantIsNew ==
  ASSUME NEW s \in Int, NEW n \in Nat, n # 0, PA!FreeRun(s, n)
  PROVE  [start |-> s, n |-> n] \notin live
<1> DEFINE r == [start |-> s, n |-> n]
<1> SUFFICES ASSUME r \in live PROVE FALSE
  OBVIOUS
<1>1. s \in PA!Span(s, n)
  BY DEF PA!Span
<1>2. r.start = s /\ r.n = n
  OBVIOUS
<1>3. s \in PA!Held
  BY <1>1, <1>2 DEF PA!Held
<1> QED BY <1>1, <1>3 DEF PA!FreeRun

LEMMA GrantedIInv ==
  ASSUME IInv, NEW s \in 0 .. max_pages - 1, Granted(s) PROVE IInv'
<1>1. s \in Nat /\ PAGE \in Nat \ {0}
  BY LoaderAssumption
<1>2. s * PAGE \in Nat /\ (s * PAGE) % PAGE = 0 /\ (s * PAGE) \div PAGE = s
  BY <1>1
<1>3. /\ pc \in {"exec_alloc", "logo_alloc"} /\ dest' = s * PAGE
      /\ pc' = IF pc = "exec_alloc" THEN "first" ELSE "logo_read"
      /\ UNCHANGED <<status, file, copied, wrote, at, before>>
      /\ live' = live \cup {[start |-> s, n |-> pending]}
      /\ pending # 0 /\ PA!FreeRun(s, pending) /\ live = before
  BY DEF Granted, Goto, PA!Grant, IInv, PagesInv
<1>4. Control'
  BY <1>2, <1>3 DEF IInv, Control, Stages, Loaded
<1>5. Untouched' /\ ProgramInv'
  BY <1>3 DEF IInv, Untouched, ProgramInv
<1>6. PictureInv'
  <2> SUFFICES ASSUME pc = "logo_alloc" PROVE PictureInv'
    BY <1>3 DEF PictureInv
  <2>1. copied' = 0 /\ wrote' = Nothing /\ file' \in PictureHeaders
    BY <1>3, <1>4 DEF IInv, Untouched, Control
  <2>2. DOMAIN Nothing = {} /\ dest' .. dest' + 0 - 1 = {} /\ 0 .. 0 - 1 = {}
    BY <1>2, <1>3 DEF Nothing
  <2>3. size(file') \in Nat
    BY <2>1, PictureSizes
  <2>4. size(file)' = size(file')
    BY DEF size, img_size, row_size
  <2> QED BY <2>1, <2>2, <2>3, <2>4 DEF PictureInv
<1>7. PagesInv'
  <2>1. pending \in Nat
    <3>1. CASE pc = "exec_alloc"
      <4>1. file \in Programs /\ pending = RoundUp(memSize(file), PAGE)
        BY <3>1 DEF IInv, Control, PagesInv
      <4>2. memSize(file) \in Nat
        BY <4>1, MemSizeIs
      <4> QED BY <1>1, <4>1, <4>2, RoundUpIs
    <3>2. CASE pc = "logo_alloc"
      <4>1. file \in PictureHeaders /\ pending = RoundUp(img_size(file), PAGE)
        BY <3>2 DEF IInv, Control, PagesInv
      <4>2. img_size(file) \in Nat
        BY <4>1, PictureSizes
      <4> QED BY <1>1, <4>1, <4>2, RoundUpIs
    <3> QED BY <1>3, <3>1, <3>2
  <2>2. [start |-> s, n |-> pending] \notin before
    BY <1>1, <1>3, <2>1, GrantIsNew
  <2>3. pc = "exec_alloc" => Run(file)' = [start |-> s, n |-> pending]
    BY <1>2, <1>3 DEF Run, memSize, IInv, PagesInv
  <2>4. pc = "logo_alloc" => LogoRun' = [start |-> s, n |-> pending]
    BY <1>2, <1>3 DEF LogoRun, img_size, row_size, IInv, PagesInv
  <2>5. pc = "exec_alloc" => file'.loadAddr = 0
    BY <1>3 DEF IInv, PagesInv
  <2> QED BY <1>3, <2>2, <2>3, <2>4, <2>5 DEF PagesInv, Owns, Loaded
<1>8. PagesReturned' /\ PictureExact'
  BY <1>3 DEF PagesReturned, PictureExact
<1> QED BY <1>4, <1>5, <1>6, <1>7, <1>8 DEF IInv

LEMMA RefusedIInv == IInv /\ Refused => IInv'
<1> SUFFICES ASSUME IInv, Refused PROVE IInv'
  OBVIOUS
<1>1. pc \in {"exec_alloc", "logo_alloc"} /\ live = before /\ UNCHANGED <<dest, at, before, live>>
  BY DEF Refused, loading, PA!Refuse, IInv, PagesInv
<1>2. pc' = "done" /\ status' # "0"
  BY DEF Refused, Return
<1> QED BY <1>1, <1>2, Ended DEF IInv, Control

\* Bytes of the program go to their places, beside those that are there.
LEMMA WriteIs ==
  ASSUME NEW from \in Int, NEW to \in Int, Write(from, to), dest \in Nat, file \in Programs,
         \A a \in DOMAIN wrote : wrote[a] = Byte(file, a - dest)
  PROVE  /\ DOMAIN wrote' = (dest + from .. dest + to - 1) \cup DOMAIN wrote
         /\ \A a \in DOMAIN wrote' : wrote'[a] = Byte(file, a - dest)
<1> DEFINE D == dest + from .. dest + to - 1
           bytes == [a \in D |-> IF a - dest < file.fileSize THEN Image(a - dest) ELSE Zero]
<1>1. DOMAIN bytes = D /\ \A a \in D : bytes[a] = Byte(file, a - dest)
  BY DEF Byte
<1>2. memcpy(bytes)
  BY DEF Write
<1> HIDE DEF bytes, D
<1>3. wrote' = [a \in D \cup DOMAIN wrote |-> IF a \in D THEN bytes[a] ELSE wrote[a]]
  BY <1>1, <1>2 DEF memcpy
<1>4. DOMAIN wrote' = D \cup DOMAIN wrote
  BY <1>3
<1>5. ASSUME NEW a \in DOMAIN wrote' PROVE wrote'[a] = Byte(file, a - dest)
  BY <1>1, <1>3, <1>4, <1>5
<1> QED BY <1>4, <1>5 DEF D

LEMMA FirstChunkIInv == IInv /\ FirstChunk => IInv'
<1> SUFFICES ASSUME IInv, FirstChunk PROVE IInv'
  OBVIOUS
<1> DEFINE n == Min({file.fileSize, SECTOR - HDR})
<1>1. /\ pc = "first" /\ Write(0, n) /\ copied' = n
      /\ pc' = IF n < file.fileSize THEN "rest" ELSE "clear"
      /\ UNCHANGED <<file, dest, at, live, before, status>>
  BY DEF FirstChunk, Goto, pages
<1>2. /\ file \in Programs /\ file.fileSize \in Nat /\ dest \in Nat /\ wrote = Nothing
  BY <1>1, MemSizeIs DEF IInv, Control, Untouched, Loaded
<1>3. n = Chunk(file)
  <2>1. SECTOR - HDR \in Int /\ file.fileSize \in Int
    BY <1>2, Sizes
  <2> QED BY <2>1, MinOfTwo DEF Chunk
<1> HIDE DEF n
<1>4. n \in Nat /\ n <= file.fileSize
  BY <1>2, <1>3, ReachIs
<1>5. /\ DOMAIN wrote' = (dest + 0 .. dest + n - 1) \cup DOMAIN wrote
      /\ \A a \in DOMAIN wrote' : wrote'[a] = Byte(file, a - dest)
  <2>1. \A a \in DOMAIN wrote : wrote[a] = Byte(file, a - dest)
    BY <1>2 DEF Nothing
  <2>2. 0 \in Int /\ n \in Int
    BY <1>4
  <2> QED BY <1>1, <1>2, <2>1, <2>2, WriteIs
<1>6. DOMAIN wrote' = dest .. dest + n - 1
  BY <1>2, <1>5 DEF Nothing
<1>7. Control'
  BY <1>1 DEF IInv, Control, Stages, Loaded
<1>8. PagesInv'
  BY <1>1 DEF IInv, PagesInv, Loaded, Owns, Run, memSize
<1>9. ProgramInv'
  <2>1. pc' = "clear" => Reach(file) = n
    BY <1>1, <1>2, <1>3, <1>4 DEF Reach
  <2>2. pc' \in {"rest", "clear"} /\ (pc' = "rest" => n < file.fileSize)
    BY <1>1
  <2> QED BY <1>1, <1>3, <1>5, <1>6, <2>1, <2>2 DEF ProgramInv
<1>10. Untouched' /\ PictureInv' /\ PagesReturned' /\ PictureExact'
  BY <1>1 DEF Untouched, PictureInv, PagesReturned, PictureExact
<1> QED BY <1>7, <1>8, <1>9, <1>10 DEF IInv

LEMMA ReadRestIInv == IInv /\ ReadRest => IInv'
<1> SUFFICES ASSUME IInv, ReadRest PROVE IInv'
  OBVIOUS
<1> DEFINE c == Chunk(file)
           n == (RoundUp(file.fileSize - c, SECTOR) % COUNT) * SECTOR
<1>1. /\ pc = "rest" /\ pc' = "clear" /\ Write(copied, copied + (sectors % COUNT) * SECTOR)
      /\ UNCHANGED <<file, dest, copied, at, live, before, status>>
  BY DEF ReadRest, Goto, pages
<1>2. /\ file \in Programs /\ dest \in Nat /\ copied = c /\ c < file.fileSize
      /\ DOMAIN wrote = dest .. dest + c - 1
      /\ \A a \in DOMAIN wrote : wrote[a] = Byte(file, a - dest)
  BY <1>1 DEF IInv, Control, ProgramInv, Loaded
<1>3. (sectors % COUNT) * SECTOR = n
  BY <1>2 DEF sectors
<1>4. c \in Nat /\ n \in Nat /\ Reach(file) = c + n
  <2>1. Reach(file) = c + n
    BY <1>2 DEF Reach
  <2>2. c \in Nat /\ RoundUp(file.fileSize - c, SECTOR) \in Nat
    BY <1>2, ReachIs
  <2>3. RoundUp(file.fileSize - c, SECTOR) % COUNT \in Nat
    BY <2>2, Sizes
  <2>4. n \in Nat
    BY <2>3, Sizes
  <2> QED BY <2>1, <2>2, <2>4
<1> HIDE DEF c, n
<1>5. /\ DOMAIN wrote' = (dest + c .. dest + (c + n) - 1) \cup DOMAIN wrote
      /\ \A a \in DOMAIN wrote' : wrote'[a] = Byte(file, a - dest)
  <2>1. c \in Int /\ c + n \in Int /\ Write(c, c + n)
    BY <1>1, <1>2, <1>3, <1>4
  <2> QED BY <1>2, <2>1, WriteIs
<1>6. DOMAIN wrote' = dest .. dest + Reach(file) - 1
  BY <1>2, <1>4, <1>5
<1>7. Control'
  BY <1>1 DEF IInv, Control, Stages, Loaded
<1>8. PagesInv'
  BY <1>1 DEF IInv, PagesInv, Loaded, Owns, Run, memSize
<1>9. ProgramInv'
  BY <1>1, <1>2, <1>5, <1>6 DEF ProgramInv, c
<1>10. Untouched' /\ PictureInv' /\ PagesReturned' /\ PictureExact'
  BY <1>1 DEF Untouched, PictureInv, PagesReturned, PictureExact
<1> QED BY <1>7, <1>8, <1>9, <1>10 DEF IInv

LEMMA ReadRestFailsIInv == IInv /\ ReadRestFails => IInv'
<1> SUFFICES ASSUME IInv, ReadRestFails PROVE IInv'
  OBVIOUS
<1>1. /\ pc = "rest" /\ pc' = "done" /\ status' = "ERR_IO"
      /\ UNCHANGED <<file, dest, at, live, before>>
  BY DEF ReadRestFails, Return, pages
<1>2. Control'
  BY <1>1 DEF IInv, Control, Stages, Loaded
<1>3. PagesInv' /\ Untouched' /\ ProgramInv' /\ PictureInv' /\ PictureExact'
  BY <1>1 DEF PagesInv, Untouched, ProgramInv, PictureInv, PictureExact, Loaded
<1>4. PagesReturned'
  <2>1. Run(file)' = Run(file)
    BY <1>1 DEF Run, memSize
  <2>2. IF file.loadAddr = 0 THEN live = before \cup {Run(file)} ELSE live = before
    BY <1>1 DEF IInv, PagesInv, Loaded, Owns
  <2> QED BY <1>1, <2>1, <2>2 DEF PagesReturned
<1> QED BY <1>2, <1>3, <1>4 DEF IInv

LEMMA StartIInv == IInv /\ Start => IInv'
<1> SUFFICES ASSUME IInv, Start PROVE IInv'
  OBVIOUS
<1>1. /\ pc = "clear" /\ pc' = "running" /\ status' = "ERR_SUCCESS"
      /\ Write(file.fileSize, memSize(file))
      /\ UNCHANGED <<file, dest, copied, at, live, before>>
  BY DEF Start, pages
<1>2. /\ file \in Programs /\ dest \in Nat /\ copied = Chunk(file)
      /\ DOMAIN wrote = dest .. dest + Reach(file) - 1
      /\ \A a \in DOMAIN wrote : wrote[a] = Byte(file, a - dest)
      /\ file.fileSize \in Int /\ memSize(file) \in Int
  BY <1>1, MemSizeIs DEF IInv, Control, ProgramInv, Loaded
<1>3. /\ DOMAIN wrote' = (dest + file.fileSize .. dest + memSize(file) - 1) \cup DOMAIN wrote
      /\ \A a \in DOMAIN wrote' : wrote'[a] = Byte(file, a - dest)
  BY <1>1, <1>2, WriteIs
<1>4. Control'
  BY <1>1 DEF IInv, Control, Stages, Loaded
<1>5. PagesInv'
  BY <1>1 DEF IInv, PagesInv, Loaded, Owns, Run, memSize
<1>6. memSize(file)' = memSize(file)
  BY <1>1 DEF memSize
<1>7. ProgramInv'
  BY <1>1, <1>2, <1>3, <1>6 DEF ProgramInv
<1>8. Untouched' /\ PictureInv' /\ PagesReturned' /\ PictureExact'
  BY <1>1 DEF Untouched, PictureInv, PagesReturned, PictureExact
<1> QED BY <1>4, <1>5, <1>7, <1>8 DEF IInv

LEMMA SyscallIInv ==
  ASSUME IInv, NEW num \in 0 .. 2, Syscall(num) PROVE IInv'
<1>1. pc = "running" /\ UNCHANGED <<pc, file, dest, copied, wrote, status, at, live, before>>
  BY Zenon DEF Syscall, loading, pages
<1>2. Control'
  BY <1>1 DEF IInv, Control
<1>3. PagesInv'
  BY <1>1 DEF IInv, PagesInv, Loaded, Owns, Run, memSize
<1>4. ProgramInv'
  BY <1>1 DEF IInv, ProgramInv, memSize
<1>5. Untouched' /\ PictureInv' /\ PagesReturned' /\ PictureExact'
  BY <1>1 DEF Untouched, PictureInv, PagesReturned, PictureExact
<1> QED BY <1>2, <1>3, <1>4, <1>5 DEF IInv

LEMMA ProgramReturnsIInv == IInv /\ ProgramReturns => IInv'
<1> SUFFICES ASSUME IInv, ProgramReturns PROVE IInv'
  OBVIOUS
<1>1. pc = "running" /\ pc' = "done" /\ status' = "ERR_SUCCESS" /\ UNCHANGED <<dest, at, before>>
  BY DEF ProgramReturns, Goto, loading, IInv, Control
<1>2. live' = before
  <2>1. CASE file.loadAddr = 0
    <3>1. live' = live \ {Run(file)} /\ live = before \cup {Run(file)} /\ Run(file) \notin before
      BY <1>1, <2>1 DEF ProgramReturns, PA!Release, IInv, PagesInv, Owns, Loaded
    <3> QED BY <3>1
  <2>2. CASE file.loadAddr # 0
    BY <1>1, <2>2 DEF ProgramReturns, pages, IInv, PagesInv, Loaded
  <2> QED BY <2>1, <2>2
<1> QED BY <1>1, <1>2, Ended DEF IInv, Control

LEMMA LogoFailsIInv == IInv /\ LogoFails => IInv'
<1> SUFFICES ASSUME IInv, LogoFails PROVE IInv'
  OBVIOUS
<1>1. pc = "logo_read" /\ pc' = "done" /\ status' # "0" /\ UNCHANGED <<dest, at, before>>
  BY DEF LogoFails, Return, loading
<1>2. live' = live \ {LogoRun} /\ live = before \cup {LogoRun} /\ LogoRun \notin before
  BY <1>1 DEF LogoFails, PA!Release, IInv, PagesInv, Owns
<1>3. live' = before
  BY <1>2
<1> QED BY <1>1, <1>3, Ended DEF IInv, Control

\* Where a sector of the picture begins in the file, and where it ends.
LEMMA SectorIs ==
  ASSUME NEW o \in Nat, NEW left \in Nat, left > 0
  PROVE  /\ (o \div SECTOR) * SECTOR + (o % SECTOR) = o /\ o % SECTOR \in 0 .. SECTOR - 1
         /\ LET n == IF SECTOR - (o % SECTOR) <= left THEN SECTOR - (o % SECTOR) ELSE left
            IN n \in Nat /\ n <= left /\ (n = left \/ (o + n) % SECTOR = 0)
<1> DEFINE so == o % SECTOR
           q == o \div SECTOR
           n == IF SECTOR - so <= left THEN SECTOR - so ELSE left
<1>1. q \in Nat /\ so \in 0 .. SECTOR - 1 /\ o = q * SECTOR + so
  BY Sizes, Division
<1> HIDE DEF so, q
<1>2. q * SECTOR \in Nat /\ q * SECTOR + SECTOR = (q + 1) * SECTOR
  BY <1>1, Sizes
<1>3. n \in Nat /\ n <= left
  BY <1>1, Sizes
<1>4. n = left \/ (o + n) % SECTOR = 0
  <2>1. CASE SECTOR - so <= left
    <3>1. o + n = q * SECTOR + SECTOR
      BY <1>1, <1>2, <2>1, Sizes
    <3>2. ((q + 1) * SECTOR) % SECTOR = 0
      BY <1>1, Sizes
    <3> HIDE DEF n
    <3> QED BY <1>2, <3>1, <3>2
  <2>2. CASE ~ (SECTOR - so <= left)
    BY <2>2
  <2> QED BY <2>1, <2>2
<1> QED BY <1>1, <1>3, <1>4 DEF so, q

LEMMA LogoSectorIInv == IInv /\ LogoSector => IInv'
<1> SUFFICES ASSUME IInv, LogoSector PROVE IInv'
  OBVIOUS
<1> DEFINE off == file.off
           c == copied
           z == size(file)
           so == IF c = 0 THEN off % SECTOR ELSE 0
           q == (off + c) \div SECTOR
           n == Min({SECTOR - so, z - c})
           D == dest + c .. dest + c + n - 1
           bytes == [a \in D |-> Image(q * SECTOR + so + (a - dest - c))]
<1>1. /\ pc = "logo_read" /\ pc' = "logo_read" /\ c < z /\ memcpy(bytes) /\ copied' = c + n
      /\ UNCHANGED <<file, dest, at, live, before, status>>
  BY DEF LogoSector, Goto, pages
<1>2. file \in PictureHeaders /\ off \in Nat /\ z \in Nat /\ dest \in Nat
  BY <1>1, PictureSizes DEF IInv, Control
<1>3. /\ c \in Nat /\ (c = 0 \/ c = z \/ (off + c) % SECTOR = 0)
      /\ DOMAIN wrote = dest .. dest + c - 1
      /\ \A k \in 0 .. c - 1 : wrote[dest + k] = Image(off + k)
  BY <1>1 DEF IInv, PictureInv
<1>4. c # z
  BY <1>1, <1>2, <1>3
<1>5. /\ q * SECTOR + so = off + c
      /\ n \in Nat /\ c + n <= z /\ so \in Nat
      /\ c + n = z \/ (off + (c + n)) % SECTOR = 0
  <2>1. off \in Nat /\ c \in Nat /\ z \in Nat /\ c < z /\ (c = 0 \/ (off + c) % SECTOR = 0)
    BY <1>1, <1>2, <1>3, <1>4
  <2>2. so = (off + c) % SECTOR /\ q = (off + c) \div SECTOR
    <3>1. c = 0 => off + c = off
      BY <2>1
    <3> HIDE DEF off, c
    <3> QED BY <2>1, <3>1
  <2> HIDE DEF off, c, z, so, q
  <2>3. n = Min({SECTOR - so, z - c})
    OBVIOUS
  <2> HIDE DEF n
  <2>4. off + c \in Nat /\ z - c \in Nat /\ z - c > 0
    BY <2>1
  <2>5. q * SECTOR + so = off + c /\ so \in 0 .. SECTOR - 1
    BY <2>2, <2>4, SectorIs
  <2>6. n = IF SECTOR - so <= z - c THEN SECTOR - so ELSE z - c
    <3>1. SECTOR - so \in Int /\ z - c \in Int
      BY <2>4, <2>5, Sizes
    <3> QED BY <2>3, <3>1, MinOfTwo
  <2>7. n \in Nat /\ n <= z - c /\ (n = z - c \/ ((off + c) + n) % SECTOR = 0)
    BY <2>2, <2>4, <2>6, SectorIs
  <2>8. (off + c) + n = off + (c + n)
    BY <2>1, <2>7
  <2>9. c + n <= z /\ (n = z - c => c + n = z) /\ so \in Nat
    BY <2>1, <2>5, <2>7
  <2> QED BY <2>5, <2>7, <2>8, <2>9
<1>6. DOMAIN bytes = D /\ \A a \in D : bytes[a] = Image(q * SECTOR + so + (a - dest - c))
  OBVIOUS
<1> HIDE DEF bytes, n, q, so, off, z, c
<1>7. D = dest + c .. dest + c + n - 1
  OBVIOUS
<1> HIDE DEF D
<1>8. wrote' = [a \in D \cup DOMAIN wrote |-> IF a \in D THEN bytes[a] ELSE wrote[a]]
  BY <1>1, <1>6 DEF memcpy
<1>9. DOMAIN wrote' = dest .. dest + (c + n) - 1
  <2>1. DOMAIN wrote' = D \cup DOMAIN wrote
    BY <1>8
  <2> QED BY <1>2, <1>3, <1>5, <1>7, <2>1
<1>10. ASSUME NEW k \in 0 .. (c + n) - 1 PROVE wrote'[dest + k] = Image(off + k)
  <2>1. CASE k < c
    <3>1. k \in 0 .. c - 1 /\ dest + k \notin D /\ dest + k \in DOMAIN wrote
      BY <1>2, <1>3, <1>5, <1>7, <2>1
    <3> QED BY <1>3, <1>8, <3>1
  <2>2. CASE ~ (k < c)
    <3>1. dest + k \in D
      BY <1>2, <1>3, <1>5, <1>7, <2>2
    <3>2. wrote'[dest + k] = Image(q * SECTOR + so + ((dest + k) - dest - c))
      BY <1>6, <1>8, <3>1
    <3>3. q * SECTOR + so + ((dest + k) - dest - c) = off + k
      BY <1>2, <1>3, <1>5
    <3> QED BY <3>2, <3>3
  <2> QED BY <2>1, <2>2
<1>11. Control'
  BY <1>1 DEF IInv, Control, Loaded
<1>12. PagesInv'
  BY <1>1 DEF IInv, PagesInv, Loaded, Owns, LogoRun, img_size, row_size
<1>13. PictureInv'
  <2>1. size(file)' = z
    BY <1>1 DEF size, img_size, row_size, z
  <2>2. c + n \in Nat
    BY <1>3, <1>5
  <2> QED BY <1>1, <1>5, <1>9, <1>10, <2>1, <2>2 DEF PictureInv, off
<1>14. Untouched' /\ ProgramInv' /\ PagesReturned' /\ PictureExact'
  BY <1>1 DEF Untouched, ProgramInv, PagesReturned, PictureExact
<1> QED BY <1>11, <1>12, <1>13, <1>14 DEF IInv

\* What fblogo finds in its memory when the file is read: the file's bytes, and
\* behind its end whatever was there.
LEMMA BufferIs ==
  ASSUME IInv, pc = "logo_read", copied = size(file), NEW k \in Nat, k < img_size(file)
  PROVE  Buffer(k) = IF file.off + k < file.size THEN Image(file.off + k) ELSE Stale
<1>1. /\ file \in PictureHeaders /\ dest \in Nat /\ copied \in Nat
      /\ DOMAIN wrote = dest .. dest + copied - 1
      /\ \A j \in 0 .. copied - 1 : wrote[dest + j] = Image(file.off + j)
  BY DEF IInv, Control, PictureInv
<1>2. k < copied <=> file.off + k < file.size
  BY <1>1, PictureSizes
<1>3. CASE k < copied
  <2>1. dest + k \in DOMAIN wrote /\ k \in 0 .. copied - 1
    BY <1>1, <1>3
  <2> QED BY <1>1, <1>2, <1>3, <2>1 DEF Buffer
<1>4. CASE ~ (k < copied)
  <2>1. dest + k \notin DOMAIN wrote
    BY <1>1, <1>4
  <2> QED BY <1>2, <1>4, <2>1 DEF Buffer
<1> QED BY <1>3, <1>4

\* A pixel of the picture lies in its memory.
LEMMA PixelIs ==
  ASSUME NEW f \in PictureHeaders, NEW row \in 0 .. f.h - 1, NEW col \in 0 .. f.w - 1,
         NEW c \in 0 .. 2
  PROVE  row * row_size(f) + 3 * col + c \in Nat /\ row * row_size(f) + 3 * col + c < img_size(f)
<1> DEFINE rs == row_size(f)
<1>1. f.w \in Nat /\ f.h \in Nat /\ rs \in Nat /\ 3 * f.w <= rs /\ img_size(f) = rs * f.h
  BY PictureSizes
<1> HIDE DEF rs
<1>2. row \in Nat /\ row * rs \in Nat /\ (row + 1) * rs = row * rs + rs
  BY <1>1
<1>3. (row + 1) * rs <= rs * f.h
  <2>1. row + 1 <= f.h
    BY <1>1
  <2> QED BY <1>1, <1>2, <2>1
<1>4. 3 * col + c < rs /\ 3 * col + c \in Nat
  BY <1>1
<1>5. row * rs + 3 * col + c = row * rs + (3 * col + c)
  BY <1>1, <1>2
<1>6. rs * f.h \in Nat
  BY <1>1
<1> QED BY <1>1, <1>2, <1>3, <1>4, <1>5, <1>6 DEF rs

LEMMA LogoDrawIInv == IInv /\ LogoDraw => IInv'
<1> SUFFICES ASSUME IInv, LogoDraw PROVE IInv'
  OBVIOUS
<1> DEFINE w == file.w
           h == file.h
           X == at[1]
           Y == at[2]
           rs == row_size(file)
           D == (X .. Min({FBW, X + w}) - 1) \X (Y .. Min({FBH, Y + h}) - 1)
           At(x, y) == (h - 1 - (y - Y)) * rs + 3 * (x - X)
<1>1. /\ pc = "logo_read" /\ pc' = "done" /\ status' = "0" /\ copied = size(file)
      /\ UNCHANGED <<file, dest, at, before>>
      /\ live' = live \ {LogoRun}
  BY DEF LogoDraw, Return, loading, PA!Release
<1>2. /\ file \in PictureHeaders /\ dest \in Nat /\ dest % PAGE = 0 /\ at \in Nat \X Nat
      /\ live = before \cup {LogoRun} /\ LogoRun \notin before
  BY <1>1 DEF IInv, Control, PagesInv, Owns
<1>3. live' = before'
  BY <1>1, <1>2
<1>4. w \in Nat /\ h \in Nat /\ X \in Nat /\ Y \in Nat /\ rs \in Nat /\ file.off \in Nat
  BY <1>2, PictureSizes
<1>5. shown' = [p \in D |-> <<Buffer(At(p[1], p[2])), Buffer(At(p[1], p[2]) + 1),
                              Buffer(At(p[1], p[2]) + 2)>>]
  BY DEF LogoDraw
<1>6. ASSUME NEW x \in 0 .. FBW - 1, NEW y \in 0 .. FBH - 1
      PROVE  <<x, y>> \in D <=> x - X \in 0 .. w - 1 /\ h - 1 - (y - Y) \in 0 .. h - 1
  <2>1. /\ Min({FBW, X + w}) = (IF FBW <= X + w THEN FBW ELSE X + w)
        /\ Min({FBH, Y + h}) = (IF FBH <= Y + h THEN FBH ELSE Y + h)
    <3>1. FBW \in Int /\ X + w \in Int /\ FBH \in Int /\ Y + h \in Int
      BY <1>4, Sizes
    <3> HIDE DEF w, h, X, Y
    <3> QED BY <3>1, MinOfTwo
  <2> HIDE DEF w, h, X, Y
  <2>2. x \in X .. Min({FBW, X + w}) - 1 <=> x - X \in 0 .. w - 1
    BY <1>4, <2>1, Sizes
  <2>3. y \in Y .. Min({FBH, Y + h}) - 1 <=> h - 1 - (y - Y) \in 0 .. h - 1
    BY <1>4, <2>1, Sizes
  <2> QED BY <2>2, <2>3
<1>7. ASSUME NEW x \in 0 .. FBW - 1, NEW y \in 0 .. FBH - 1, <<x, y>> \in D,
             NEW c \in 0 .. 2
      PROVE  LET o == file.off + (h - 1 - (y - Y)) * rs + 3 * (x - X) + c IN
             Buffer(At(x, y) + c) = IF o < file.size THEN Image(o) ELSE Stale
  <2> DEFINE row == h - 1 - (y - Y)
             col == x - X
             k == row * rs + 3 * col + c
  <2>1. row \in 0 .. h - 1 /\ col \in 0 .. w - 1
    BY <1>6, <1>7
  <2>2. k \in Nat /\ k < img_size(file)
    <3> HIDE DEF row, col
    <3> QED BY <1>2, <2>1, PixelIs
  <2>3. Buffer(k) = IF file.off + k < file.size THEN Image(file.off + k) ELSE Stale
    <3> HIDE DEF k
    <3> QED BY <1>1, <2>2, BufferIs
  <2>4. file.off + k = file.off + row * rs + 3 * col + c
    <3>1. row * rs \in Int /\ 3 * col \in Int
      <4> HIDE DEF row, col, rs
      <4> QED BY <1>4, <2>1
    <3> HIDE DEF row, col, rs
    <3> QED BY <1>4, <3>1
  <2>5. At(x, y) + c = k
    OBVIOUS
  <2> QED BY <2>3, <2>4, <2>5
<1>8. PictureExact'
  <2> SUFFICES ASSUME NEW x \in 0 .. FBW - 1, NEW y \in 0 .. FBH - 1
               PROVE  LET byte(c) == LET o == file.off + (h - 1 - (y - Y)) * rs + 3 * (x - X) + c
                                     IN IF o < file.size THEN Image(o) ELSE Stale
                      IN IF x - X \in 0 .. w - 1 /\ h - 1 - (y - Y) \in 0 .. h - 1
                         THEN /\ <<x, y>> \in DOMAIN shown'
                              /\ shown'[<<x, y>>] = <<byte(0), byte(1), byte(2)>>
                         ELSE <<x, y>> \notin DOMAIN shown'
    <3>1. file' = file /\ at' = at /\ row_size(file)' = rs
      BY <1>1 DEF row_size
    <3> QED BY <3>1, ZenonT(40) DEF PictureExact
  <2>1. DOMAIN shown' = D
    BY <1>5
  <2>2. CASE <<x, y>> \in D
    <3>1. shown'[<<x, y>>] = <<Buffer(At(x, y)), Buffer(At(x, y) + 1), Buffer(At(x, y) + 2)>>
      BY <1>5, <2>2
    <3>2. At(x, y) = At(x, y) + 0
      <4>1. x - X \in Int /\ h - 1 - (y - Y) \in Int
        BY <1>4, Sizes
      <4>2. (h - 1 - (y - Y)) * rs \in Int
        BY <1>4, <4>1
      <4> QED BY <4>1, <4>2
    <3>3. 0 \in 0 .. 2 /\ 1 \in 0 .. 2 /\ 2 \in 0 .. 2
      OBVIOUS
    <3> HIDE DEF D, At, rs, w, h, X, Y
    <3>4. x - X \in 0 .. w - 1 /\ h - 1 - (y - Y) \in 0 .. h - 1
      BY <1>6, <2>2
    <3> QED BY <1>7, <2>1, <2>2, <3>1, <3>2, <3>3, <3>4
  <2>3. CASE <<x, y>> \notin D
    <3> HIDE DEF D, At, rs, w, h, X, Y
    <3> QED BY <1>6, <2>1, <2>3
  <2> QED BY <2>2, <2>3
<1> QED BY <1>1, <1>2, <1>3, <1>8, Ended

LEMMA NextIInv == IInv /\ [Next]_vars => IInv'
<1> SUFFICES ASSUME IInv, [Next]_vars PROVE IInv'
  OBVIOUS
<1>1. ASSUME NEW f \in AllFiles, exec(f) PROVE IInv'
  BY <1>1, execIInv
<1>2. ASSUME NEW f \in AllFiles, NEW place \in Places, fblogo(f, place) PROVE IInv'
  BY <1>2, fblogoIInv
<1>3. ASSUME NEW s \in 0 .. max_pages - 1, Granted(s) PROVE IInv'
  BY <1>3, GrantedIInv
<1>4. ASSUME NEW num \in 0 .. 2, Syscall(num) PROVE IInv'
  BY <1>4, SyscallIInv
<1>5. CASE UNCHANGED vars
  BY <1>5 DEF vars, loading, pages, IInv, Control, PagesInv, Untouched, ProgramInv, PictureInv,
     PagesReturned, PictureExact, Owns, Run, LogoRun, memSize, size, img_size, row_size
<1> QED BY <1>1, <1>2, <1>3, <1>4, <1>5, ReturnedIInv, PlaceFixedIInv, PlaceAnywhereIInv,
      RefusedIInv, FirstChunkIInv, ReadRestIInv, ReadRestFailsIInv, StartIInv,
      ProgramReturnsIInv, LogoPagesIInv, LogoSectorIInv, LogoFailsIInv, LogoDrawIInv DEF Next

-----------------------------------------------------------------------------
(* The theorems *)

\* The invariant holds in every state, whichever files are loaded and whichever
\* reads fail.
THEOREM Inductive == Spec => []IInv
  BY InitIInv, NextIInv, PTL DEF Spec

\* exec and fblogo return every page they got, except that uexExec keeps its
\* run when the read behind the header fails.
THEOREM PagesComeBack == Spec => []PagesReturned
<1>1. IInv => PagesReturned
  BY DEF IInv
<1> QED BY <1>1, Inductive, PTL

\* The pixels that fblogo leaves on the screen are those of the file, for
\* pictures of every size and place.
THEOREM PictureShown == Spec => []PictureExact
<1>1. IInv => PictureExact
  BY DEF IInv
<1> QED BY <1>1, Inductive, PTL

\* A program that starts has its whole image, and zeros behind it, in pages
\* that are its own.
THEOREM ImageLoaded == Spec => []ImageExact
<1>1. IInv => ImageExact
  <2> SUFFICES ASSUME IInv, pc = "running", sectors < COUNT
               PROVE  /\ \A k \in 0 .. memSize(file) - 1 :
                           /\ dest + k \in DOMAIN wrote
                           /\ wrote[dest + k] = IF k < file.fileSize THEN Image(k) ELSE Zero
                      /\ file.loadAddr = 0 => Run(file) \in live /\ Run(file) \notin before
    BY DEF ImageExact
  <2>1. /\ file \in Programs /\ dest \in Nat /\ copied = Chunk(file)
        /\ \A a \in DOMAIN wrote : wrote[a] = Byte(file, a - dest)
        /\ DOMAIN wrote = (dest .. dest + Reach(file) - 1)
                            \cup (dest + file.fileSize .. dest + memSize(file) - 1)
    BY DEF IInv, Control, ProgramInv, Loaded
  <2>2. RoundUp(file.fileSize - Chunk(file), SECTOR) < COUNT
    BY <2>1 DEF sectors
  <2>3. /\ file.fileSize \in Nat /\ memSize(file) \in Nat /\ Reach(file) \in Nat
        /\ file.fileSize <= Reach(file)
    BY <2>1, <2>2, MemSizeIs, ReachIs
  <2>4. ASSUME NEW k \in 0 .. memSize(file) - 1
        PROVE  dest + k \in DOMAIN wrote /\ wrote[dest + k] = Byte(file, k)
    <3>1. dest + k \in DOMAIN wrote
      BY <2>1, <2>3
    <3>2. (dest + k) - dest = k
      BY <2>1, <2>3
    <3> QED BY <2>1, <3>1, <3>2
  <2>5. file.loadAddr = 0 => Run(file) \in live /\ Run(file) \notin before
    BY DEF IInv, PagesInv, Loaded, Owns
  <2> QED BY <2>4, <2>5 DEF Byte
<1> QED BY <1>1, Inductive, PTL

\* The loader's writes end with the pages of the program, or behind them by a
\* sector without the header exactly if the header does not fit behind the
\* image; fblogo's never leave its pages.
THEOREM WritesNear == Spec => []WritesStayNear
<1>1. ASSUME IInv, pc \in {"clear", "running"}, sectors < COUNT
      PROVE  LET end == dest + memSize(file)
                 behind == {a \in DOMAIN wrote : a >= end}
             IN
             /\ behind = IF memSize(file) - file.fileSize < HDR /\ file.fileSize > 0
                         THEN end .. end + SECTOR - HDR - 1 ELSE {}
             /\ \A a \in behind : wrote[a] = Zero
  <2> DEFINE mem == memSize(file)
             e == Reach(file)
             z == file.fileSize
             end == dest + mem
             behind == {a \in DOMAIN wrote : a >= end}
  <2>1. /\ file \in Programs /\ dest \in Nat /\ copied = Chunk(file)
        /\ \A a \in DOMAIN wrote : wrote[a] = Byte(file, a - dest)
        /\ pc = "clear" => DOMAIN wrote = dest .. dest + e - 1
        /\ pc = "running" =>
             DOMAIN wrote = (dest .. dest + e - 1) \cup (dest + z .. dest + mem - 1)
    BY <1>1 DEF IInv, Control, ProgramInv, Loaded
  <2>2. RoundUp(z - Chunk(file), SECTOR) < COUNT
    BY <1>1, <2>1 DEF sectors
  <2>3. z \in Nat /\ mem \in Nat /\ z <= mem /\ e \in Nat
    BY <2>1, <2>2, MemSizeIs, ReachIs
  <2>4. /\ mem - z < HDR /\ z > 0 => e = mem + SECTOR - HDR
        /\ ~ (mem - z < HDR /\ z > 0) => e <= mem
    BY <2>1, <2>2, ReachBehind
  <2>5. ASSUME NEW a \in behind PROVE wrote[a] = Zero
    <3>1. a \in Int /\ a >= end /\ a \in DOMAIN wrote
      BY <1>1, <2>1, <2>3
    <3>2. ~ (a - dest < z)
      BY <2>1, <2>3, <3>1
    <3> QED BY <2>1, <3>1, <3>2 DEF Byte
  <2> HIDE DEF mem, e, z
  <2>6. behind = IF e > mem THEN end .. dest + e - 1 ELSE {}
    <3>1. CASE pc = "clear"
      BY <2>1, <2>3, <3>1
    <3>2. CASE pc = "running"
      BY <2>1, <2>3, <3>2
    <3> QED BY <1>1, <3>1, <3>2
  <2>7. CASE mem - z < HDR /\ z > 0
    <3>1. e > mem /\ dest + e - 1 = end + SECTOR - HDR - 1
      BY <2>1, <2>3, <2>4, <2>7, Sizes
    <3> QED BY <2>5, <2>6, <2>7, <3>1 DEF mem, z
  <2>8. CASE ~ (mem - z < HDR /\ z > 0)
    <3>1. ~ (e > mem)
      BY <2>3, <2>4, <2>8
    <3> QED BY <2>5, <2>6, <2>8, <3>1 DEF mem, z
  <2> QED BY <2>7, <2>8
<1>2. ASSUME IInv, pc = "logo_read", NEW a \in DOMAIN wrote
      PROVE  a \div PAGE \in PA!Span(LogoRun.start, LogoRun.n)
  <2> DEFINE s == dest \div PAGE
             n == RoundUp(img_size(file), PAGE)
  <2>1. /\ file \in PictureHeaders /\ dest \in Nat /\ dest % PAGE = 0
        /\ copied \in Nat /\ copied <= size(file)
        /\ DOMAIN wrote = dest .. dest + copied - 1
    BY <1>2 DEF IInv, Control, PictureInv
  <2>2. img_size(file) \in Nat /\ size(file) <= img_size(file) /\ size(file) \in Nat
    BY <2>1, PictureSizes
  <2>3. n \in Nat /\ n * PAGE \in Nat /\ img_size(file) <= n * PAGE
    BY <2>2, Sizes, RoundUpIs
  <2>4. s \in Nat /\ dest = s * PAGE
    <3>1. s \in Nat /\ dest = s * PAGE + (dest % PAGE)
      BY <2>1, Sizes, Division
    <3>2. s * PAGE \in Nat
      BY <3>1, Sizes
    <3> QED BY <2>1, <3>1, <3>2
  <2>5. LogoRun.start = s /\ LogoRun.n = n
    BY DEF LogoRun
  <2> HIDE DEF s, n
  <2>6. a \in Nat /\ s * PAGE <= a /\ a < s * PAGE + n * PAGE /\ s * PAGE \in Nat
    BY <1>2, <2>1, <2>2, <2>3, <2>4
  <2> DEFINE d == a \div PAGE
             r == a % PAGE
  <2>7. d \in Nat /\ r \in 0 .. PAGE - 1 /\ a = d * PAGE + r
    BY <2>6, Sizes, Division
  <2> HIDE DEF d, r
  <2>8. /\ d * PAGE \in Nat /\ (d + 1) * PAGE = d * PAGE + PAGE /\ d + 1 \in Nat
        /\ (s + n) * PAGE = s * PAGE + n * PAGE /\ s + n \in Nat
    BY <2>3, <2>4, <2>7, Sizes
  <2>9. s * PAGE < (d + 1) * PAGE /\ d * PAGE < (s + n) * PAGE
    BY <2>3, <2>6, <2>7, <2>8, Sizes
  <2>10. s < d + 1 /\ d < s + n
    BY <2>4, <2>7, <2>8, <2>9, Sizes, Multiples
  <2>11. d \in s .. s + n - 1
    BY <2>3, <2>4, <2>7, <2>10
  <2> QED BY <2>5, <2>11 DEF PA!Span, d
<1>3. IInv => WritesStayNear
  BY <1>1, <1>2 DEF WritesStayNear
<1> QED BY <1>3, Inductive, PTL
=============================================================================
