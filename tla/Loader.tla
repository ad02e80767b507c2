------------------------------- MODULE Loader -------------------------------
(***************************************************************************)
(* What brings files into memory: exec (src/kernel/lib/exec.c) with the    *)
(* loader uexExec (src/kernel/exe/uex.c), which runs a program, and fblogo *)
(* (src/kernel/drivers/fb.c), which shows a picture.  Both find the file,  *)
(* read a header, get pages from the allocator, of which they know what    *)
(* PageAlloc promises, read the rest, and give the pages back.  Any read   *)
(* may fail.                                                               *)
(*                                                                         *)
(* Memory is seen through the bytes that the operation in progress has     *)
(* written: any other byte is whatever was there.  Programs are packed by  *)
(* scripts/pack_uex.py, and the last sector of a file is filled up with    *)
(* zeros by scripts/genkfs.py.  A program returns, and keeps to its pages. *)
(***************************************************************************)
EXTENDS Integers, Sequences, FiniteSetsExt

CONSTANTS
  HDR,                \* sizeof(struct uexHdr) (24 in the code)
  BMPHDR,             \* the two headers of a picture (54)
  SECTOR, PAGE,       \* 512 and 4096
  COUNT,              \* ata_read_sectors takes the count modulo this (256)
  max_pages,
  Reserved,           \* the pages that are not handed out
  Programs, Others,   \* the files that are programs, and those that are not
  Pictures,           \* the files that are pictures
  FBW, FBH,           \* fb.width and fb.height
  Places,             \* where pictures are put: pairs start_x, start_y
  NoFile

RoundUp(n, unit) == (n + unit - 1) \div unit

(***************************************************************************)
(* A program has loadAddr, 0 for any address, and fileSize; a picture has  *)
(* width w, height h and the offset off of its rows.  All have a size.     *)
(***************************************************************************)
ASSUME LoaderAssumption ==
  /\ {HDR, BMPHDR, SECTOR, PAGE, COUNT, max_pages, FBW, FBH} \subseteq Nat \ {0}
  /\ HDR < SECTOR /\ PAGE % SECTOR = 0
  /\ 0 \in Reserved /\ Places \subseteq Nat \X Nat
  /\ Programs \subseteq [size : Nat, loadAddr : Nat, fileSize : Nat]
  /\ Pictures \subseteq [size : Nat, w : Nat \ {0}, h : Nat \ {0}, off : Nat]
  /\ \A f \in Others : f.size \in Nat
  /\ \A f \in Programs : f.size = HDR + f.fileSize
  /\ \A f \in Pictures : f.size >= BMPHDR /\ f.off >= BMPHDR

VARIABLES
  pc,       \* where the operation in progress stands; "done" when it returns,
            \* "idle" if there is none
  file,     \* the file it is about; for fblogo with the header it has read
  status,   \* what uexExec or fblogo has returned
  dest,     \* where the file is put
  copied,   \* how many bytes of it are there
  wrote,    \* the bytes written, by address
  at,       \* fblogo's start_x and start_y
  shown,    \* the pixels fblogo has drawn
  said,     \* what the system calls of the program print
  nested, reserved, live, pending,   \* see PageAlloc
  before    \* history: the runs that were live before the operation

loading == <<file, dest, copied, wrote>>
pages == <<nested, reserved, live, pending>>
vars == <<pc, loading, status, at, shown, said, pages, before>>

PA == INSTANCE PageAlloc WITH MaxRequest <- max_pages

\* A byte: the k-th one of the file behind its header, or a given one.
Image(k) == <<"image", k>>
Zero == <<"zero", 0>>
Stale == <<"stale", 0>>

Nothing == [a \in {} |-> Zero]

Init ==
  /\ pc = "idle" /\ status = "none"
  /\ file = NoFile /\ dest = 0 /\ copied = 0 /\ wrote = Nothing
  /\ at = <<0, 0>> /\ shown = Nothing /\ said = <<>>
  /\ nested = TRUE /\ reserved = Reserved /\ live = {} /\ pending = 0 /\ before = {}

Begin(f) ==
  /\ pc = "idle"
  /\ file' = f
  /\ before' = live
  /\ UNCHANGED <<dest, copied, wrote, shown, said, pages>>

Goto(l) == pc' = l /\ UNCHANGED status

Return(code) == pc' = "done" /\ status' = code

\* Back in the caller: the local variables are gone.
Returned ==
  /\ pc = "done"
  /\ pc' = "idle" /\ status' = "none"
  /\ file' = NoFile /\ dest' = 0 /\ copied' = 0 /\ wrote' = Nothing
  /\ at' = <<0, 0>> /\ shown' = Nothing /\ said' = <<>> /\ before' = {}
  /\ UNCHANGED pages

-----------------------------------------------------------------------------
(* exec and uexExec *)

\* What a program takes in memory: scripts/pack_uex.py rounds it to pages.
memSize(f) == RoundUp(f.fileSize, PAGE) * PAGE

Run(f) == [start |-> dest \div PAGE, n |-> RoundUp(memSize(f), PAGE)]

\* What a header and the checks before it can end with.
HeaderErrors(f) ==
  IF f = NoFile THEN {"ERR_NOT_FOUND"}
  ELSE IF f.size < HDR THEN {"ERR_FORMAT"}
  ELSE {"ERR_IO"} \cup (IF f \in Programs THEN {} ELSE {"ERR_FORMAT"})

\* The shell's command; execv differs in passing an argument to the program.
exec(f) ==
  /\ Begin(f)
  /\ \/ \E code \in HeaderErrors(f) : Return(code)
     \/ f \in Programs /\ Goto("place")
  /\ UNCHANGED at

\* At its own address a program has no pages of its own.
PlaceFixed ==
  /\ pc = "place"
  /\ file.loadAddr # 0
  /\ dest' = file.loadAddr
  /\ Goto("first")
  /\ UNCHANGED <<file, copied, wrote, at, shown, said, pages, before>>

\* pmm_alloc, which refuses a request for no pages.
pmm_alloc(n, caller, refused) ==
  /\ \/ n = 0 /\ Return(refused) /\ UNCHANGED pages
     \/ n # 0 /\ PA!Request(n) /\ Goto(caller)
  /\ UNCHANGED <<loading, at, shown, said, before>>

PlaceAnywhere ==
  /\ pc = "place"
  /\ file.loadAddr = 0
  /\ pmm_alloc(RoundUp(memSize(file), PAGE), "exec_alloc", "ERR_OOM")

Granted(s) ==
  /\ pc \in {"exec_alloc", "logo_alloc"}
  /\ PA!Grant(s)
  /\ dest' = s * PAGE
  /\ Goto(IF pc = "exec_alloc" THEN "first" ELSE "logo_read")
  /\ UNCHANGED <<file, copied, wrote, at, shown, said, before>>

Refused ==
  /\ pc \in {"exec_alloc", "logo_alloc"}
  /\ PA!Refuse
  /\ Return(IF pc = "exec_alloc" THEN "ERR_OOM" ELSE "-6")
  /\ UNCHANGED <<loading, at, shown, said, before>>

\* Bytes, by address, go over what is there.
memcpy(bytes) ==
  wrote' = [a \in DOMAIN bytes \cup DOMAIN wrote |->
              IF a \in DOMAIN bytes THEN bytes[a] ELSE wrote[a]]

\* The bytes from .. to - 1 of the program's image go to their places.
Write(from, to) ==
  memcpy([a \in dest + from .. dest + to - 1 |->
            IF a - dest < file.fileSize THEN Image(a - dest) ELSE Zero])

\* Mutant of FirstChunk: the sector is copied from its beginning, header first.
FirstChunk_Header ==
  LET n == Min({file.fileSize, SECTOR - HDR}) IN
  /\ pc = "first"
  /\ wrote' = [a \in dest .. dest + n - 1 |->
                 IF a - dest < HDR THEN Stale ELSE Image(a - dest - HDR)]
  /\ copied' = n
  /\ Goto(IF n < file.fileSize THEN "rest" ELSE "clear")
  /\ UNCHANGED <<file, dest, at, shown, said, pages, before>>

\* What the first sector has behind the header is copied.
FirstChunk ==
  LET n == Min({file.fileSize, SECTOR - HDR}) IN
  /\ pc = "first"
  /\ Write(0, n)
  /\ copied' = n
  /\ Goto(IF n < file.fileSize THEN "rest" ELSE "clear")
  /\ UNCHANGED <<file, dest, at, shown, said, pages, before>>

\* The other sectors, of which the driver takes the count modulo COUNT.
sectors == RoundUp(file.fileSize - copied, SECTOR)

\* Mutant of ReadRest: one sector more than the file has.
ReadRest_OneMore ==
  /\ pc = "rest"
  /\ Write(copied, copied + (sectors + 1) * SECTOR)
  /\ Goto("clear")
  /\ UNCHANGED <<file, dest, copied, at, shown, said, pages, before>>

ReadRest ==
  /\ pc = "rest"
  /\ sectors % COUNT # 0
  /\ Write(copied, copied + (sectors % COUNT) * SECTOR)
  /\ Goto("clear")
  /\ UNCHANGED <<file, dest, copied, at, shown, said, pages, before>>

\* The read fails after some sectors: uexExec returns, and keeps the pages.
ReadRestFails ==
  /\ pc = "rest"
  /\ \E k \in 0 .. sectors % COUNT :
       /\ k = 0 \/ k < sectors % COUNT
       /\ Write(copied, copied + k * SECTOR)
  /\ Return("ERR_IO")
  /\ UNCHANGED <<file, dest, copied, at, shown, said, pages, before>>

\* The rest of the memory is cleared and the program is entered at its start.
Start ==
  /\ pc = "clear"
  /\ Write(file.fileSize, memSize(file))
  /\ pc' = "running" /\ status' = "ERR_SUCCESS"
  /\ UNCHANGED <<file, dest, copied, at, shown, said, pages, before>>

\* The program's int 0x80: the cases of syscallh fall through, all return
\* ERR_FAILED.  (A call that prints is the last one: the bound on said.)
Syscall(num) ==
  /\ pc = "running"
  /\ said = <<>>
  /\ said' = CASE num = 0 -> <<"syscall 0", "syscall 1">>
               [] num = 1 -> <<"syscall 1">>
               [] OTHER   -> <<>>
  /\ UNCHANGED <<pc, loading, status, at, shown, pages, before>>

\* Mutant of ProgramReturns: the pages are kept.
ProgramReturns_Keeps ==
  /\ pc = "running"
  /\ Goto("done")
  /\ UNCHANGED <<loading, at, shown, said, pages, before>>

\* exec gives back the pages that the loader has allocated.
ProgramReturns ==
  /\ pc = "running"
  /\ IF file.loadAddr = 0 THEN PA!Release(Run(file)) ELSE UNCHANGED pages
  /\ Goto("done")
  /\ UNCHANGED <<loading, at, shown, said, before>>

-----------------------------------------------------------------------------
(* fblogo *)

row_size(f) == RoundUp(f.w * 3, 4) * 4
img_size(f) == row_size(f) * f.h
LogoRun == [start |-> dest \div PAGE, n |-> RoundUp(img_size(file), PAGE)]

\* The headers fblogo may see: those of the file, if it has them; kfsExtension0
\* reports success for a file that is too short, and leaves them uninitialised.
Headers(f) ==
  IF f.size >= BMPHDR THEN {f} \cap Pictures
  ELSE {[p EXCEPT !.size = f.size] : p \in Pictures}

fblogo(f, place) ==
  /\ at' = place
  /\ \/ f = NoFile /\ Begin(f) /\ Return("-1")
     \/ f # NoFile /\ f.size > 0 /\ Begin(f) /\ Return("-2")
     \/ f # NoFile /\ f \notin Pictures /\ Begin(f) /\ (Return("-3") \/ Return("-4"))
     \/ f # NoFile /\ \E p \in Headers(f) : Begin(p) /\ Goto("logo")

LogoPages ==
  /\ pc = "logo"
  /\ pmm_alloc(RoundUp(img_size(file), PAGE), "logo_alloc", "-6")

\* How many bytes kfsExtension0 reads: no more than the file has.
size(f) == Max({0, Min({img_size(f), f.size - f.off})})

\* Mutant of LogoSector: every sector is copied from its beginning.
LogoSector_Aligned ==
  LET n == Min({SECTOR, size(file) - copied}) IN
  /\ pc = "logo_read"
  /\ copied < size(file)
  /\ memcpy([a \in dest + copied .. dest + copied + n - 1 |->
               Image(((file.off + copied) \div SECTOR) * SECTOR + (a - dest - copied))])
  /\ copied' = copied + n
  /\ Goto("logo_read")
  /\ UNCHANGED <<file, dest, at, shown, said, pages, before>>

\* One turn of the loop in kfsExtension0: from sector_offset to the end of the
\* sector, or to the end of what is wanted.
LogoSector ==
  LET sector == (file.off + copied) \div SECTOR
      sector_offset == IF copied = 0 THEN file.off % SECTOR ELSE 0
      n == Min({SECTOR - sector_offset, size(file) - copied})
  IN
  /\ pc = "logo_read"
  /\ copied < size(file)
  /\ memcpy([a \in dest + copied .. dest + copied + n - 1 |->
               Image(sector * SECTOR + sector_offset + (a - dest - copied))])
  /\ copied' = copied + n
  /\ Goto("logo_read")
  /\ UNCHANGED <<file, dest, at, shown, said, pages, before>>

LogoFails ==
  /\ pc = "logo_read"
  /\ copied < size(file)
  /\ PA!Release(LogoRun)
  /\ Return("-5")
  /\ UNCHANGED <<loading, at, shown, said, before>>

Buffer(k) == IF dest + k \in DOMAIN wrote THEN wrote[dest + k] ELSE Stale

\* The rows are drawn from the last one on, as far as they are on the screen.
LogoDraw ==
  /\ pc = "logo_read"
  /\ copied = size(file)
  /\ shown' = [q \in (at[1] .. Min({FBW, at[1] + file.w}) - 1)
                       \X (at[2] .. Min({FBH, at[2] + file.h}) - 1) |->
                 LET s == (file.h - 1 - (q[2] - at[2])) * row_size(file) + 3 * (q[1] - at[1])
                 IN <<Buffer(s), Buffer(s + 1), Buffer(s + 2)>>]
  /\ PA!Release(LogoRun)
  /\ Return("0")
  /\ UNCHANGED <<loading, at, said, before>>

AllFiles == Programs \cup Pictures \cup Others \cup {NoFile}

Next ==
  \/ \E f \in AllFiles : exec(f) \/ \E place \in Places : fblogo(f, place)
  \/ Returned \/ PlaceFixed \/ PlaceAnywhere \/ Refused
  \/ \E s \in 0 .. max_pages - 1 : Granted(s)
  \/ FirstChunk \/ ReadRest \/ ReadRestFails \/ Start
  \/ \E num \in 0 .. 2 : Syscall(num)
  \/ ProgramReturns
  \/ LogoPages \/ LogoSector \/ LogoFails \/ LogoDraw

Spec == Init /\ [][Next]_vars

-----------------------------------------------------------------------------
(* Properties *)

\* When uexExec has succeeded, the memory of the program is its image followed
\* by zeros, to the last byte of its pages, and the pages are its own.  This is
\* for images the driver can read at once: with COUNT or more sectors behind
\* the first it reads fewer, or none.
ImageExact ==
  pc = "running" /\ sectors < COUNT =>
    /\ \A k \in 0 .. memSize(file) - 1 :
         /\ dest + k \in DOMAIN wrote
         /\ wrote[dest + k] = IF k < file.fileSize THEN Image(k) ELSE Zero
    /\ file.loadAddr = 0 => Run(file) \in live /\ Run(file) \notin before

\* Where the loader writes: within the pages of the program, but for the zeros
\* at the end of the last sector, which reach behind them if and only if the
\* last page has fewer bytes left than the header takes, and then by a sector
\* without the header.  fblogo writes within its pages only.
WritesStayNear ==
  LET end == dest + memSize(file)
      behind == {a \in DOMAIN wrote : a >= end}
  IN
  IF pc \in {"clear", "running"} /\ sectors < COUNT
  THEN /\ behind = IF memSize(file) - file.fileSize < HDR /\ file.fileSize > 0
                   THEN end .. end + SECTOR - HDR - 1 ELSE {}
       /\ \A a \in behind : wrote[a] = Zero
  ELSE pc = "logo_read" => \A a \in DOMAIN wrote : a \div PAGE \in PA!Span(LogoRun.start, LogoRun.n)

\* When an operation is over, all pages it got are back, in one piece and with
\* no other: but for one that ended with a failed read behind the header,
\* which keeps its run for ever.
PagesReturned ==
  pc = "done" =>
    /\ before \subseteq live
    /\ live # before => /\ status = "ERR_IO" /\ file.loadAddr = 0
                        /\ live = before \cup {Run(file)}

\* After fblogo has returned 0, each pixel of the part of the picture that is
\* on the screen has the three bytes that the file has for it, whose rows go
\* from bottom to top and are padded; where the file ends early it is whatever
\* was in memory.
PictureExact ==
  pc = "done" /\ status = "0" =>
    \A x \in 0 .. FBW - 1, y \in 0 .. FBH - 1 :
      LET col == x - at[1]
          row == file.h - 1 - (y - at[2])
          byte(c) == LET o == file.off + row * row_size(file) + 3 * col + c
                     IN IF o < file.size THEN Image(o) ELSE Stale
      IN IF col \in 0 .. file.w - 1 /\ row \in 0 .. file.h - 1
         THEN <<x, y>> \in DOMAIN shown /\ shown[<<x, y>>] = <<byte(0), byte(1), byte(2)>>
         ELSE <<x, y>> \notin DOMAIN shown
=============================================================================
