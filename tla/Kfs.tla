-------------------------------- MODULE Kfs --------------------------------
(***************************************************************************)
(* The file system of src/kernel/fs/kfs.c with its callers in fs/vfs.c and *)
(* core/shell.c (touch, cat).  A volume is a superblock in sector 0 that   *)
(* lists the files, and their data in the sectors behind it.  The          *)
(* superblock is kept in memory; kfs_write appends an entry to it, writes  *)
(* the data sector by sector, ignores the outcome, and writes the          *)
(* superblock.  The disk may fail a transfer, and the machine may stop     *)
(* between any two sectors and mount the volume again.                     *)
(*                                                                         *)
(* Sizes are in sectors: every use of a size in kfs.c rounds it up.  Names *)
(* fit their 32 bytes.                                                     *)
(***************************************************************************)
EXTENDS Integers, Sequences, SequencesExt

CONSTANTS
  Names, Data,
  Sizes,          \* sizes of the files that are written, in sectors
  KFS_MAX_FILES,  \* entries in a superblock (8 in the code)
  MAX_CAT,        \* the largest file cat shows, in sectors (16 in the code)
  COUNT,          \* ata_*_sectors take the sector count modulo this (256)
  DiskSectors,    \* sectors of the disk
  InitialFiles,   \* name, size and data of the files of the image
  Blank           \* a sector that was never written

ASSUME KfsAssumption ==
  /\ KFS_MAX_FILES \in Nat \ {0} /\ COUNT \in Nat \ {0}
  /\ MAX_CAT \in Nat /\ MAX_CAT < COUNT
  /\ DiskSectors \in Nat \ {0}
  /\ Names # {} /\ Data # {} /\ Sizes \subseteq Nat
  /\ InitialFiles \in Seq([name : Names, size : Nat, data : Data])
  /\ Len(InitialFiles) <= KFS_MAX_FILES

(***************************************************************************)
(* An entry of the superblock.  data and whole are history: what the       *)
(* writer gave, and whether all of it has reached the disk.                *)
(***************************************************************************)
Entries == [name : Names, start_lba : Nat, size : Nat, data : Data, whole : BOOLEAN]

VARIABLES
  superblock,   \* the files of the superblock in memory
  disk_super,   \* sector 0
  disk,         \* the other sectors
  pc,           \* what the kernel is doing
  sector,       \* how many sectors of the file have been written
  shown         \* what cat last put on the screen

vars == <<superblock, disk_super, disk, pc, sector, shown>>

DataSectors == 1 .. DiskSectors - 1

Piece(d, k) == [data |-> d, index |-> k]

Shown == [kind : {"nothing", "not found", "too large", "ioerr", "contents"},
          name : Names, pieces : Seq([data : Data, index : Nat] \cup {Blank}),
          fault : BOOLEAN]   \* history: the disk has failed a transfer

TypeOK ==
  /\ superblock \in Seq(Entries) /\ Len(superblock) <= KFS_MAX_FILES
  /\ disk_super \in Seq(Entries)
  /\ disk \in [DataSectors -> [data : Data, index : Nat] \cup {Blank}]
  /\ pc \in {"off", "panic", "idle", "data", "super"}
  /\ sector \in 0 .. COUNT
  /\ shown \in Shown

\* The loop of kfs_write over the entries of sb: the value of lba after k turns.
Lba(sb) ==
  LET lba[k \in 0 .. Len(sb)] == IF k = 0 THEN 1 ELSE lba[k - 1] + sb[k].size
  IN lba

\* Mutant of NextLba: the sum stops before the last file.
NextLba_ShortSum(sb) == Lba(sb)[IF sb = <<>> THEN 0 ELSE Len(sb) - 1]

\* The first sector behind the files that sb lists.
NextLba(sb) == Lba(sb)[Len(sb)]

NewEntry(sb, n, size, d) ==
  [name |-> n, start_lba |-> NextLba(sb), size |-> size, data |-> d, whole |-> size = 0]

\* The image that scripts/genkfs.py writes: files one behind the other.
ImageSuper ==
  [k \in DOMAIN InitialFiles |->
     LET f == InitialFiles[k]
     IN [NewEntry(SubSeq(InitialFiles, 1, k - 1), f.name, f.size, f.data) EXCEPT !.whole = TRUE]]

ASSUME ImageAssumption == NextLba(InitialFiles) <= DiskSectors

Sectors(f) == f.start_lba .. f.start_lba + f.size - 1

Image ==
  [s \in DataSectors |->
     IF \E f \in Range(ImageSuper) : s \in Sectors(f)
     THEN LET f == CHOOSE f \in Range(ImageSuper) : s \in Sectors(f)
          IN Piece(f.data, s - f.start_lba)
     ELSE Blank]

Nothing == [kind |-> "nothing", name |-> CHOOSE n \in Names : TRUE, pieces |-> <<>>,
            fault |-> FALSE]

Init ==
  /\ superblock = <<>>
  /\ disk_super = ImageSuper
  /\ disk = Image
  /\ pc = "off"
  /\ sector = 0
  /\ shown = Nothing

-----------------------------------------------------------------------------
(* Mounting, and stopping at any moment *)

\* (The image keeps its magic number: nothing writes another one.)
kfs_mount ==
  /\ pc = "off"
  /\ superblock' = disk_super
  /\ pc' = "idle"
  /\ UNCHANGED <<disk_super, disk, sector, shown>>

\* ata_read_sectors failed: panic, which never returns.
MountFails ==
  /\ pc = "off"
  /\ pc' = "panic"
  /\ UNCHANGED <<superblock, disk_super, disk, sector, shown>>

PowerOff ==
  /\ pc # "off"
  /\ pc' = "off"
  /\ superblock' = <<>>
  /\ sector' = 0
  /\ shown' = Nothing
  /\ UNCHANGED <<disk_super, disk>>

-----------------------------------------------------------------------------
(* Writing *)

\* The index of the entry that kfs_find returns, 0 for NULL.
kfs_find(n) == SelectInSeq(superblock, LAMBDA f : f.name = n)

NewFile == superblock[Len(superblock)]

\* Mutants of kfs_write: no check of the number of files; an entry with the
\* same name is replaced.
kfs_write_NoLimit(n, size, d) ==
  /\ pc = "idle"
  /\ superblock' = Append(superblock, NewEntry(superblock, n, size, d))
  /\ sector' = 0
  /\ pc' = IF size % COUNT = 0 THEN "super" ELSE "data"
  /\ UNCHANGED <<disk_super, disk, shown>>

kfs_write_InPlace(n, size, d) ==
  /\ pc = "idle"
  /\ kfs_find(n) # 0
  /\ superblock' = [superblock EXCEPT ![kfs_find(n)].size = size,
                                      ![kfs_find(n)].data = d]
  /\ sector' = 0
  /\ pc' = "super"
  /\ UNCHANGED <<disk_super, disk, shown>>

\* kfs_write up to the data: the entry is in memory from here on.  A full
\* superblock makes it return -1 with nothing changed.
kfs_write(n, size, d) ==
  /\ pc = "idle"
  /\ Len(superblock) < KFS_MAX_FILES
  /\ superblock' = Append(superblock, NewEntry(superblock, n, size, d))
  /\ sector' = 0
  /\ pc' = IF size % COUNT = 0 THEN "super" ELSE "data"
  /\ UNCHANGED <<disk_super, disk, shown>>

\* The shell's command: an entry without data, whether or not the name exists.
touch(n) == kfs_write(n, 0, CHOOSE d \in Data : TRUE)

\* Writing to an open file: the name is one that kfs_find knows.
vfs_l_write(n, size, d) ==
  /\ kfs_find(n) # 0
  /\ kfs_write(n, size, d)

\* Mutant of DataSector: the source pointer is not advanced.
DataSector_SamePiece ==
  LET f == NewFile IN
  /\ pc = "data"
  /\ f.start_lba + sector \in DataSectors
  /\ disk' = [disk EXCEPT ![f.start_lba + sector] = Piece(f.data, 0)]
  /\ sector' = sector + 1
  /\ pc' = IF sector + 1 = f.size % COUNT THEN "super" ELSE "data"
  /\ superblock' = [superblock EXCEPT ![Len(superblock)].whole = sector + 1 = f.size]
  /\ UNCHANGED <<disk_super, shown>>

\* ata_write_sectors moves one sector; it was given size modulo COUNT.
DataSector ==
  LET f == NewFile IN
  /\ pc = "data"
  /\ f.start_lba + sector \in DataSectors
  /\ disk' = [disk EXCEPT ![f.start_lba + sector] = Piece(f.data, sector)]
  /\ sector' = sector + 1
  /\ pc' = IF sector + 1 = f.size % COUNT THEN "super" ELSE "data"
  /\ superblock' = [superblock EXCEPT ![Len(superblock)].whole = sector + 1 = f.size]
  /\ UNCHANGED <<disk_super, shown>>

\* ... or fails, which kfs_write does not look at.
DataError ==
  /\ pc = "data"
  /\ pc' = "super"
  /\ UNCHANGED <<superblock, disk_super, disk, sector, shown>>

\* Mutant of SuperWritten: a file whose data failed is taken out of memory,
\* after the superblock that lists it was written.
SuperWritten_Undo ==
  /\ pc = "super"
  /\ disk_super' = superblock
  /\ superblock' = IF NewFile.whole THEN superblock ELSE Front(superblock)
  /\ pc' = "idle"
  /\ sector' = 0
  /\ UNCHANGED <<disk, shown>>

SuperWritten ==
  /\ pc = "super"
  /\ disk_super' = superblock
  /\ pc' = "idle"
  /\ sector' = 0
  /\ UNCHANGED <<superblock, disk, shown>>

SuperError ==
  /\ pc = "super"
  /\ pc' = "idle"
  /\ sector' = 0
  /\ UNCHANGED <<superblock, disk_super, disk, shown>>

-----------------------------------------------------------------------------
(* Reading *)

Readable(f) == f.size % COUNT # 0 /\ \A k \in 0 .. f.size - 1 : f.start_lba + k \in DataSectors

Display(kind, n, pieces) ==
  shown' = [kind |-> kind, name |-> n, pieces |-> pieces, fault |-> FALSE]

\* Mutant of cat: the data is read one sector behind the file's first.
cat_NextSector(n) ==
  LET i == kfs_find(n)
      f == superblock[i]
  IN
  /\ pc = "idle"
  /\ i # 0 /\ f.size <= MAX_CAT
  /\ Readable(f)
  /\ Display("contents", n, [k \in 1 .. f.size |-> disk[f.start_lba + k]])
  /\ UNCHANGED <<superblock, disk_super, disk, pc, sector>>

\* The shell's command, with kfs_read: nothing else runs while it reads.
cat(n) ==
  LET i == kfs_find(n)
      f == superblock[i]
  IN
  /\ pc = "idle"
  /\ \/ i = 0 /\ Display("not found", n, <<>>)
     \/ i # 0 /\ f.size > MAX_CAT /\ Display("too large", n, <<>>)
     \/ /\ i # 0 /\ f.size <= MAX_CAT
        /\ \/ ~ Readable(f) /\ Display("ioerr", n, <<>>)
           \/ shown' = [kind |-> "ioerr", name |-> n, pieces |-> <<>>, fault |-> TRUE]
           \/ /\ Readable(f)
              /\ Display("contents", n, [k \in 1 .. f.size |-> disk[f.start_lba + k - 1]])
  /\ UNCHANGED <<superblock, disk_super, disk, pc, sector>>

Next ==
  \/ kfs_mount
  \/ MountFails
  \/ PowerOff
  \/ \E n \in Names : touch(n)
  \/ \E n \in Names, size \in Sizes, d \in Data : vfs_l_write(n, size, d)
  \/ DataSector
  \/ DataError
  \/ SuperWritten
  \/ SuperError
  \/ \E n \in Names : cat(n)

Spec == Init /\ [][Next]_vars

-----------------------------------------------------------------------------
(* Properties *)

\* The superblock on disk is never ahead of the one in memory: while the
\* volume is mounted it lists a prefix of the files that memory lists, also
\* after kfs_write failed to write it and after a crash in the middle.
DiskIsPrefix == pc \in {"idle", "data", "super"} => IsPrefix(disk_super, superblock)

\* No two files share a sector, and none lies on the superblock: start_lba
\* as kfs_write computes it, from whichever superblock was mounted.
NoOverlap ==
  \A sb \in {superblock, disk_super} :
    \A k \in DOMAIN sb :
      /\ sb[k].start_lba > 0
      /\ \A j \in 1 .. k - 1 : Sectors(sb[j]) \cap Sectors(sb[k]) = {}

\* Crash consistency: a file that the superblock on disk lists, and whose
\* data was transferred without error, has that data on the disk, whatever
\* was written, failed or cut short since.
CommittedDataIntact ==
  \A k \in DOMAIN disk_super :
    LET f == disk_super[k] IN
    f.whole => \A j \in 0 .. f.size - 1 : disk[f.start_lba + j] = Piece(f.data, j)

\* A file on disk is never replaced or lost: later writes under its name
\* leave the entry that kfs_find returns as it was.
CommittedStable ==
  [][\A n \in Names :
       LET Found(sb) == SelectInSeq(sb, LAMBDA f : f.name = n) IN
       Found(disk_super) # 0
         => /\ Found(disk_super') = Found(disk_super)
            /\ disk_super'[Found(disk_super)] = disk_super[Found(disk_super)]]_vars

\* What cat shows of a file is what was written to it, if the write was
\* complete, and never more than the buffer holds.  As long as the disk works,
\* the only files it does not show are those that do not fit its buffer, those
\* that reach over the end of the disk, and the empty ones (a request for no
\* sectors is an error).
CatShowsTheFile ==
  kfs_find(shown.name) # 0 =>
    LET f == superblock[kfs_find(shown.name)] IN
    /\ shown.kind = "contents" =>
         /\ Len(shown.pieces) <= MAX_CAT
         /\ f.whole => shown.pieces = [k \in 1 .. f.size |-> Piece(f.data, k - 1)]
    /\ shown.kind = "ioerr" /\ ~ shown.fault =>
         f.size = 0 \/ f.start_lba + f.size > DiskSectors
    /\ shown.kind = "too large" => f.size > MAX_CAT
=============================================================================
