-------------------------------- MODULE Ata --------------------------------
(***************************************************************************)
(* The polling disk driver of src/kernel/drivers/ata.c and the drive it    *)
(* talks to.  The driver sees the drive through the status register only:  *)
(* BSY while the drive works, DRQ when it wants a sector moved, ERR after  *)
(* a failure.  The drive is external; it is modelled by what the driver    *)
(* relies on, and by the two ways a drive reports an error: with DRQ set,  *)
(* or, as most do, without.                                                *)
(***************************************************************************)
EXTENDS Integers, Sequences

CONSTANTS
  Ops,      \* the operations that are requested: "read", "write"
  LBAs,     \* first sectors of the requests
  Counts,   \* sector counts of the requests (uint8_t in the code)
  Faults    \* how the drive may fail: a subset of {"drq", "no drq"}

ASSUME AtaAssumption == LBAs \subseteq Nat /\ Counts \subseteq Nat

VARIABLES
  pc,        \* where ata_read_sectors or ata_write_sectors stands
  op, lba, count,   \* the request
  i,         \* the loop variable
  buffer,    \* the sectors that insw has put in the caller's buffer
  ret,       \* the value returned by the last request
  BSY, DRQ, ERR,    \* the bits of the status register
  cmd, first,       \* the command the drive executes, and its first sector
  cur,       \* the drive's next sector
  left,      \* how many sectors of the command the drive still has to move
  stored     \* the sectors of the last write command that reached the medium

driver == <<pc, op, lba, count, i, buffer, ret>>
drive == <<BSY, DRQ, ERR, cmd, first, cur, left, stored>>
vars == <<driver, drive>>

ERR_FAILED == -1
NoResult == -2

Init ==
  /\ pc = "idle" /\ op = "read" /\ lba = 0 /\ count = 0 /\ i = 0
  /\ buffer = <<>> /\ ret = NoResult
  /\ BSY = FALSE /\ DRQ = FALSE /\ ERR = FALSE
  /\ cmd = "read" /\ first = 0 /\ cur = 0 /\ left = 0 /\ stored = {}

-----------------------------------------------------------------------------
(* The driver *)

\* ata_read_sectors and ata_write_sectors; a count of 0 fails at once.
Request(o, l, n) ==
  /\ pc = "idle"
  /\ op' = o /\ lba' = l /\ count' = n /\ i' = 0 /\ buffer' = <<>>
  /\ \/ n = 0 /\ ret' = ERR_FAILED /\ pc' = "idle"
     \/ n # 0 /\ ret' = NoResult /\ pc' = "wait"
  /\ UNCHANGED drive

\* Mutant of Command: ata_wait_busy is not called first.
Command_NoWait ==
  /\ pc = "wait"
  /\ pc' = "busy"
  /\ BSY' = TRUE /\ DRQ' = FALSE /\ ERR' = FALSE
  /\ cmd' = op /\ first' = lba /\ cur' = lba /\ left' = count /\ stored' = {}
  /\ UNCHANGED <<op, lba, count, i, buffer, ret>>

\* ata_wait_busy, then the registers and the command, which makes the drive
\* busy and drops what it was doing.
Command ==
  /\ pc = "wait"
  /\ ~ BSY
  /\ pc' = "busy"
  /\ BSY' = TRUE /\ DRQ' = FALSE /\ ERR' = FALSE
  /\ cmd' = op /\ first' = lba /\ cur' = lba /\ left' = count /\ stored' = {}
  /\ UNCHANGED <<op, lba, count, i, buffer, ret>>

\* ata_wait_busy in the loop
WaitBusy ==
  /\ pc = "busy"
  /\ ~ BSY
  /\ pc' = "drq"
  /\ UNCHANGED <<op, lba, count, i, buffer, ret, drive>>

\* Mutant of WaitDrq: the loop waits for the bit to be clear.
WaitDrq_Inverted ==
  /\ pc = "drq"
  /\ ~ DRQ
  /\ pc' = "check"
  /\ UNCHANGED <<op, lba, count, i, buffer, ret, drive>>

\* ata_wait_drq
WaitDrq ==
  /\ pc = "drq"
  /\ DRQ
  /\ pc' = "check"
  /\ UNCHANGED <<op, lba, count, i, buffer, ret, drive>>

\* Mutant of CheckError: the ERR bit is not looked at.
CheckError_Never ==
  /\ pc = "check"
  /\ pc' = "move"
  /\ UNCHANGED <<op, lba, count, i, buffer, ret, drive>>

CheckError ==
  /\ pc = "check"
  /\ \/ ERR /\ ret' = ERR_FAILED /\ pc' = "idle"
     \/ ~ ERR /\ UNCHANGED ret /\ pc' = "move"
  /\ UNCHANGED <<op, lba, count, i, buffer, drive>>

\* insw or outsw of one sector, and the end of the loop.  The drive takes
\* DRQ away and works on; after the last sector of a read it is done.
Move ==
  /\ pc = "move"
  /\ i' = i + 1
  /\ buffer' = IF op = "read" THEN Append(buffer, cur) ELSE buffer
  /\ \/ i + 1 < count /\ pc' = "busy" /\ UNCHANGED ret
     \/ i + 1 = count /\ pc' = "idle" /\ ret' = count
  /\ DRQ' = FALSE
  /\ cur' = cur + 1
  /\ left' = left - 1
  /\ BSY' = (cmd = "write" \/ left > 1)
  /\ UNCHANGED <<op, lba, count, ERR, cmd, first, stored>>

Driver == Command \/ WaitBusy \/ WaitDrq \/ CheckError \/ Move

-----------------------------------------------------------------------------
(* The drive *)

\* The sectors of a write that the drive has been given are on the medium.
Store ==
  stored' = IF cmd = "write" THEN first .. cur - 1 ELSE stored

\* Ready for the next sector, or done.
Ready ==
  /\ BSY
  /\ BSY' = FALSE
  /\ DRQ' = (left > 0)
  /\ Store
  /\ UNCHANGED <<ERR, cmd, first, cur, left, driver>>

Fail ==
  /\ BSY
  /\ \/ "drq" \in Faults /\ DRQ' = TRUE
     \/ "no drq" \in Faults /\ DRQ' = FALSE
  /\ BSY' = FALSE
  /\ ERR' = TRUE
  /\ left' = 0
  /\ UNCHANGED <<cmd, first, cur, stored, driver>>

Next ==
  \/ \E o \in Ops, l \in LBAs, n \in Counts : Request(o, l, n)
  \/ Driver
  \/ Ready
  \/ Fail

\* The driver polls without pause; the drive answers every command.
Spec == Init /\ [][Next]_vars /\ WF_vars(Driver) /\ WF_vars(Ready \/ Fail)

-----------------------------------------------------------------------------
(* Properties *)

\* A request that returns its count is honest: a read has filled the buffer
\* with exactly the requested sectors in order, without an error; a write has been given all
\* of them, and all but the last are stored (the driver does not wait for
\* the last one).
SuccessIsHonest ==
  pc = "idle" /\ ret > 0 =>
    /\ ret = count
    /\ op = "read" => ~ ERR /\ buffer = [k \in 1 .. count |-> lba + k - 1]
    /\ op = "write" => cur = lba + count /\ lba .. lba + count - 2 \subseteq stored

\* The driver obeys the drive: it writes a command only when the drive is not
\* busy, also right after a write returned with its last sector still on the
\* way, and it moves data only when the drive has asked for it.
RegistersRespected ==
  [][/\ (pc = "wait" /\ pc' = "busy") => ~ BSY
     /\ i' = i + 1 => DRQ /\ ~ BSY /\ left > 0]_vars

\* Without an error of the drive every request returns.
RequestReturns == pc # "idle" ~> (pc = "idle" \/ ERR)

\* A drive that fails a request makes the driver return (ERR_FAILED), so that
\* kfs_mount can say "disk read failure" and kfs_read can return an error.
FailureIsReported == ERR /\ pc # "idle" ~> pc = "idle"
=============================================================================
