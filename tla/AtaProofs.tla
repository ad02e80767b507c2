----------------------------- MODULE AtaProofs -----------------------------
(***************************************************************************)
(* The disk driver for all requests, and for drives that fail in any way.  *)
(***************************************************************************)
EXTENDS Ata, TLAPS

TypeOK ==
  /\ pc \in {"idle", "wait", "busy", "drq", "check", "move"}
  /\ lba \in Nat /\ count \in Nat /\ i \in Nat
  /\ ret \in Int
  /\ first \in Nat /\ cur \in Nat /\ left \in Int

\* The part of a request that has been moved.
Buffered == buffer = IF op = "read" THEN [k \in 1 .. i |-> lba + k - 1] ELSE <<>>

\* The drive executes the command of the request, and has moved as many sectors
\* as the driver; all but the last of those to be written are stored.
InStep ==
  /\ cmd = op /\ first = lba /\ cur = lba + i
  /\ Buffered
  /\ op = "write" => lba .. lba + i - 2 \subseteq stored

\* In the loop: what the driver has seen of the status register still holds.
Looping ==
  pc \in {"busy", "drq", "check", "move"} =>
    /\ InStep
    /\ i < count
    /\ ~ ERR => left = count - i
    /\ ~ ERR /\ ~ BSY => DRQ /\ (op = "write" => lba .. lba + i - 1 \subseteq stored)
    /\ pc # "busy" => ~ BSY
    /\ pc \in {"check", "move"} => DRQ
    /\ pc = "move" => ~ ERR

\* A request that has been made and one that was successful.
Ended ==
  /\ pc = "wait" => i = 0 /\ buffer = <<>> /\ count > 0
  /\ pc # "idle" => ret = NoResult
  /\ pc = "idle" /\ ret > 0 =>
       /\ InStep
       /\ ret = count /\ i = count
       /\ op = "read" => ~ ERR /\ ~ BSY

IInv == TypeOK /\ Looping /\ Ended

LEMMA InitIInv == Init => IInv
  BY DEF Init, IInv, TypeOK, Looping, Ended, NoResult

LEMMA NextIInv == IInv /\ [Next]_vars => IInv'
<1> SUFFICES ASSUME IInv, [Next]_vars PROVE IInv'
  OBVIOUS
<1> USE AtaAssumption DEF IInv, NoResult, ERR_FAILED
<1>1. ASSUME NEW o \in Ops, NEW l \in LBAs, NEW n \in Counts, Request(o, l, n) PROVE IInv'
  BY <1>1 DEF Request, drive, TypeOK, Looping, Ended, InStep, Buffered
<1>2. CASE Command
  <2>1. TypeOK' /\ Ended'
    BY <1>2 DEF Command, TypeOK, Ended, InStep, Buffered
  <2>2. Buffered'
    BY <1>2 DEF Command, Ended, Buffered, TypeOK
  <2>3. Looping'
    BY <1>2, <2>2 DEF Command, TypeOK, Looping, Ended, InStep
  <2> QED BY <2>1, <2>3
<1>3. CASE WaitBusy
  BY <1>3 DEF WaitBusy, drive, TypeOK, Looping, Ended, InStep, Buffered
<1>4. CASE WaitDrq
  BY <1>4 DEF WaitDrq, drive, TypeOK, Looping, Ended, InStep, Buffered
<1>5. CASE CheckError
  BY <1>5 DEF CheckError, drive, TypeOK, Looping, Ended, InStep, Buffered
<1>6. CASE Move
  <2>1. TypeOK'
    BY <1>6 DEF Move, TypeOK
  <2>2. Buffered'
    <3>1. CASE op = "read"
      <4>1. buffer' = Append([k \in 1 .. i |-> lba + k - 1], lba + i)
        BY <1>6, <3>1 DEF Move, Looping, InStep, Buffered
      <4>2. buffer' = [k \in 1 .. i + 1 |-> lba + k - 1]
        BY <4>1 DEF TypeOK
      <4> QED BY <1>6, <3>1, <4>2 DEF Move, Buffered
    <3>2. CASE op # "read"
      BY <1>6, <3>2 DEF Move, Looping, InStep, Buffered
    <3> QED BY <3>1, <3>2
  <2>3. InStep'
    BY <1>6, <2>2 DEF Move, TypeOK, Looping, InStep
  <2>4. ~ ERR' /\ left = count - i /\ cmd = op /\ i < count
    BY <1>6 DEF Move, Looping, InStep
  <2>5. BSY' <=> cmd = "write" \/ left > 1
    BY <1>6 DEF Move
  <2>6. Looping'
    BY <1>6, <2>3, <2>4, <2>5 DEF Move, TypeOK, Looping
  <2>7. Ended'
    BY <1>6, <2>3, <2>4, <2>5 DEF Move, TypeOK, Looping, Ended
  <2> QED BY <2>1, <2>6, <2>7
<1>7. CASE Ready
  <2>1. TypeOK'
    BY <1>7 DEF Ready, Store, driver, TypeOK
  <2>2. InStep => InStep'
    BY <1>7 DEF Ready, Store, driver, TypeOK, InStep, Buffered
  <2>3. DRQ' <=> left > 0
    BY <1>7 DEF Ready
  <2>4. Looping'
    BY <1>7, <2>2, <2>3 DEF Ready, Store, driver, TypeOK, Looping, InStep
  <2>5. Ended'
    BY <1>7, <2>2 DEF Ready, Store, driver, TypeOK, Ended
  <2> QED BY <2>1, <2>4, <2>5
<1>8. CASE Fail
  <2>1. /\ ERR' /\ ~ BSY' /\ BSY /\ left' = 0
        /\ UNCHANGED <<driver, cmd, first, cur, stored>>
    BY <1>8 DEF Fail
  <2>2. TypeOK' /\ (InStep => InStep')
    BY <2>1 DEF driver, TypeOK, InStep, Buffered
  <2> QED BY <2>1, <2>2 DEF driver, Looping, Ended
<1>9. CASE UNCHANGED vars
  BY <1>9 DEF vars, driver, drive, TypeOK, Looping, Ended, InStep, Buffered
<1> QED BY <1>1, <1>2, <1>3, <1>4, <1>5, <1>6, <1>7, <1>8, <1>9 DEF Next, Driver

\* The inductive invariant holds in every state of driver and drive.
THEOREM Inductive == Spec => []IInv
  BY InitIInv, NextIInv, PTL DEF Spec

\* A request that ata_read_sectors or ata_write_sectors reports as successful
\* has moved exactly the sectors asked for, for every first sector and count.
THEOREM Honest == Spec => []SuccessIsHonest
<1>1. IInv => SuccessIsHonest
  BY DEF IInv, TypeOK, Ended, InStep, Buffered, SuccessIsHonest
<1> QED BY <1>1, Inductive, PTL

\* The driver writes a command only to a drive that is not busy, and moves a
\* sector only when the drive has asked for it.
THEOREM Registers == Spec => RegistersRespected
<1> DEFINE Obeys == /\ (pc = "wait" /\ pc' = "busy") => ~ BSY
                    /\ i' = i + 1 => DRQ /\ ~ BSY /\ left > 0
<1>1. ASSUME IInv, [Next]_vars PROVE [Obeys]_vars
  <2> USE DEF IInv, TypeOK
  <2>1. ASSUME NEW o \in Ops, NEW l \in LBAs, NEW n \in Counts, Request(o, l, n) PROVE Obeys
    BY <1>1, <2>1 DEF Request
  <2>2. CASE Command
    BY <1>1, <2>2 DEF Command
  <2>3. CASE WaitBusy \/ WaitDrq \/ CheckError
    BY <1>1, <2>3 DEF WaitBusy, WaitDrq, CheckError
  <2>4. CASE Move
    BY <1>1, <2>4 DEF Move, Looping
  <2>5. CASE Ready \/ Fail
    <3>1. UNCHANGED driver
      BY <2>5 DEF Ready, Fail
    <3> QED BY <1>1, <3>1 DEF driver
  <2> QED BY <1>1, <2>1, <2>2, <2>3, <2>4, <2>5 DEF Next, Driver
<1> QED BY <1>1, Inductive, PTL DEF Spec, RegistersRespected
=============================================================================
