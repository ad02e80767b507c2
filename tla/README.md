# A TLA+ development of the system44 kernel

system44 is a small 32-bit kernel: a boot sector, a polling disk driver, a flat
file system, a page allocator, a cooperative scheduler, an interrupt-driven
keyboard and a shell, about 2 700 lines of C and assembly. This directory holds
TLA+ modules of the parts with state and control of their own, TLC
configurations that check them on small instances, and TLAPS proofs of the safety
properties for every size. `PROJECT.json` says for every definition which source lines it
models.

## 1. Inventory

| component (source under `src/`) | state | operations | talks to | what makes it correct |
|---|---|---|---|---|
| scheduler (`kernel/sched/sched.c`, `kernel/core/switch.S`) | process table `ptable`: states, context pointers, `current`, `sched_context` | `sched_init`, `task_l_spawn`, `m_scheduler`, `yield`, `swtch` | `kmain` starts it, every task yields to it | only live stack frames are loaded; `current` is the running task; round robin; every task runs |
| page allocator (`kernel/mm/pmm.c`) | bitmap, `max_pages`, hint `last_free_page` | `pmm_init`, `pmm_alloc`, `pmm_free` | `uex.c`/`exec.c` and `fb.c` take and return runs | no page given twice; a refusal means there is no room; every call returns |
| keyboard (`kernel/drivers/keyboard.c`) | ring `kbd_buffer`, `kbd_head`, `kbd_tail`, `shift` | `keyboardirqh`, `get_key` | `irq1h` calls the first, the shell the second; they share the ring without a lock | FIFO, nothing lost while there is room, shift follows the keys |
| kfs (`kernel/fs/kfs.c`, image by `scripts/genkfs.py`) | `superblock` in memory; the volume on disk | `kfs_mount`, `kfs_find`, `kfs_read`, `kfs_write`, (`kfs_mkfs`, uncalled) | ATA driver below; vfs, shell, loader above | files do not overlap, survive crashes and failed transfers, keep their contents |
| vfs (`kernel/fs/vfs.c`) | none | `vfs_l_open`, `vfs_l_write`, `vfs_l_read` | kfs, tty | as kfs |
| ATA driver (`kernel/drivers/ata.c`) | none between calls; the drive's registers | `ata_read_sectors`, `ata_write_sectors`, (`ata_init`, uncalled) | drive, kfs, loader | protocol obeyed, success means the data moved, every request returns |
| shell (`kernel/core/shell.c`) | `chars[128]`, `i`, `cat_buffer` | the editing loop, the chain of commands | `get_key`, `yield`, kfs, `exec`, `reboot` | the command and argument executed are those on the screen |
| interrupts, PIC, PIT (`kernel/int/interrupts.c`) | IDT, masks, `ticks` | `int_init`, `irq0h`, `irq1h`, exception handlers, system call stub, `pitsetfreq` | keyboard, time, panic | every interrupt acknowledged once, ticks count on |
| time (`kernel/lib/time.c`) | none (reads `ticks`) | `usleep`, `sleep` | timer | returns after the stated ticks, also when the counter wraps |
| start-up (`boot/boot.s`, `kernel/core/entry.s`, `kernel/core/init.c`) | the E820 map at a fixed address | boot sector, `kmain` | everything | order of initialisation |
| loader (`kernel/exe/uex.c`, `kernel/lib/exec.c`; programs packed by `scripts/pack_uex.py`) | one allocation per program | `uexExec`, `exec`, `execv`; the system call | kfs, ATA, allocator | the program is in memory as packed; stays inside its pages, gives them back |
| PCI (`kernel/drivers/pci.c`) | result array | `pciEnumerate`, `pciProbeBars` (uncalled) | `kmain` | each function reported once, registers restored |
| screen (`kernel/drivers/tty.c`, `fb.c`, `fbcon.c`) | cursor, frame buffer | `tty_putc`, `clear`, drawing, `fblogo` (uncalled) | all output; task1 draws past the terminal | what was written is what is shown; the cursor stays on the screen |
| power, panic, log (`kernel/core/*.c`) | none | `reboot`, `shutdown`, `panic`, `klog`, `cpuident` | | |
| memory map listing (`kernel/mm/lmm.c`) | none | `mmp` | the boot sector's map, log | what it prints is what `pmm_init` reads |
| library (`kernel/lib/*.c`) | `strtok`'s pointer | strings, formatting, memory | | what is printed can be read back |
| not built (`tty_vtm.c`, `vga.c`, `paging.c`; `EXCLUDE_SRCS` in the Makefile), font table | | | | |

**How the parts interact.** One CPU. `kmain` initialises, mounts the volume,
spawns `task1` and `sh` and becomes the scheduler loop. Tasks give up the CPU
only in `yield`; interrupts (timer, keyboard) can come between any two
instructions of a task, run through interrupt gates, hence to their end, and
touch only `ticks` and the keyboard's variables. So there are two sources of
concurrency, tasks at their yields and the interrupt handlers against `get_key`
and `usleep`, and a third party that moves by itself, the disk.

**What is hard to test**: the interrupt between two memory accesses of
`get_key`; a table slot filled while the sweep of the scheduler is under way; a
search that starts in the middle of a bitmap after a long history of releases;
power loss or a failed transfer between the data and the superblock; the order
of status bits of a failing drive; text left in the line buffer behind the
cursor. `PROJECT.json` lists these hazards with their lines and the properties
that watch them.

## 2. Plan

In this order; all of it is done.

| step | modules | content |
|---|---|---|
| 1 | `Sched`, `MCSched` | scheduler and context switch |
| 2 | `PageAlloc`, `Pmm`, `MCPmm`, `PmmProofs` | abstract allocator, bitmap search, refinement |
| 3 | `KeyQueue`, `Keyboard`, `MCKeyboard` | abstract queue, interrupt handler and reader, refinement |
| 4 | `Kfs`, `MCKfs` | volume, writing under faults and power loss, `touch`, `cat`, vfs |
| 5 | `Ata`, `MCAta` | driver and drive |
| 6 | `Tty`, `Shell` (on `Tty`), `MCShell` | terminal, line editor with its echo, command and argument |
| 7 | `MemInit` | the E820 loop of the boot sector and `pmm_init`, against the reference "free iff usable and not the bitmap's" |
| 8 | `Kernel` (extends `Sched`, composing it with the tasks), `MCKernel` | timer and keyboard interrupts, `usleep` on the wrapping counter, the interrupt flag, `reboot`, `panic` |
| 9 | `Loader`, as a client of `PageAlloc`, `MCLoader` | `uexExec`, `exec`, `fblogo`: pages taken, filled and given back, also on errors |
| 10 | `Pci`, `Format`, `Startup` (composes both with `MemInit`), `MCStartup` | enumeration and BAR sizes, formatting, and kmain's inventory of the machine up to the mounting of the disk |
| 11 | `KeyboardProofs`, `KfsProofs`, `AtaProofs` | `Keyboard` implements `KeyQueue`; no overlap and committed data intact; honesty of the driver |
| 12 | `KernelProofs`, `ShellProofs`, `LoaderProofs` | the scheduler, alone and inside the kernel, and the length of a sleep; the line typed and its echo; what is in memory and on the screen, and the pages given back |
| 13 | `StartupProofs` | exact free pages and a safe bitmap for every page-aligned map, every function found once, BARs restored and sized |

## 3. The modules and the code

### Sched
One slot of `ptable` is one index of `state` and `context`. `swtch` leaves a
frame that can be popped once, so a context pointer is `"null"`, `"static"` (the
zeroed `scheduler_context`), `"saved"` or `"stale"`, and loading anything but
`"saved"` sends the CPU to `"lost"`. `cpu` says whose code runs. Actions:
`sched_init`, `task_l_spawn`, `m_scheduler` (entering the loop), `NextSlot`
(loop control), `Dispatch` (to `swtch`), `yield`, `Resume` (behind `swtch`).
`task_l_spawn` is called by `kmain`; it is also allowed from a running task,
because nothing in it depends on the caller. `since` is a history variable: the
slots dispatched while a task was waiting.

### PageAlloc and Pmm
`PageAlloc` is what a caller may rely on: `Request`, `Grant` a free run, `Refuse`,
`Release`. `Pmm` has one action per turn of the search loops of `pmm_alloc`:
`SkipWord`, `PageUsed`, `PageFree`, `Found`, `StartOver` (second pass below the
hint), `GiveUp`; and `pmm_free` as one step. The bitmap is the set of set bits;
`ReservedMaps` are the maps that `pmm_init` may leave, of which only "page 0 is
marked" is used. `nested` distinguishes two kinds of clients, and is chosen once:
those of this kernel release the youngest run first (`exec` and the image
drawing of `fb.c` return their pages before their callers go on), and clients that release in any
order.

What a refusal means is not obvious, since the first pass begins at the hint
and the second ends at it: a run that lies across the hint is seen by neither.
The module states the exact strength: with nested releases the page below the
hint is always in use, and a refusal of `n` pages means that no `n` consecutive
pages are free; with releases in any order it means only that no `2n - 1` are
(`Slack`; the bound is tight). After a refusal the hint is 0, so that a second
attempt is exact (`RetryIsExact`).

### KeyQueue and Keyboard
`keyboardirqh` is one step (interrupt gate), with the cases of the code as
`ShiftDown`, `ShiftUp`, `Ignored`, `Typed`. `get_key` is a step for each access to
shared memory: `Check`, `Load`, `Advance`, `Return`. `kbd_head` and `kbd_tail` are
volatile, `kbd_buffer` is not, so the compiler may move the load of the slot
behind the store of `kbd_tail`; both orders are in the model. The keyboard is the
environment: the keys that are down (`held`), the codes of the last one still to be
sent (`todo`), and the codes waiting (`wire`); a key may repeat while it is held. Grey keys
send 0xE0 before their code, and may send a fake shift: 0xE0 and a code of a shift key
that contradicts the shift keys when the grey key goes down (Print Screen, and arrows with Num Lock,
send E0 2A while no shift key is down; arrows send E0 AA while one is), and one that takes it back when it goes
up. The handler drops every 0xE0 (it has bit 7 set) and takes the 2A or AA behind it for a
shift key. A code that finds no room is lost (`Lose`), whichever it is. `KeyQueue` is a bounded FIFO queue with an explicit loss at the limit.

### Kfs
`superblock` is the copy in memory, `disk_super` sector 0 and `disk` the other
sectors. `kfs_write` appends the entry (in memory from then on), `DataSector` and
`DataError` are the transfer whose outcome the code ignores, `SuperWritten` and
`SuperError` the transfer of the superblock. `PowerOff` may come between any two
sectors; `kfs_mount` reads the volume again. `touch` and `cat` are the shell's,
`vfs_l_write` the vfs's. `shown.fault` records whether the disk or only the driver refused a read. The driver below is abstracted to: takes the count modulo
`COUNT` (the `uint8_t` parameter), rejects 0, completes sector by sector or fails.
Sizes are in sectors, since `kfs.c` uses them rounded up; a sector holds the piece
of the data that was written there. `data` and `whole` in an entry are history.

### Ata
`Request`, `Command` (wait for BSY to clear, write the registers), then per sector
`WaitBusy`, `WaitDrq`, `CheckError`, `Move`. Reading and writing have the same
control and share the actions. The drive is external: `Ready` ends the work on a
sector, `Fail` raises ERR, with or without DRQ. The drive keeps no write cache and
raises BSY at once when the command is written (the 400 ns in which the
status may still be old are not modelled).

### Tty and Shell
`Tty` is the terminal as a value: the cursor and what each visible cell shows;
`tty_putc` maps a terminal and a character to the next terminal. Positions count
characters instead of pixels. The glyphs of the space and of the backspace are full blocks in the
background colour, so drawing them clears a cell; any other glyph only adds pixels, which
matters for the cursor alone (it is drawn over the next cell). `fbcstr`, which has no cursor,
fills its cells at once; `tty_puts` is a recursive function over the text. The layout
(`COLS`, `ROWS`) and the frame buffer (`FBCOLS`, `FBROWS`) have different sizes, as in the
code: 1440 x 800 pixels are laid out, mode 0x118 shows 1024 x 768. `'\r'` is not
printed by any caller.

`Shell` has the buffer `chars` with its cursor, one action per kind of key (`Erase`,
`LineFull`, `Enter`, `Store`), each with its echo, and `Run`: `strtok` cuts the line at the first space
(`Cut`), the word decides the command, and the argument is the C string at a fixed
offset. A command word is one letter,
so that the fixed offset is 2 instead of 4, 5 or 6: the relation "length of the
word plus one" is kept. What a command prints is left open: the next prompt stands
anywhere on the screen (a line that ran full ends without a newline, so also in the
middle of a line), and the cells hold something old. `typed`, `home` and `bent` are
history: the line as meant, the place behind the prompt, and whether a tab was typed or a
backspace found the cursor in the top left corner. Between any two keys the shell
yields, and `task1` draws its label and counter at a fixed place (`Counter`), over any
text that is there; `clear` empties the screen.

### MemInit
The boot sector writes the entries it gets from the BIOS one behind the other,
advancing by the number of bytes the BIOS returns; the kernel reads structures of
20 bytes. `mmap` is therefore the sequence of words that were written, and `Entry`
reads five of them. `E820` and `Int12` are the boot sector; `FindTop`,
`PlaceBitmap`, `MarkUsable` and `Reserve` are the four loops of `pmm_init`, with their
arithmetic on low and high words (`WRAP` stands for 2^32). The BIOS is external:
its map, the size of its entries and how it ends the map are a constant.

### Format, Pci and Startup
`Startup` is kmain from the boot sector's hand-over to `kfs_mount`, seen from the data:
`Boot` (the actions of `MemInit`), `mmp` (one line per entry of the map), `pmm_init` (again
`MemInit`), `Enumerate` (one function asked per step, `dev` and `fn` being the loop variables), `List` (one line per function), and
`ListRest` for the rest of the array `pcis`, which nobody has initialised: any number of
lines may come of it. `Driver` then calls `pciProbeBars`, which no code in the repository
does yet. Interrupts only move `ticks` here, so a line has any time not before the last.

`Format` has the conversions as operators on sequences of characters: `printf` with its
one pass over the format (`Conversion`; `%f` is left out), `ts`, `klog`, and the fixed-width
numbers of `mmp` (`FixedHex`). `Fields` and `Number` are a reader's side: runs of digits and
their value.

`Pci` has a configuration space (address of a function to registers), read as the code
does by address and offset, all ones where nothing answers. `Sticks` is the hardware's
side of a BAR: which bits of a write it keeps. What the machine may be is `BusAssumption`: header bytes,
vendors that are neither 0 nor all ones, BARs that are empty, for ports (`IsSingle`), for memory, or of 64 bits
over two registers (`IsDouble`), with sizes that divide the address space. `SizeBar` and `SizeBar64` are the turns of
the loop in `pciProbeBars`; the fields of a result have the widths of `pci.h`. A byte has `BYTE` values
instead of 256.

### Loader
`exec` finds the file and reads the header, `PlaceFixed`/`PlaceAnywhere` choose the
address (`Granted` and `Refused` are the answers of `PageAlloc`, the abstract allocator that
`Pmm` is proved to implement), `FirstChunk` copies what follows the header in the first
sector, `ReadRest` or `ReadRestFails` reads the others in place, `Start` clears the rest of
the pages and enters the program, `Syscall` is its int 0x80, and `ProgramReturns` gives the
pages back. `fblogo` has the same shape with the picture's headers: `LogoPages`,
`LogoSector` (a turn of the loop in `kfsExtension0`), `LogoFails`, `LogoDraw`. Memory is the
function `wrote` of the bytes written by the operation in progress, which `memcpy` overwrites. Programs are
those `scripts/pack_uex.py` makes, so `memSize` is `fileSize` rounded up to pages. A
file too short for the picture's headers leaves them uninitialised, so that they are the
headers of any picture.

### Kernel
Extends `Sched` and composes its actions (`Scheduler`) with the code
of the two tasks, kmain's order of initialisation, the interrupt flag, the
interrupt controller (`irr`, `isr`), timer and keyboard. `task1` draws, sleeps
(`usleep`, one step per turn of its loop) and yields; `sh` polls, takes keys, and runs
commands, of which `reboot` (interrupts off, then back to the prompt until the reset
comes) and `shutdown` (ends in `panic`) stop the kernel. The keyboard ring is the
queue `KeyQueue` promises, reduced to its length. Keys may be pressed and the timer may
tick from power-on; when `int_init` programs the controller, any of the requests that wait
may be lost (`lost` records that of a key). `SchedulerSound` is what `Sched` promises, said of the
composed system, where interrupts, panics and resets come in between. Programs started by `exec` are
taken to return.

## 4. Runs

| run | bounds | what it shows |
|---|---|---|
| `sched` | all 8 slots | `NeverLost`, `CurrentIsRunning`; `NoOvertaking`: no task is dispatched twice while another waits, wherever tasks are spawned; `EveryTaskRuns` |
| `pmm` | 8 pages, words of 3, requests up to 3, three maps, both orders of release | `BitmapExact`, `RetryIsExact`, `AllocReturns`, `ImplementsPageAlloc` |
| `keyboard` | ring of 3, room for 2 codes, fewer than a grey key can send at once; one of two keyboards: a key with two characters and a shift key, or two shift keys and two grey keys | `NoStuckShift`, `FullDrains`, `ImplementsKeyQueue` |
| `kfs` | 3 entries, sizes 0 to 3 with counts modulo 3, 6 sectors, two names and two contents, faults and power loss | `DiskIsPrefix`, `NoOverlap`, `CommittedDataIntact`, `CommittedStable`, `CatShowsTheFile` |
| `ata` | up to 3 sectors at two places, both kinds of error | `SuccessIsHonest`, `RegistersRespected`, `RequestReturns` |
| `ata_failure` | one read of one sector | violation: `FailureIsReported` |
| `shell` | buffer of 5, two letters, space and tab, or one letter, space and Esc; two lines of four columns, three of them visible, two cells for task1's counter | `LineIsTyped`, `EchoIsExact`, `CommandIsFirstWord`, `ArgumentIsRest` |
| `shell_argument` | the same | violation: `ArgumentIsTyped` |
| `boot` | every map of up to two page-aligned entries in 9 pages and up to three in 6, in any order, usable or reserved, words of 64 values, 4 bytes a page, 2 bits a byte; or every set of functions in 2 slots of 3; or every layout of 3 BARs out of nine kinds and four 64-bit ones, bytes of 4 values; two times | `FreeIsExact`, `BitmapIsSafe`, `EveryFunctionFound`, `LogReadsBack`, `BarsExact`; as assumptions, `%d` for all numbers of 8 bits and `%s` for all texts of 4 characters |
| `boot_large` | one machine with a hole below 1 MB and memory above the first word | violation: `OnlyUsableFree` |
| `loader` | sectors of 3 bytes, pages of 6, 7 pages of which 2 are reserved, counts modulo 4; programs of every size until the count has wrapped, at a fixed address (not that of a page) or anywhere; five pictures, three places | `ImageExact`, `WritesStayNear`, `PagesReturned`, `PictureExact` |
| `kernel` | 8 slots, two tasks, `ticks` modulo 5, a sleep of 3, 2 characters waiting | `SchedulerSound`, `SleepLength`, `KeyAnswered`, `BothTasksRun` |

**Why the bounds are enough.** `sched` has the size of the code. `pmm` has an
incomplete last word, a hint in the middle of a word, a full word to skip, and
runs on both sides of the hint; the proofs remove the bounds. A ring of 3 holds 2
characters: empty, partly filled, full and wrapped states all occur, with several
interrupts inside one `get_key`. On the second keyboard every code of a sequence, real or fake,
is lost on some path, and shift and grey keys overlap in every order; it has no key with a
character, which would not touch `shift`, as the first one has no grey keys, which do not touch the ring. In `kfs` the table fills up, a name is written
twice, the count wraps to 0 (a file of 3 sectors), a file runs past the end of the
disk, and a volume is written on after a crash in each phase. In `ata` a request
follows a write whose last sector is still on its way. In `shell` a line can be
filled, erased and typed over completely; it starts at every place of the screen and
crosses the end of a line and the end of the screen in both directions. In `boot` the bitmap has up to two pages,
is placed above and below 1 MB or nowhere, and may be longer than the first region
found; a device with one function answers under all numbers, and one with several has gaps; BARs are
unassigned, assigned, of a size the byte cannot hold, and 64-bit ones in both places with a size below and above
one word. In `loader` a program ends at every place of a sector and of a page, including the
last bytes of a page, where the read runs over it; failed reads use up the memory, so that later
requests are refused; pictures lie across sectors and over the edges of the screen. In `kernel` the counter wraps inside and outside a sleep, and keys come in
every phase. State spaces have between 900 and 1.6
million states and each run takes about a minute or less.

**Deadlock** is checked except where the system may stop: in `ata` and `ata_failure` an
error reported without DRQ stops the driver for ever (the first finding below),
`boot` and `boot_large` end when kmain goes on to mount the disk, and in `kernel` a panic halts.

**Fairness.** `Sched`: `kmain` reaches `m_scheduler`, the loop goes on, and a task that
has the CPU yields again, since `task1` and `sh` call `yield` in every turn of their
loops. This leaves out a program started with `exec` that never returns and a
driver waiting for a dead disk: then the CPU is held by one task for good. `Pmm`: a
call that has begun goes on (interrupt handlers do not use the allocator).
`Keyboard`: the shell keeps calling `get_key` and IRQ 1 is unmasked; no fairness is
assumed of the keyboard, and of its fake make codes only that each is taken back when its key
goes up, or a shift key is down then. `Ata`: the driver polls without pause and the drive answers
each command, with success or an error. `Kernel`: the CPU
goes on, the controller passes on requests, the timer ticks; devices are slow, so
the CPU gets on between two requests of the same device. Nothing is assumed of the
tasks: that they yield again, which `Sched` assumes, follows (`BothTasksRun`) as long
as the kernel has not stopped. `Kfs`, `Shell`, `Startup` and `Loader` have safety properties only
and assume no fairness.

### Findings
1. `ata_failure`: `ata_wait_drq` (`ata.c:30`) waits for DRQ and looks at ERR only
   afterwards. A drive that ends a failed command with ERR and without DRQ leaves
   the driver, and with it the whole cooperative system, polling for ever; the
   messages of `kfs_mount` and `cat` for this case are never printed.
2. `shell_argument`: backspace leaves characters in `chars`. If the argument and the
   space before it are erased, Enter puts the terminator on the space and the erased
   argument is still found behind it: the command runs with an argument that is no
   longer on the screen. `ArgumentIsRest` shows that this is the only case: as soon as
   the line goes on behind the word, the argument is the rest of the line.
3. `boot_large`: `pmm_init` uses only the low words of an entry when it marks pages, so
   memory above 4 GB makes it mark pages at the bottom of memory as free, reserved
   ones included.

**What the passing properties say of weak points.** Some properties hold only with an
exception that is part of their statement:
- `CatShowsTheFile`: on a disk that works, `cat` still reports an I/O error for an empty file,
  since a request for 0 sectors is an error for the driver.
- `PagesReturned`: a read that fails behind the header makes `uexExec` return without
  giving back its pages; nobody knows them any more.
- `WritesStayNear`: when the last page has fewer bytes left than the header takes (24), the
  last sector is read past the pages of the program, which puts 488 zeros into the
  page behind it.
- `ImageExact`: programs with 256 or more sectors behind the first are read in part, or
  refused if the number is a multiple of 256.
- `NoStuckShift`: `shift` is 1 without a shift key while a grey key is down that sent E0 2A, and it
  stays 1 when the last break code of a shift key found no room, or when a keyboard takes back E0 AA by
  E0 2A although the shift key has gone up. The next break code of a shift key that arrives ends it. The
  reverse, `shift` 0 while a shift key is down, happens too (a grey key with E0 AA, or one of two shift
  keys going up) and nothing is stated of it.
- `KeyAnswered`: a key pressed before `int_init` can silence the keyboard for good.
- `BarsExact`: sizes are right modulo 256, since `size` is a byte; a BAR without an address is
  reported as empty.
- `BitmapIsSafe`: `pmm_init` gives up, with `max_pages` set and no bitmap, whenever the map came from
  int 0x12, or no usable region but the one at 0 is long enough.
- `LogReadsBack`: lines made from the uninitialised part of `pcis` may follow the real ones.
- `EchoIsExact`: not in the cells of task1's counter, and not for lines with a tab. Esc takes a column and shows nothing.

Further observations without a statement in the repository to hold them against:
memory map entries of 24 bytes are misread from the second on; the kernel's own memory is not reserved; `sh`
does not yield after a completed line; backspace does not go back from the top left
corner to the bottom; the last columns and lines of the terminal are outside of the
video mode; `int_line` is read from byte 1 of its register, which is the interrupt pin;
the cases of `syscallh` fall through, and every system call returns `ERR_FAILED`; `exec`
reports every failure as a format error.

## 5. Proofs

TLAPS checks the modules `*Proofs`, for every value of the constants that satisfies the
assumptions. These are the facts the code fixes:

| proofs | assumption | where it comes from |
|---|---|---|
| `PmmProofs` | `PmmAssumption`: at least one page and one page per word, page 0 marked in every map | the last change `pmm_init` makes to the bitmap |
| `KeyboardProofs` | `KeyboardAssumption`, `NoneAssumption`: a ring of at least 2, three kinds of keys, grey keys are no shift keys, 0xE0 is no key, get_key's 0 is no character | `KBDBUF` is 256; `kbdus`; the codes of the keyboard |
| `KfsProofs` | `KfsAssumption`, `ImageAssumption`: what `cat` reads at most is less than the driver's count can say, the first image fits the table and the disk | 8192 bytes are 16 sectors, of 255; `genkfs.py` builds the image |
| `AtaProofs` | `AtaAssumption`: sectors and counts are natural numbers | |
| `KernelProofs` | `NPROCAssumption` (the scheduler alone): at least one slot; `KernelAssumption`: two slots, a sleep shorter than the period of `ticks` | 8 slots; at most 100 ticks of 2^32 |
| `ShellProofs` | `ShellAssumption`, `CharsAssumption`: a line shorter than the screen, task1's label right of the left edge, characters are different ones | 128 characters on 160 x 50 cells |
| `LoaderProofs` | `LoaderAssumption`: the header is shorter than a sector, a page is whole sectors, the sizes in a program's header are those of `pack_uex.py` (its address is arbitrary), page 0 is reserved | 24, 512 and 4096 bytes |
| `StartupProofs` | `MemInitAssumption`, `StartupAssumption`: units are not 0, the array has room for every function of the bus; `BusAssumption`: at most 8 functions and 6 BARs, bytes of even range, a machine as PCI defines it | `pcis[1024]` for 32 x 8; the widths of the fields of an address; the hardware |

Each module has one inductive invariant `IInv` (theorem `Inductive`; `KernelProofs` has a second one,
`SleepInv`, and `StartupProofs` has `MemInv` and `PciInv`), checked with TLC on the
instance of the run before it was proved, one lemma per action that preserves it or a step of
`NextIInv`, and the listed theorems as consequences.

**Scheduler** (first part of `KernelProofs`). `TypeCorrect`, `ContextSafety`, `RunningIsCurrent` and `RoundRobin`, from
the inductive invariant `IInv`:
- `ContextsLive`: waiting tasks have live frames, and so has the scheduler while a
  task runs; without it nothing is known about the frame `swtch` loads next;
- `Control`: which slot is RUNNING, and that it is the slot of the loop's cursor;
- `Order`: the slots dispatched while `i` was waiting are those the cursor has passed
  since (`Passed(i, Cursor)`): before the cursor or beyond `i` if `i` is still ahead,
  between `i` and the cursor if it has been passed. `NoOvertaking` follows since
  the slot under the cursor is never among them.

**Page allocator.** `TypeCorrect`, `BitmapIsExact`, `RetryExact` and `Refinement`
(`Spec => ImplementsPageAlloc`). The invariant has the loop invariant of the two
passes, `Loop`: no run of the requested length lies in the part searched so far
(`NoRunIn`), the run being collected is free and maximal downwards (`Collected`), and
in the second pass the part above the old hint has no run either. `Hint` says that
with nested releases the page below the hint is in use; it needs that the page below
each live run was in use when it was granted, which is why runs record the pages in
use at that time. `SkipWord` preserves `NoRunIn` because a run that ends inside a
full word would contain one of its pages. For releases in any order, a free run of
`2n - 1` pages that crosses the old hint would have `n` of its pages on one side.

**Keyboard.** `ShiftReleased` and `RingIsQueue` (`Spec => ImplementsKeyQueue`); that both indices stay
in the ring (`TypeCorrect`) is part of the invariant.
- `ShiftInv`: if nothing is `Down` (no shift key, no grey key that sent a fake make code, and the
  keyboard is not misled) and no break code of a shift key is still to be sent (`UpToSend`), then the
  last code of a shift key on the wire, if there is one, is a break code, and if there is none `shift` is 0.
  `NoStuckShift` alone speaks of an empty wire and says nothing about what the codes on their way will do.
- `Reader`: between two accesses of `get_key` the ring is not empty and the slot read, or just
  given up, still holds its character. Only `Advance` moves the tail, and the handler never fills
  the slot behind it; this is what makes the late load of the slot harmless.

The refinement maps the ring to the characters from tail to head (`Waiting`) and the local
variable to the hand of the queue (`Hand`, also for a slot given up but not read yet). The
lemmas turn indices modulo `KBDBUF` into distances.

**File system.** `TypeCorrect`, `MemoryIsAhead`, `FilesApart`, `CrashConsistent`, `CatIsTrue` and
`CommittedForEver`.
- `Layout`: each file of a table starts behind the files before it, as `kfs_write` sums it up
  (`Lba`). Then no later file reaches into an earlier one, which neither `NoOverlap` nor the start
  sectors alone would keep when an entry is appended.
- `Prefix`: the disk lists entries that no step changes any more (`Settled`), and these are the
  same in memory. A failed superblock transfer leaves the memory ahead of the disk.
- `AllOnDisk`: both tables' complete files are on the disk piece by piece. It has to speak of the table
  in memory too, since that one becomes the disk's at the next success. `DataSector` preserves
  it because the new file lies behind all others, also after remounting from an older table.
- `Writing`: the file in progress is there up to the loop variable.
- `ScreenIsTrue`: what `cat` has shown was true of the entry that lookup still finds.

`Lba` is a recursive function. That it is well defined, that it only looks at the entries
before its argument and that it grows, is proved by taking the least counterexample of a set of
numbers, without the induction theorems.

**Disk driver.** `Honest` and `Registers`. `Looping` says that driver and drive are in step
(`InStep`: the same command, the same sector, everything before it moved) and that what the driver
has seen of BSY, DRQ and ERR still holds when it acts on it: the drive is only free to change them while
BSY is set. `Ended` carries this over to the end of a request.

**Kernel.** `NeverEarly` and `SchedulerKept`. `Counting` says that the difference of the wrapping counters is the
number of ticks since the call, until the sleep is over; it needs that the sleep is shorter than the period.
`SchedulerKept` uses the lemmas about the scheduler: `SchedStep` shows that a step of the kernel is a step of
`Sched`, leaves its variables alone, or is a reset, and `SchedRestart` that `Sched` starts again after a reset. So
`NextIInv` carries the invariant of `Sched` over to the composition.

**Shell and terminal.** `TypeCorrect`, `LineKept`, `CommandRuns`, `ArgumentPassed`, `EchoExact`.
- `LineInv`: the buffer begins with what was typed, and its last byte is never written. Without the
  latter the strings `strtok` and the argument are taken from need not end.
- `ScreenInv`: the cursor is `i` places behind the end of the prompt, and outside the counter the letters on the
  screen are those of the line at their places (`Echoes`), in both directions: a letter that is shown is in the line, and
  one that is in the line is shown. The place of the k-th character counts modulo the screen (`Pos`);
  two characters of a line never share a place, because the line is shorter than the screen. The prompt
  comes on a screen without letters (`NoLetters`): what commands have printed counts as old.
- `Does`: command and argument are functions of the line.

About `Tty`, lemmas say for each kind of character where the cursor goes and which cells change, and
the loop of `tty_puts` is followed for the text it gets from the shell, the prompt.

**Loader.** `ImageLoaded`, `WritesNear`, `PagesComeBack`, `PictureShown`.
- `Control`, `PagesInv`: which file is loaded in which stage, and that the operation holds exactly one run
  more than before it. That only relocatable programs wait for the allocator, which `PlaceAnywhere` tests, is part of it.
- `ProgramInv`: the addresses written so far (`Chunk` of the first sector, `Reach` of the others, then the
  zeros), and that every byte written is the program's or 0.
- `PictureInv`: behind the first sector `kfsExtension0` always stands at a sector boundary of the
  file, or at the end; so the offset that is only used in the first turn is right in all of them.

The arithmetic is in lemmas: rounding up to sectors and pages, and that a sector read at an address shifted
by the header runs past the last page only if the page has less room than the header.

**Start-up.** `FreeExact`, `BitmapSafe`, `AllFound` and `BarsAreExact`.
- `MemInv` follows the memory map. While the boot sector copies (`Copying`), the words written are the entries
  so far, at the places where the kernel looks for them; at the end the kernel's view is the BIOS's map
  (`FromBios`) or the single entry of int 0x12. `Topped` says that no usable entry ends behind the pages
  the bitmap is made for, `Placed` that the bitmap lies in a usable entry that has room for it. The two
  theorems are about memory maps that are `RegularMap`: page-aligned, below 4 GB, in entries of 20 bytes (or one entry of any size).
  On others the code does something else (finding 3, and `BitmapPages`, which counts from an aligned start);
  every regular machine of the run `boot` meets the condition, as TLC checks (`RegularAssumption`). Entries may be in
  any order, and as many as one likes; they may also overlap. From the map of int 0x12 `pmm_init` always
  gives up, because its entry starts at 0.
- `PciInv` has three parts. `Wiring`: the registers are the machine's; every access to a BAR ends with them
  restored. `SearchInv`: the array holds exactly the functions that the two loops have passed (`Before`), in
  their order, so it can never be longer than the number of turns. It needs that a number above 0 is
  only asked on a device that says it has several (`Several`); `SearchStep` shows that leaving a device early
  leaves nothing behind. `SizingInv`: the BARs before `i` are reported as they are (`Sized`) and `i` is never at the second half of one of
  64 bits; otherwise that half would be taken for a BAR of its own.
- The arithmetic is in lemmas of its own: division and remainder of sums and products (`Quotient`, `Multiples`),
  what sticks of all ones in a register (`Register`, with the conditions `Fits`), and that the two halves of
  64 bits together keep what one register of that width would keep (`DoubleKeeps`), for sizes below
  and above one word.

**Only model-checked**: liveness (`EveryTaskRuns`, `AllocReturns`, `FullDrains`,
`RequestReturns`, `KeyAnswered`, `BothTasksRun`), which TLAPS does not handle under
fairness, and `LogReadsBack` with the conversions of `Format`. No module uses a
RECURSIVE operator; but that a recursive function such as `Numeral` computes the right text for every
number is an induction over data, which is beyond the prover.

## 6. Not modelled, and assumptions

- The interrupt masks are set once. `pitsetfreq` writes a fixed divisor. The exception
  handler only panics.
- `printf`'s `%f` (floating point, not called), and the length of its buffer: no caller prints more than
  a line. `isqrt`, `sqrt`, `rand`, `srand`, `atoi`, `strncpy`, `sleep`, `fb_rect`: no caller.
- `execv` is `exec` with an argument that the program gets; it has no caller.
- Programs started by `exec` return and keep to their pages. A program packed for a fixed
  address is put there whatever the memory is used for, as the code does.
- A header that `pack_uex.py` would not write, and pictures with negative sizes, are not
  considered.
- `vfs_l_read` is `kfs_read` (it ignores the count it is given); it has no caller.
- `boot` covers maps whose entries are page-aligned, disjoint and below 4 GB, from a
  BIOS with entries of 20 bytes, or with a single one of 24.
- Pixels and colours, the font, port sequences of `shutdown`, the registers that `panic` prints, wording: pure I/O.
- `kfs_mkfs` and `ata_init`: no caller. The magic number of the volume: nothing in the
  kernel writes a different one.
- File names fit their 32 bytes, and what is read fits the reader's buffer.
- Nothing that runs in an interrupt uses the allocator, the process table or the disk
  (true of the handlers in `interrupts.c`).
- `pmm_init` may give up without a bitmap; then `max_pages` stays 0 or the bitmap is
  missing. `Pmm` starts after a `pmm_init` that succeeded.

## 7. Running

    tlc -workers 2 -config MCSched.cfg MCSched
    tlapm KernelProofs.tla

and likewise for the other configurations and for `PmmProofs`, `KeyboardProofs`, `KfsProofs`,
`AtaProofs`, `ShellProofs`, `LoaderProofs` and `StartupProofs`. The proofs take between seconds
(`AtaProofs`) and several minutes (`ShellProofs`).
