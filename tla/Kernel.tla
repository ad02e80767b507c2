------------------------------- MODULE Kernel -------------------------------
(***************************************************************************)
(* The running kernel: kmain (src/kernel/core/init.c), the scheduler with  *)
(* its two tasks, task1, which sleeps on the timer, and sh, which polls    *)
(* the keyboard, and the interrupts of timer and keyboard                  *)
(* (src/kernel/int/interrupts.c) that both wait for.                       *)
(*                                                                         *)
(* It composes Sched, whose actions it takes, with the timer, the          *)
(* interrupt controller and the code of the tasks.  Sched assumes that     *)
(* every task yields again; here that has to follow from the timer.        *)
(*                                                                         *)
(* The CPU takes a pending interrupt before its next instruction, and a    *)
(* handler runs to its end (interrupt gates), so a handler is one step and *)
(* the code goes on when no interrupt is pending.  The queue of characters *)
(* is the one KeyQueue promises; here only its length matters.             *)
(***************************************************************************)
EXTENDS Sched, FiniteSetsExt

CONSTANTS
  TICKS,    \* values of the counter ticks: 2^32 in the code
  SLEEP,    \* the argument of usleep in task1 (100 in the code)
  CAP       \* characters that can wait for get_key (255 in the code)

ASSUME KernelAssumption ==
  /\ NPROC > 1
  /\ SLEEP \in Nat /\ TICKS \in Nat /\ SLEEP < TICKS
  /\ CAP \in Nat \ {0}

VARIABLES
  kpc,       \* where kmain stands
  intr,      \* the interrupt flag of the CPU
  lost,      \* history: the request of a key was lost in int_init
  irr, isr,  \* interrupts requested and in service at the controller
  halted,    \* panic has stopped the CPU
  resetting, \* the reset line was pulled by reboot
  ticks,
  init, tpc, \* usleep's variable, and where task1 stands
  spc,       \* where sh stands
  keys,      \* characters in the ring buffer
  obf,       \* the keyboard controller holds a code
  stepped,   \* the devices since whose last request the CPU has got on
  slept      \* history: ticks since usleep was called, at most SLEEP

pic == <<irr, isr>>
tasks == <<init, tpc, spc, slept>>
kernelVars == <<vars, kpc, intr, lost, pic, halted, resetting, ticks, tasks, keys, obf, stepped>>

\* The tasks' slots, in the order in which kmain spawns them.
task1 == 0
sh == 1

\* The boot sector has disabled interrupts (cli).
KernelInit ==
  /\ Init
  /\ kpc = "int_init"
  /\ intr = FALSE /\ lost = FALSE /\ irr = {} /\ isr = {}
  /\ halted = FALSE /\ resetting = FALSE
  /\ ticks = 0 /\ init = 0 /\ tpc = "draw" /\ spc = "poll"
  /\ keys = 0 /\ obf = FALSE /\ stepped = {0, 1} /\ slept = 0

-----------------------------------------------------------------------------
(* The devices *)

\* pic_remap, which numbers the lines from 0x20, and pic_setm(0xFC, 0xFF): the
\* controller passes on timer and keyboard.
Unmasked == {0, 1}

\* The timer asks for an interrupt.  Devices are slow: the CPU gets on between
\* two requests of the same one.
Tick ==
  /\ 0 \in stepped
  /\ 0 \notin irr
  /\ irr' = irr \cup {0}
  /\ stepped' = stepped \ {0}
  /\ UNCHANGED <<vars, kpc, intr, lost, isr, halted, resetting, ticks, tasks, keys, obf>>

\* A key is pressed, perhaps while the kernel is still starting.
Press ==
  /\ 1 \in stepped
  /\ ~ obf
  /\ obf' = TRUE
  /\ irr' = irr \cup {1}
  /\ stepped' = stepped \ {1}
  /\ UNCHANGED <<vars, kpc, intr, lost, isr, halted, resetting, ticks, tasks, keys>>

\* The machine starts again.
Reset ==
  /\ resetting
  /\ state' = [i \in Slots |-> "UNUSED"] /\ context' = [i \in Slots |-> "null"]
  /\ current' = 0 /\ sched_context' = "null" /\ p' = 0 /\ cpu' = "boot"
  /\ since' = [i \in Slots |-> {}]
  /\ kpc' = "int_init"
  /\ intr' = FALSE /\ lost' = FALSE /\ irr' = {} /\ isr' = {}
  /\ halted' = FALSE /\ resetting' = FALSE
  /\ ticks' = 0 /\ init' = 0 /\ tpc' = "draw" /\ spc' = "poll"
  /\ keys' = 0 /\ obf' = FALSE /\ stepped' = {0, 1} /\ slept' = 0

-----------------------------------------------------------------------------
(* Interrupts *)

\* The controller passes on the most urgent request, unless one at least as
\* urgent is in service.
Accepts(n) ==
  /\ intr
  /\ n \in (irr \cap Unmasked) \ isr
  /\ \A m \in (irr \cap Unmasked) \cup isr : n <= m

\* Mutant of pic_eoi: the command reaches the second controller only.
pic_eoi_Slave(s) == s

\* The end-of-interrupt command: the most urgent one in service is done.
pic_eoi(s) == s \ {Min(s)}

irq0h ==
  /\ Accepts(0)
  /\ irr' = irr \ {0}
  /\ isr' = pic_eoi(isr \cup {0})
  /\ ticks' = (ticks + 1) % TICKS
  /\ slept' = IF tpc = "sleep" /\ slept < SLEEP THEN slept + 1 ELSE slept
  /\ UNCHANGED <<vars, kpc, intr, lost, halted, resetting, init, tpc, spc, keys, obf, stepped>>

\* The code read is a character that fits the ring, or leaves it as it is.
irq1h ==
  /\ Accepts(1)
  /\ irr' = irr \ {1}
  /\ isr' = pic_eoi(isr \cup {1})
  /\ obf' = FALSE
  /\ \/ keys' = keys
     \/ keys < CAP /\ keys' = keys + 1
  /\ UNCHANGED <<vars, kpc, intr, lost, halted, resetting, ticks, tasks, stepped>>

\* What every step of the code has in common.
Step ==
  /\ ~ halted
  /\ \A n \in Unmasked : ~ Accepts(n)
  /\ stepped' = {0, 1}
  /\ UNCHANGED <<isr, ticks, obf>>

Code == Step /\ UNCHANGED irr

-----------------------------------------------------------------------------
(* kmain *)

\* The gates are set, the controller is remapped and passes on both interrupts.
\* Requests that came before may be lost with its initialisation.
int_init ==
  /\ kpc = "int_init"
  /\ Step
  /\ irr' \in SUBSET irr
  /\ lost' = (obf /\ 1 \notin irr')
  /\ kpc' = "sti"
  /\ UNCHANGED <<vars, intr, halted, resetting, tasks, keys>>

sti ==
  /\ kpc = "sti"
  /\ Code
  /\ intr' = TRUE
  /\ kpc' = "mount"
  /\ UNCHANGED <<vars, lost, halted, resetting, tasks, keys>>

\* Interrupts off, and hlt for ever.
panic == intr' = FALSE /\ halted' = TRUE

kfs_mount ==
  /\ kpc = "mount"
  /\ Code
  /\ \/ panic /\ UNCHANGED kpc
     \/ kpc' = "sched_init" /\ UNCHANGED <<intr, halted>>
  /\ UNCHANGED <<vars, lost, resetting, tasks, keys>>

StartTasks ==
  /\ Code
  /\ \/ kpc = "sched_init" /\ sched_init /\ kpc' = "spawn"
     \/ /\ kpc = "spawn"
        /\ \/ state[sh] = "UNUSED" /\ (\E i \in {task1, sh} : task_l_spawn(i)) /\ UNCHANGED kpc
           \/ state[sh] # "UNUSED" /\ m_scheduler /\ kpc' = "run"
  /\ UNCHANGED <<intr, lost, halted, resetting, tasks, keys>>

Scheduler ==
  /\ Code
  /\ NextSlot \/ Dispatch \/ Resume
  /\ UNCHANGED <<kpc, intr, lost, halted, resetting, tasks, keys>>

-----------------------------------------------------------------------------
(* task1 *)

Running(t) == cpu = "task" /\ current = t /\ Code

\* The counter is drawn; usleep notes the time.
Draw ==
  /\ Running(task1)
  /\ tpc = "draw"
  /\ init' = ticks
  /\ slept' = 0
  /\ tpc' = "sleep"
  /\ UNCHANGED <<vars, kpc, intr, lost, halted, resetting, spc, keys>>

\* Mutant of SleepOver: the time at which to wake is computed in advance.
SleepOver_Deadline == ticks >= (init + SLEEP) % TICKS

\* The loop of usleep ends; the difference is taken in 32 bits.
SleepOver == (ticks - init + TICKS) % TICKS >= SLEEP

usleep ==
  /\ Running(task1)
  /\ tpc = "sleep"
  /\ tpc' = IF SleepOver THEN "yield" ELSE "sleep"
  /\ UNCHANGED <<vars, kpc, intr, lost, halted, resetting, init, spc, slept, keys>>

Task1Yields ==
  /\ Running(task1)
  /\ tpc = "yield"
  /\ yield
  /\ tpc' = "draw"
  /\ UNCHANGED <<kpc, intr, lost, halted, resetting, init, spc, slept, keys>>

-----------------------------------------------------------------------------
(* sh *)

\* get_key finds nothing.
NoKey ==
  /\ Running(sh)
  /\ spc = "poll"
  /\ keys = 0
  /\ spc' = "yield"
  /\ UNCHANGED <<vars, kpc, intr, lost, halted, resetting, init, tpc, slept, keys>>

\* Interrupts off, a reset is asked for; reboot returns.
reboot == intr' = FALSE /\ resetting' = TRUE /\ UNCHANGED halted

\* No way to switch off has worked.
shutdown == panic /\ UNCHANGED resetting

\* A character is taken: it is edited into the line and sh yields, or it
\* completes the line, and sh goes on after the command.
TakeKey ==
  /\ Running(sh)
  /\ spc = "poll"
  /\ keys > 0
  /\ keys' = keys - 1
  /\ \/ spc' = "yield" /\ UNCHANGED <<intr, halted, resetting>>
     \/ spc' = "poll" /\ (reboot \/ shutdown \/ UNCHANGED <<intr, halted, resetting>>)
  /\ UNCHANGED <<vars, kpc, lost, init, tpc, slept>>

\* Mutant of ShellYields: without a key the shell polls on.
ShellYields_Polls ==
  /\ Running(sh)
  /\ spc = "yield"
  /\ spc' = "poll"
  /\ UNCHANGED <<vars, kpc, intr, lost, halted, resetting, init, tpc, slept, keys>>

ShellYields ==
  /\ Running(sh)
  /\ spc = "yield"
  /\ yield
  /\ spc' = "poll"
  /\ UNCHANGED <<kpc, intr, lost, halted, resetting, init, tpc, slept, keys>>

CPU ==
  \/ int_init \/ sti \/ kfs_mount \/ StartTasks \/ Scheduler
  \/ Draw \/ usleep \/ Task1Yields
  \/ NoKey \/ TakeKey \/ ShellYields

KernelNext == CPU \/ irq0h \/ irq1h \/ Tick \/ Press \/ Reset

\* The CPU goes on, the controller passes on requests, the timer ticks.  The
\* user need not type, and a reset need not come.
KernelSpec ==
  /\ KernelInit /\ [][KernelNext]_kernelVars
  /\ WF_kernelVars(CPU) /\ WF_kernelVars(irq0h) /\ WF_kernelVars(irq1h) /\ WF_kernelVars(Tick)

-----------------------------------------------------------------------------
(* Properties *)

Stopped == halted \/ resetting

\* usleep(time) returns after at least that many ticks, also when the counter
\* ticks wraps around in the meantime.
SleepLength == [][tpc = "sleep" /\ tpc' = "yield" => slept = SLEEP]_kernelVars

\* What the scheduler promises on its own holds in the running kernel, where
\* kmain and the code of the tasks decide when its steps are taken, interrupts
\* come between them and the machine may start again.
SchedulerSound == NeverLost /\ CurrentIsRunning

\* A key is answered: its code is read, and a character that waits is taken by
\* the shell, though task1 holds the CPU through its usleep, and though the
\* shell gets it only through the scheduler.  (Unless the kernel has stopped.)
\* The exception is a key whose request was lost in int_init: its code stays in
\* the keyboard controller, nobody looks for it, and the keyboard is silent.
KeyAnswered ==
  /\ obf /\ intr /\ ~ lost ~> ~ obf \/ Stopped
  /\ keys = CAP ~> keys < CAP \/ Stopped

HasCPU(t) == cpu = "task" /\ current = t

\* The shell gets the CPU again and again until the kernel has stopped, and so
\* does task1 if the user pauses: what Sched assumes of its tasks follows here
\* from the timer and from the code of the tasks.  (A key that completes a
\* line does not make sh yield, so a user who only completes lines, as fast as
\* they are executed, keeps task1 waiting.)
BothTasksRun ==
  /\ kpc = "run" ~> HasCPU(sh) \/ Stopped
  /\ <>[](1 \notin irr) => (kpc = "run" ~> HasCPU(task1) \/ Stopped)
=============================================================================
