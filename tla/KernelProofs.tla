---------------------------- MODULE KernelProofs ----------------------------
(***************************************************************************)
(* The safety of the scheduler, for every size of the process table, alone *)
(* and inside the running kernel; and usleep for every width of the        *)
(* counter, every time at which it is called and every sleep that is       *)
(* shorter than a turn of the counter.                                     *)
(***************************************************************************)
EXTENDS Kernel, TLAPS

-----------------------------------------------------------------------------
(* The scheduler *)

(***************************************************************************)
(* The slots that may have been dispatched while slot i was waiting, as a  *)
(* function of the cursor.  c is the slot the next dispatch can take: if i *)
(* is still ahead of it, only slots behind the cursor or beyond i can have *)
(* run; if the cursor has passed i, only the slots between them.           *)
(***************************************************************************)
Passed(i, c) ==
  IF c <= i THEN {j \in Slots : j < c \/ j > i} ELSE {j \in Slots : i < j /\ j < c}

\* The first slot that the loop can still dispatch.
Cursor == IF cpu \in {"task", "resumed"} THEN p + 1 ELSE p

\* What is true of the contexts: the scheduler's frame is live while a task
\* runs, and a waiting task's frame is live.
ContextsLive ==
  /\ cpu \in {"task"} => sched_context = "saved"
  /\ \A i \in Slots : state[i] = "RUNNABLE" => context[i] = "saved"

\* Which slot is RUNNING, and where the loop stands.
Control ==
  /\ cpu # "lost"
  /\ cpu \in {"boot", "kmain"} => p = 0
  /\ cpu = "boot" => \A i \in Slots : state[i] = "UNUSED"
  /\ cpu \in {"task", "resumed"} => current = p /\ p \in Slots
  /\ cpu = "task" => \A i \in Slots : state[i] = "RUNNING" <=> i = p
  /\ cpu = "resumed" => state[p] = "RUNNABLE"
  /\ cpu # "task" => \A i \in Slots : state[i] # "RUNNING"
  /\ cpu \in {"kmain", "loop"} => current = -1

Order ==
  \A i \in Slots : state[i] = "RUNNABLE" => since[i] \subseteq Passed(i, Cursor)

IInv == TypeOK /\ ContextsLive /\ Control /\ Order

LEMMA InitIInv == Init => IInv
  BY NPROCAssumption DEF Init, IInv, TypeOK, ContextsLive, Control, Order, Slots,
     Contexts, CPUStates

LEMMA NextIInv == IInv /\ [Next]_vars => IInv'
<1> SUFFICES ASSUME IInv, [Next]_vars PROVE IInv'
  OBVIOUS
<1> USE NPROCAssumption DEF IInv
<1>1. CASE sched_init
  BY <1>1 DEF sched_init, TypeOK, ContextsLive, Control, Order, Slots, Contexts, CPUStates
<1>2. ASSUME NEW i \in Slots, task_l_spawn(i) PROVE IInv'
  <2>1. TypeOK'
    BY <1>2 DEF task_l_spawn, TypeOK, Contexts
  <2>2. ContextsLive'
    BY <1>2 DEF task_l_spawn, TypeOK, ContextsLive
  <2>3. Control'
    BY <1>2 DEF task_l_spawn, FirstUnused, TypeOK, Control, Slots
  <2>4. Order'
    BY <1>2 DEF task_l_spawn, TypeOK, Order, Passed, Cursor
  <2> QED BY <2>1, <2>2, <2>3, <2>4
<1>3. CASE m_scheduler
  BY <1>3 DEF m_scheduler, TypeOK, ContextsLive, Control, Order, Passed, Cursor, Slots,
     Contexts, CPUStates
<1>4. CASE NextSlot
  <2>1. TypeOK' /\ ContextsLive' /\ Control'
    BY <1>4 DEF NextSlot, TypeOK, ContextsLive, Control, Slots
  <2>2. Order'
    BY <1>4 DEF NextSlot, TypeOK, Order, Passed, Cursor, Slots
  <2> QED BY <2>1, <2>2
<1>5. CASE Dispatch
  <2>1. p \in Slots /\ context[p] = "saved" /\ cpu' = "task"
    BY <1>5 DEF Dispatch, TypeOK, ContextsLive, Landing, Slots
  <2>2. TypeOK'
    BY <1>5, <2>1 DEF Dispatch, TypeOK, Contexts, CPUStates
  <2>3. ContextsLive'
    BY <1>5, <2>1 DEF Dispatch, TypeOK, ContextsLive
  <2>4. Control'
    BY <1>5, <2>1 DEF Dispatch, TypeOK, Control
  <2>5. Order'
    BY <1>5, <2>1 DEF Dispatch, TypeOK, Order, Passed, Cursor, Slots
  <2> QED BY <2>2, <2>3, <2>4, <2>5
<1>6. CASE yield
  <2>1. current = p /\ p \in Slots /\ cpu' = "resumed"
    BY <1>6 DEF yield, Control, ContextsLive, Landing
  <2>2. TypeOK'
    BY <1>6, <2>1 DEF yield, TypeOK, Contexts, CPUStates
  <2>3. ContextsLive'
    BY <1>6, <2>1 DEF yield, TypeOK, ContextsLive
  <2>4. Control'
    BY <1>6, <2>1 DEF yield, TypeOK, Control
  <2>5. Order'
    BY <1>6, <2>1 DEF yield, TypeOK, Order, Passed, Cursor, Slots
  <2> QED BY <2>2, <2>3, <2>4, <2>5
<1>7. CASE Resume
  <2>1. TypeOK' /\ ContextsLive' /\ Control'
    BY <1>7 DEF Resume, ResumeWith, TypeOK, ContextsLive, Control, Slots, CPUStates
  <2>2. Order'
    BY <1>7 DEF Resume, ResumeWith, TypeOK, Control, Order, Passed, Cursor, Slots
  <2> QED BY <2>1, <2>2
<1>8. CASE UNCHANGED vars
  BY <1>8 DEF vars, TypeOK, ContextsLive, Control, Order, Passed, Cursor
<1> QED BY <1>1, <1>2, <1>3, <1>4, <1>5, <1>6, <1>7, <1>8 DEF Next

\* The inductive invariant holds in every state of the scheduler.
THEOREM Inductive == Spec => []IInv
  BY InitIInv, NextIInv, PTL DEF Spec

\* The variables of the scheduler (the fields of ptable and the loop variable
\* of m_scheduler) keep their types: the cursor never leaves 0 .. NPROC.
THEOREM TypeCorrect == Spec => []TypeOK
<1>1. IInv => TypeOK
  BY DEF IInv
<1> QED BY <1>1, Inductive, PTL

\* swtch never loads a dead frame, however many tasks there are.
THEOREM ContextSafety == Spec => []NeverLost
<1>1. IInv => NeverLost
  BY DEF IInv, Control, NeverLost
<1> QED BY <1>1, Inductive, PTL

\* ptable.current is the one RUNNING task, or -1 when there is none.
THEOREM RunningIsCurrent == Spec => []CurrentIsRunning
<1>1. IInv => CurrentIsRunning
  BY NPROCAssumption DEF IInv, Control, CurrentIsRunning, Slots
<1> QED BY <1>1, Inductive, PTL

\* No task is dispatched twice while another RUNNABLE task waits.
THEOREM RoundRobin == Spec => NoOvertaking
<1> DEFINE Turn == \A j \in Slots :
              state[j] = "RUNNABLE" /\ state'[j] = "RUNNING"
                => \A i \in Slots : state[i] = "RUNNABLE" => j \notin since[i]
<1>1. ASSUME IInv, [Next]_vars PROVE [Turn]_vars
  <2> SUFFICES ASSUME NEW j \in Slots, state[j] = "RUNNABLE", state'[j] = "RUNNING",
                      NEW i \in Slots, state[i] = "RUNNABLE"
               PROVE  j \notin since[i]
    OBVIOUS
  <2>1. Dispatch /\ j = p
    BY <1>1, NPROCAssumption DEF IInv, TypeOK, Control, Next, vars, sched_init, task_l_spawn, m_scheduler,
       NextSlot, Dispatch, yield, Resume, ResumeWith, FirstUnused, Slots
  <2>2. since[i] \subseteq Passed(i, p)
    BY <1>1, <2>1 DEF IInv, Order, Cursor, Dispatch
  <2> QED BY <2>1, <2>2 DEF Passed, Slots
<1> QED BY <1>1, Inductive, PTL DEF Spec, NoOvertaking

-----------------------------------------------------------------------------
(* usleep *)

\* The ticks that usleep sees since it was called.
Elapsed == (ticks - init + TICKS) % TICKS

Clock ==
  /\ ticks \in 0 .. TICKS - 1
  /\ init \in 0 .. TICKS - 1
  /\ slept \in 0 .. SLEEP

\* Until the sleep is over, the difference of the counters is the number of
\* ticks there were, across the wrap of the counter.
Counting == tpc = "sleep" /\ slept < SLEEP => Elapsed = slept

SleepInv == Clock /\ Counting

-----------------------------------------------------------------------------
(* The counter *)

\* The difference of two values of the counter, in its width.
LEMMA Difference ==
  ASSUME NEW a \in 0 .. TICKS - 1, NEW b \in 0 .. TICKS - 1
  PROVE  (a - b + TICKS) % TICKS = IF b <= a THEN a - b ELSE a - b + TICKS
  BY KernelAssumption

\* ticks++
LEMMA Increment ==
  ASSUME NEW a \in 0 .. TICKS - 1
  PROVE  (a + 1) % TICKS = IF a + 1 = TICKS THEN 0 ELSE a + 1
  BY KernelAssumption

\* A tick makes the difference larger by one, unless it has made a full turn.
LEMMA OneMore ==
  ASSUME NEW a \in 0 .. TICKS - 1, NEW b \in 0 .. TICKS - 1, NEW c, c = (a + 1) % TICKS,
         ((a - b + TICKS) % TICKS) + 1 < TICKS
  PROVE  c \in 0 .. TICKS - 1 /\ (c - b + TICKS) % TICKS = ((a - b + TICKS) % TICKS) + 1
<1>1. TICKS \in Nat /\ TICKS > 0
  BY KernelAssumption
<1>2. c = IF a + 1 = TICKS THEN 0 ELSE a + 1
  BY Increment
<1>3. c \in 0 .. TICKS - 1
  BY <1>1, <1>2
<1>4. (c - b + TICKS) % TICKS = IF b <= c THEN c - b ELSE c - b + TICKS
  BY <1>3, Difference
<1>5. (a - b + TICKS) % TICKS = IF b <= a THEN a - b ELSE a - b + TICKS
  BY Difference
<1> QED BY <1>1, <1>2, <1>3, <1>4, <1>5

-----------------------------------------------------------------------------
(* The invariant *)

LEMMA InitSleep == KernelInit => SleepInv
  BY KernelAssumption DEF KernelInit, SleepInv, Clock, Counting

\* The timer's handler: the clock goes on, and the sleeper's count with it.
LEMMA TimerStep ==
  ASSUME SleepInv, irq0h PROVE SleepInv'
<1>1. /\ ticks' = (ticks + 1) % TICKS /\ init' = init /\ tpc' = tpc
      /\ slept' = IF tpc = "sleep" /\ slept < SLEEP THEN slept + 1 ELSE slept
  BY DEF irq0h
<1>2. ticks \in 0 .. TICKS - 1 /\ init \in 0 .. TICKS - 1 /\ slept \in 0 .. SLEEP
  BY DEF SleepInv, Clock
<1>3. TICKS \in Nat /\ SLEEP \in Nat /\ SLEEP < TICKS
  BY KernelAssumption
<1>4. Clock'
  <2>1. ticks' \in 0 .. TICKS - 1
    BY <1>1, <1>2, <1>3, Increment
  <2> QED BY <1>1, <1>2, <1>3, <2>1 DEF Clock
<1>5. Counting'
  <2> SUFFICES ASSUME tpc = "sleep", slept' < SLEEP
               PROVE  (ticks' - init + TICKS) % TICKS = slept'
    BY <1>1 DEF Counting, Elapsed
  <2>1. slept < SLEEP /\ slept' = slept + 1
    BY <1>1, <1>2, <1>3
  <2>2. (ticks - init + TICKS) % TICKS = slept
    BY <2>1 DEF SleepInv, Counting, Elapsed
  <2>3. ((ticks - init + TICKS) % TICKS) + 1 < TICKS
    BY <1>2, <1>3, <2>1, <2>2
  <2> QED BY <1>1, <1>2, <2>1, <2>2, <2>3, OneMore
<1> QED BY <1>4, <1>5 DEF SleepInv

LEMMA DrawStep ==
  ASSUME SleepInv, Draw PROVE SleepInv'
<1>1. ticks' = ticks /\ init' = ticks /\ slept' = 0
  BY DEF Draw, Running, Code, Step
<1>2. ticks \in 0 .. TICKS - 1
  BY DEF SleepInv, Clock
<1>3. (ticks - ticks + TICKS) % TICKS = 0
  BY <1>2, Difference, KernelAssumption
<1> QED BY <1>1, <1>2, <1>3, KernelAssumption DEF SleepInv, Clock, Counting, Elapsed

\* Every other step of the code leaves the clock and the sleeper alone, or lets
\* the sleeper go on.
LEMMA OtherStep ==
  ASSUME SleepInv, ticks' = ticks, init' = init, slept' = slept,
         tpc' = "sleep" => tpc = "sleep"
  PROVE  SleepInv'
  BY DEF SleepInv, Clock, Counting, Elapsed

LEMMA NextSleep == SleepInv /\ [KernelNext]_kernelVars => SleepInv'
<1> SUFFICES ASSUME SleepInv, [KernelNext]_kernelVars PROVE SleepInv'
  OBVIOUS
<1>1. CASE int_init \/ sti \/ kfs_mount \/ StartTasks \/ Scheduler
  <2>1. ticks' = ticks /\ init' = init /\ slept' = slept /\ tpc' = tpc
    BY <1>1 DEF int_init, sti, kfs_mount, StartTasks, Scheduler, Code, Step, tasks
  <2> QED BY <2>1, OtherStep
<1>2. CASE Draw
  BY <1>2, DrawStep
<1>3. CASE usleep
  <2>1. ticks' = ticks /\ init' = init /\ slept' = slept /\ tpc = "sleep"
    BY <1>3 DEF usleep, Running, Code, Step
  <2> QED BY <2>1, OtherStep
<1>4. CASE Task1Yields
  <2>1. ticks' = ticks /\ init' = init /\ slept' = slept /\ tpc' = "draw"
    BY <1>4 DEF Task1Yields, Running, Code, Step
  <2> QED BY <2>1, OtherStep
<1>5. CASE NoKey \/ TakeKey \/ ShellYields
  <2>1. ticks' = ticks /\ init' = init /\ slept' = slept /\ tpc' = tpc
    BY <1>5 DEF NoKey, TakeKey, ShellYields, Running, Code, Step
  <2> QED BY <2>1, OtherStep
<1>6. CASE irq0h
  BY <1>6, TimerStep
<1>7. CASE irq1h \/ Tick \/ Press
  <2>1. ticks' = ticks /\ init' = init /\ slept' = slept /\ tpc' = tpc
    BY <1>7 DEF irq1h, Tick, Press, tasks
  <2> QED BY <2>1, OtherStep
<1>8. CASE Reset
  <2>1. ticks' = 0 /\ init' = 0 /\ slept' = 0 /\ tpc' = "draw"
    BY <1>8 DEF Reset
  <2> QED BY <2>1, KernelAssumption DEF SleepInv, Clock, Counting
<1>9. CASE UNCHANGED kernelVars
  <2>1. ticks' = ticks /\ init' = init /\ slept' = slept /\ tpc' = tpc
    BY <1>9 DEF kernelVars, tasks
  <2> QED BY <2>1, OtherStep
<1> QED BY <1>1, <1>2, <1>3, <1>4, <1>5, <1>6, <1>7, <1>8, <1>9 DEF KernelNext, CPU

-----------------------------------------------------------------------------
(* Theorems *)

\* The difference of the counters is the number of ticks since usleep began.
THEOREM SleepInductive == KernelSpec => []SleepInv
  BY InitSleep, NextSleep, PTL DEF KernelSpec

\* usleep(time) never returns before that many ticks have passed, wherever the
\* 32 bits of ticks wrap around meanwhile (usleep in time.c).
THEOREM NeverEarly == KernelSpec => SleepLength
<1>1. ASSUME SleepInv, [KernelNext]_kernelVars
      PROVE  [tpc = "sleep" /\ tpc' = "yield" => slept = SLEEP]_kernelVars
  <2> SUFFICES ASSUME tpc = "sleep", tpc' = "yield" PROVE slept = SLEEP
    OBVIOUS
  <2>1. usleep
    BY <1>1 DEF KernelNext, CPU, kernelVars, int_init, sti, kfs_mount, StartTasks, Scheduler, Draw,
       Task1Yields, NoKey, TakeKey, ShellYields, irq0h, irq1h, Tick, Press, Reset, tasks
  <2>2. Elapsed >= SLEEP
    BY <2>1 DEF usleep, SleepOver, Elapsed
  <2>3. slept \in 0 .. SLEEP /\ (slept < SLEEP => Elapsed = slept)
    BY <1>1 DEF SleepInv, Clock, Counting
  <2> QED BY <2>2, <2>3, KernelAssumption
<1> QED BY <1>1, SleepInductive, PTL DEF KernelSpec, SleepLength

-----------------------------------------------------------------------------
(* The scheduler inside the kernel *)

\* A step of the kernel that is not a reset is a step of the scheduler, or
\* leaves its variables alone.
LEMMA SchedStep == [KernelNext]_kernelVars => [Next]_vars \/ Reset
<1> SUFFICES ASSUME [KernelNext]_kernelVars, ~ Reset PROVE [Next]_vars
  OBVIOUS
<1>1. CASE StartTasks
  <2>1. task1 \in Slots /\ sh \in Slots
    BY NPROCAssumption, KernelAssumption DEF Slots, task1, sh
  <2> QED BY <1>1, <2>1 DEF StartTasks, Next
<1>2. CASE Scheduler
  BY <1>2 DEF Scheduler, Next
<1>3. CASE Task1Yields \/ ShellYields
  BY <1>3 DEF Task1Yields, ShellYields, Next
<1>4. CASE \/ int_init \/ sti \/ kfs_mount \/ Draw \/ usleep \/ NoKey \/ TakeKey
           \/ irq0h \/ irq1h \/ Tick \/ Press \/ UNCHANGED kernelVars
  <2>1. UNCHANGED vars
    BY <1>4 DEF int_init, sti, kfs_mount, Draw, usleep, NoKey, TakeKey, irq0h, irq1h, Tick, Press,
       kernelVars
  <2> QED BY <2>1
<1> QED BY <1>1, <1>2, <1>3, <1>4 DEF KernelNext, CPU

\* The scheduler starts again as it started.
LEMMA SchedRestart == Reset => IInv'
<1>1. Init' => IInv'
  BY InitIInv, PTL
<1> QED BY <1>1 DEF Reset, Init

\* The running kernel keeps what the scheduler promises, through interrupts,
\* panics and resets: swtch loads live frames only, and ptable.current is the
\* task that runs.
THEOREM SchedulerKept == KernelSpec => []SchedulerSound
<1>1. KernelInit => IInv
  BY InitIInv DEF KernelInit
<1>2. IInv /\ [KernelNext]_kernelVars => IInv'
  BY SchedStep, SchedRestart, NextIInv
<1>3. IInv => SchedulerSound
  BY NPROCAssumption DEF IInv, Control, SchedulerSound, NeverLost, CurrentIsRunning, Slots
<1> QED BY <1>1, <1>2, <1>3, PTL DEF KernelSpec
=============================================================================
