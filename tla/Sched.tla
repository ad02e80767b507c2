------------------------------- MODULE Sched -------------------------------
(***************************************************************************)
(* The cooperative round-robin scheduler of src/kernel/sched/sched.c and   *)
(* the context switch of src/kernel/core/switch.S.                         *)
(*                                                                         *)
(* One CPU executes, in turn, kmain, the loop of m_scheduler and the tasks *)
(* that were spawned.  Control moves only through swtch, which pushes the  *)
(* registers of the code it leaves on that code's stack, stores the stack  *)
(* pointer, and pops the registers of the code it enters.  A context       *)
(* pointer is therefore good for exactly one swtch: after it has been      *)
(* loaded, the frame it points to is gone.  The model keeps, for every     *)
(* context pointer, whether loading it is meaningful, and sends the CPU to *)
(* "lost" when swtch loads one that is not.                                *)
(*                                                                         *)
(* Nothing that an interrupt handler runs touches the process table, so    *)
(* the code between two swtch calls is one step.                           *)
(***************************************************************************)
EXTENDS Integers

CONSTANT NPROC          \* number of slots of the process table (8 in the code)

ASSUME NPROCAssumption == NPROC \in Nat \ {0}

Slots == 0 .. NPROC - 1

(***************************************************************************)
(* What a struct context pointer refers to: nothing, the static structure  *)
(* scheduler_context (all zero, never a stack frame), a frame that swtch   *)
(* can pop, or a frame that was popped already.                            *)
(***************************************************************************)
Contexts == {"null", "static", "saved", "stale"}

VARIABLES
  state,          \* ptable.proc[i].state
  context,        \* ptable.proc[i].context
  current,        \* ptable.current
  sched_context,  \* ptable.sched_context
  p,              \* the loop variable of m_scheduler, as a slot number
  cpu,            \* the code that is executing
  since           \* history: the tasks dispatched while i was waiting

vars == <<state, context, current, sched_context, p, cpu, since>>

CPUStates == {"boot", "kmain", "loop", "task", "resumed", "lost"}

TypeOK ==
  /\ state \in [Slots -> {"UNUSED", "RUNNABLE", "RUNNING"}]
  /\ context \in [Slots -> Contexts]
  /\ current \in Slots \cup {-1}
  /\ sched_context \in Contexts
  /\ p \in 0 .. NPROC
  /\ cpu \in CPUStates
  /\ since \in [Slots -> SUBSET Slots]

(***************************************************************************)
(* The process table is zeroed memory until sched_init runs: every slot is *)
(* UNUSED (0), and current is 0, not -1.                                   *)
(***************************************************************************)
Init ==
  /\ state = [i \in Slots |-> "UNUSED"]
  /\ context = [i \in Slots |-> "null"]
  /\ current = 0
  /\ sched_context = "null"
  /\ p = 0
  /\ cpu = "boot"
  /\ since = [i \in Slots |-> {}]

sched_init ==
  /\ cpu = "boot"
  /\ state' = [i \in Slots |-> "UNUSED"]
  /\ current' = -1
  /\ sched_context' = "null"
  /\ cpu' = "kmain"
  /\ UNCHANGED <<context, p, since>>

FirstUnused(i) ==
  /\ state[i] = "UNUSED"
  /\ \A j \in Slots : j < i => state[j] # "UNUSED"

(***************************************************************************)
(* task_l_spawn builds a frame on the new task's stack that swtch can pop. *)
(* It is called by kmain before m_scheduler, and may be called by a task.  *)
(* When no slot is free it returns -1 and changes nothing.                 *)
(***************************************************************************)
task_l_spawn(i) ==
  /\ cpu \in {"kmain", "task"}
  /\ FirstUnused(i)
  /\ context' = [context EXCEPT ![i] = "saved"]
  /\ state' = [state EXCEPT ![i] = "RUNNABLE"]
  /\ since' = [since EXCEPT ![i] = {}]
  /\ UNCHANGED <<current, sched_context, p, cpu>>

\* kmain enters m_scheduler, and never comes back.
m_scheduler ==
  /\ cpu = "kmain"
  /\ sched_context' = "static"
  /\ p' = 0
  /\ cpu' = "loop"
  /\ UNCHANGED <<state, context, current, since>>

\* Where swtch leaves the CPU when it loads context c.
Landing(c, where) == IF c = "saved" THEN where ELSE "lost"

\* Mutant of NextSlot: a new sweep starts at slot 1.
NextSlot_FromOne ==
  /\ cpu = "loop"
  /\ \/ p = NPROC /\ p' = 1
     \/ p # NPROC /\ state[p] # "RUNNABLE" /\ p' = p + 1
  /\ UNCHANGED <<state, context, current, sched_context, cpu, since>>

\* Mutant of NextSlot: the cursor is not set back at the end of a sweep.
NextSlot_NoReset ==
  /\ cpu = "loop"
  /\ p = NPROC \/ state[p] # "RUNNABLE"
  /\ p' = p + 1
  /\ UNCHANGED <<state, context, current, sched_context, cpu, since>>

\* The sweep is over, or the slot it has reached is not RUNNABLE.
NextSlot ==
  /\ cpu = "loop"
  /\ \/ /\ p = NPROC
        /\ p' = 0
     \/ /\ p # NPROC
        /\ state[p] # "RUNNABLE"
        /\ p' = p + 1
  /\ UNCHANGED <<state, context, current, sched_context, cpu, since>>

\* Mutant of Dispatch: takes every slot that is not RUNNING, UNUSED ones too.
Dispatch_Unused ==
  /\ cpu = "loop"
  /\ p # NPROC
  /\ state[p] # "RUNNING"
  /\ current' = p
  /\ state' = [state EXCEPT ![p] = "RUNNING"]
  /\ sched_context' = "saved"
  /\ context' = [context EXCEPT ![p] = "stale"]
  /\ cpu' = Landing(context[p], "task")
  /\ since' = [i \in Slots |-> IF i = p THEN {} ELSE since[i] \cup {p}]
  /\ UNCHANGED p

\* m_scheduler hands the CPU to the task in slot p.
Dispatch ==
  /\ cpu = "loop"
  /\ p # NPROC
  /\ state[p] = "RUNNABLE"
  /\ current' = p
  /\ state' = [state EXCEPT ![p] = "RUNNING"]
  /\ sched_context' = "saved"
  /\ context' = [context EXCEPT ![p] = "stale"]
  /\ cpu' = Landing(context[p], "task")
  /\ since' = [i \in Slots |-> IF i = p THEN {} ELSE since[i] \cup {p}]
  /\ UNCHANGED p

\* A task gives the CPU back to the code that dispatched it.
yield ==
  /\ cpu = "task"
  /\ current >= 0
  /\ state' = [state EXCEPT ![current] = "RUNNABLE"]
  /\ context' = [context EXCEPT ![current] = "saved"]
  /\ sched_context' = "stale"
  /\ cpu' = Landing(sched_context, "resumed")
  /\ since' = [since EXCEPT ![current] = {}]
  /\ UNCHANGED <<current, p>>

\* m_scheduler after swtch: the slot it goes on with, what current is left as.
ResumeWith(slot, left) ==
  /\ cpu = "resumed"
  /\ state' = [state EXCEPT ![p] = "RUNNABLE"]
  /\ current' = left
  /\ p' = slot
  /\ cpu' = "loop"
  /\ UNCHANGED <<context, sched_context, since>>

\* Mutants of Resume: the sweep restarts at slot 0 after every task; current
\* keeps naming the task that yielded.
Resume_Restart == ResumeWith(0, -1)

Resume_KeepsCurrent == ResumeWith(p + 1, current)

\* The rest of the loop body, after swtch has returned to m_scheduler.
Resume == ResumeWith(p + 1, -1)

Next ==
  \/ sched_init
  \/ \E i \in Slots : task_l_spawn(i)
  \/ m_scheduler
  \/ NextSlot
  \/ Dispatch
  \/ yield
  \/ Resume

(***************************************************************************)
(* kmain goes on until it calls m_scheduler, the loop never stops, and     *)
(* every task yields again: task1 and sh call yield in each turn of their  *)
(* loops.                                                                  *)
(***************************************************************************)
Fairness ==
  /\ WF_vars(sched_init)
  /\ WF_vars(m_scheduler)
  /\ WF_vars(NextSlot)
  /\ WF_vars(Dispatch)
  /\ WF_vars(yield)
  /\ WF_vars(Resume)

Spec == Init /\ [][Next]_vars /\ Fairness

-----------------------------------------------------------------------------
(* Properties *)

\* swtch (switch.S) never loads a context that is not a live stack frame:
\* neither the null pointers of a fresh table, nor the zeroed static
\* scheduler_context, nor a frame that an earlier swtch has popped.
NeverLost == cpu # "lost"

\* ptable.current names the task that has the CPU and no other task is
\* RUNNING; when m_scheduler has the CPU back (between two dispatches),
\* nobody is RUNNING and current is -1, so that yield returns at once.
CurrentIsRunning ==
  /\ cpu = "task" =>
       /\ current # -1
       /\ \A i \in Slots : state[i] = "RUNNING" <=> i = current
  /\ cpu \in {"kmain", "loop"} =>
       /\ current = -1
       /\ \A i \in Slots : state[i] # "RUNNING"

\* Round robin: m_scheduler never dispatches a task a second time while a
\* task that was RUNNABLE all along is still waiting, whatever slots are
\* filled by task_l_spawn in the meantime.
NoOvertaking ==
  [][\A j \in Slots :
       state[j] = "RUNNABLE" /\ state'[j] = "RUNNING"
         => \A i \in Slots : state[i] = "RUNNABLE" => j \notin since[i]]_vars

\* Every task that task_l_spawn made RUNNABLE, or that yielded, gets the CPU.
EveryTaskRuns ==
  \A i \in Slots : state[i] = "RUNNABLE" ~> state[i] = "RUNNING"
=============================================================================
