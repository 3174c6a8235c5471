----------------------------- MODULE Scheduler -----------------------------
(***************************************************************************)
(* The preemptive round-robin scheduler: the task pool and the circular    *)
(* list of task.c, driven by the timer interrupt (pit.c), by the exit      *)
(* system call (syscall.c) and by processor exceptions (exceptions.c).     *)
(*                                                                         *)
(* Interrupt gates clear IF, so every handler runs to its iretq without    *)
(* being interrupted: one handler is one action.  kernel.c creates tasks   *)
(* before it executes sti (phase "boot"), always as the kernel task.       *)
(***************************************************************************)
EXTENDS Naturals, FiniteSets

CONSTANTS MaxTasks,        \* MAX_TASKS, size of task_pool
          Quantum,         \* SCHEDULER_QUANTUM_TICKS
          KmallocMayFail,  \* whether kmalloc of a user stack can return NULL
          None             \* NULL pointer, or a stack pointer never set

ASSUME MaxTasksAssumption == MaxTasks \in Nat \ {0}
ASSUME QuantumAssumption  == Quantum \in Nat \ {0}
ASSUME MayFailAssumption  == KmallocMayFail \in BOOLEAN
ASSUME NoneAssumption     == None \notin Nat

VARIABLES state,    \* task_pool[t].state; the pool is zeroed, and 0 is READY
          nxt,      \* task_pool[t].next
          count,    \* task_count
          current,  \* current_task (selected_task is always equal to it)
          frame,    \* the stack that task_pool[t].rsp points into
          rsp0,     \* the stack the TSS gives to an interrupt from ring 3
          ticks,    \* g_ticks, modulo the quantum
          phase,    \* what the processor does
          failed    \* history: a task creation has failed half way

vars == <<state, nxt, count, current, frame, rsp0, ticks, phase, failed>>

Slots     == 0 .. MaxTasks - 1
Members   == 0 .. count - 1      \* the slots handed out
Kernel    == 0
BootStack == MaxTasks       \* the kernel task keeps the stack of the loader

TaskStates == {"READY", "RUNNING", "TERMINATED"}
Phases     == {"boot", "on",     \* before and after sti
               "hung",           \* endless walk of the list, or hlt with IF clear
               "wild"}           \* a context switch to a stack never set up

TypeOK ==
  /\ state   \in [Slots -> TaskStates]
  /\ nxt     \in [Slots -> Slots \cup {None}]
  /\ count   \in 1 .. MaxTasks
  /\ current \in Slots
  /\ frame   \in [Slots -> Slots \cup {BootStack, None}]
  /\ rsp0    \in Slots \cup {BootStack}
  /\ ticks   \in 0 .. Quantum - 1
  /\ phase   \in Phases
  /\ failed  \in BOOLEAN

Init ==
  /\ state   = [t \in Slots |-> IF t = Kernel THEN "RUNNING" ELSE "READY"]
  /\ nxt     = [t \in Slots |-> IF t = Kernel THEN Kernel ELSE None]
  /\ count   = 1
  /\ current = Kernel
  /\ frame   = [t \in Slots |-> None]
  /\ rsp0    = BootStack
  /\ ticks   = 0
  /\ phase   = "boot"
  /\ failed  = FALSE

-----------------------------------------------------------------------------
(* The list of tasks.                                                      *)

(* The walk of m steps along f from t; empty when it meets a NULL link.    *)
Walk(f, t, m) ==
  LET w[i \in 0 .. m] ==
        IF i = 0 THEN t
        ELSE LET v == w[i - 1] IN IF v = None THEN None ELSE f[v]
  IN  {x \in {w} : \A i \in 0 .. m : x[i] # None}

(* task_alloc_slot: the new slot is linked to the current task before the  *)
(* walk that looks for the tail.                                           *)
Linked_NoLink(t) == nxt   \* mutant: t->next is never set
Linked(t) == [nxt EXCEPT ![t] = current]

Tails(f) ==
  {t \in Slots : \E w \in Walk(f, current, MaxTasks), i \in 1 .. MaxTasks :
                    w[i] = current /\ w[i - 1] = t}

-----------------------------------------------------------------------------
(* Task creation, in kernel_main before sti.                               *)

(* When kmalloc fails task_count goes back, but the slot stays in the list.*)
CreateUser ==
  /\ phase = "boot"
  /\ count < MaxTasks
  /\ \E tail \in Tails(Linked(count)) :
       nxt' = [Linked(count) EXCEPT ![tail] = count]
  /\ state' = [state EXCEPT ![count] = "READY"]
  /\ \/ /\ count' = count + 1
        /\ frame' = [frame EXCEPT ![count] = count]
        /\ UNCHANGED failed
     \/ /\ KmallocMayFail
        /\ failed' = TRUE
        /\ UNCHANGED <<count, frame>>
  /\ UNCHANGED <<current, rsp0, ticks, phase>>

(* The search for the tail never meets the current task again.             *)
CreateHangs ==
  /\ phase = "boot"
  /\ count < MaxTasks
  /\ Tails(Linked(count)) = {}
  /\ phase' = "hung"
  /\ UNCHANGED <<state, nxt, count, current, frame, rsp0, ticks, failed>>

EnableInterrupts ==
  /\ phase = "boot"
  /\ phase' = "on"
  /\ UNCHANGED <<state, nxt, count, current, frame, rsp0, ticks, failed>>

-----------------------------------------------------------------------------
(* The context switch.                                                     *)

OwnStack(t) == IF t = Kernel THEN BootStack ELSE t

(* An interrupt from ring 3 saves its frame on the stack of the TSS, one   *)
(* from ring 0 on the stack in use.                                        *)
StackInUse == IF current = Kernel THEN BootStack ELSE rsp0

Preempted_KeepsRunning(st) == st                               \* mutant
Preempted_Always(st) == [st EXCEPT ![current] = "READY"]       \* mutant

Preempted(st) ==
  IF st[current] = "RUNNING" THEN [st EXCEPT ![current] = "READY"] ELSE st

FirstCandidate_Head == nxt[Kernel]   \* mutant: always from the head
FirstCandidate == nxt[current]

FirstReady_Lowest(st) ==             \* mutant: the lowest slot has priority
  {t \in Members : /\ st[t] = "READY"
                   /\ \A u \in Members : u < t => st[u] # "READY"}

(* The READY task that the loop over task_count candidates stops at.       *)
FirstReady(st) ==
  {t \in Slots :
     \E w \in Walk(nxt, FirstCandidate, count - 1), i \in 0 .. count - 1 :
       /\ w[i] = t
       /\ st[t] = "READY"
       /\ \A j \in 0 .. i - 1 : st[w[j]] # "READY"}

Selected(st) == IF FirstReady(st) = {} THEN {current} ELSE FirstReady(st)

Dispatch_KeepsRsp0(n, st) ==         \* mutant: the TSS is not updated
  /\ state'   = [st EXCEPT ![n] = "RUNNING"]
  /\ current' = n
  /\ UNCHANGED rsp0

Dispatch(n, st) ==
  /\ state'   = [st EXCEPT ![n] = "RUNNING"]
  /\ current' = n
  /\ rsp0'    = n

(* task_schedule, on the task states st.                                   *)
Schedule(st) ==
  IF count <= 1
  THEN /\ state' = st
       /\ UNCHANGED <<current, frame, rsp0, phase>>
  ELSE /\ frame' = [frame EXCEPT ![current] = StackInUse]
       /\ \E n \in Selected(Preempted(st)) :
            IF Preempted(st)[n] = "TERMINATED"
            THEN /\ state' = Preempted(st)
                 /\ UNCHANGED <<current, rsp0, phase>>
            ELSE /\ Dispatch(n, Preempted(st))
                 /\ phase' = IF frame'[n] = None THEN "wild" ELSE phase

Exited == [state EXCEPT ![current] = "TERMINATED"]

-----------------------------------------------------------------------------
(* What happens once interrupts are enabled.                               *)

NextTicks == (ticks + 1) % Quantum

(* irq0_stub and pit_irq_handler_c.                                        *)
Tick ==
  /\ phase = "on"
  /\ ticks' = NextTicks
  /\ IF ticks' = 0
     THEN Schedule(state)
     ELSE UNCHANGED <<state, current, frame, rsp0, phase>>
  /\ UNCHANGED <<nxt, count, failed>>

(* SYS_EXIT marks the task and returns to it: it keeps the processor until *)
(* the quantum ends.                                                       *)
SysExit ==
  /\ phase = "on"
  /\ current # Kernel
  /\ state' = Exited
  /\ UNCHANGED <<nxt, count, current, frame, rsp0, ticks, phase, failed>>

(* An exception in ring 3 ends the task and switches at once.              *)
UserFault ==
  /\ phase = "on"
  /\ current # Kernel
  /\ Schedule(Exited)
  /\ UNCHANGED <<nxt, count, ticks, failed>>

(* An exception in ring 0 and any vector without a handler stop the        *)
(* machine: hlt with interrupts disabled.                                  *)
FatalStop ==
  /\ phase = "on"
  /\ phase' = "hung"
  /\ UNCHANGED <<state, nxt, count, current, frame, rsp0, ticks, failed>>

Next == \/ CreateUser \/ CreateHangs \/ EnableInterrupts
        \/ Tick \/ SysExit \/ UserFault \/ FatalStop

(* The PIT interrupts at 1000 Hz whatever runs, and kernel_main reaches    *)
(* sti; exits and faults are never owed.                                   *)
Fairness == WF_vars(Tick) /\ WF_vars(EnableInterrupts)

Spec == Init /\ [][Next]_vars /\ Fairness
-----------------------------------------------------------------------------
(* What the scheduler promises.                                            *)

Orbit   == {t \in Slots : \E w \in Walk(nxt, current, MaxTasks), i \in 0 .. MaxTasks :
                             w[i] = t}

(* At most one task is RUNNING and it is the one the processor executes;   *)
(* the executing task is RUNNING or has just exited; the kernel task never *)
(* ends, whatever the order of exits, faults and timer interrupts.         *)
ProcessorOwner ==
  /\ \A t \in Slots : state[t] = "RUNNING" => t = current
  /\ state[current] \in {"RUNNING", "TERMINATED"}
  /\ state[Kernel] # "TERMINATED"

(* A suspended task finds its registers on its own stack: an interrupt of  *)
(* a ring 3 task never saves them on the stack of another one.             *)
StackDiscipline ==
  /\ \A t \in Slots : frame[t] \in {OwnStack(t), None}
  /\ current # Kernel => rsp0 = current

(* The circular list holds exactly the task_count first slots, so no task  *)
(* is lost, no walk leaves the list and no switch goes to a slot that was  *)
(* not set up, as long as no creation has failed.                          *)
RingIntact == ~failed => Orbit = Members /\ phase # "wild"

(* A task that exited or faulted is never run again: no step brings it out *)
(* of TERMINATED, and no step gives it the processor.                      *)
TerminatedStays ==
  [][\A t \in Slots : state[t] = "TERMINATED" =>
       state'[t] = "TERMINATED" /\ (current' = t => current = t)]_vars

(* Every task that waits for the processor gets it, unless the machine     *)
(* stops: also from a task that exited through SYS_EXIT, which does not    *)
(* switch.  It asks that no creation has failed, as RingIntact does.       *)
EveryReadyTaskRuns ==
  \A t \in Slots :
    (phase = "on" /\ t \in Members /\ state[t] = "READY")
      ~> (state[t] = "RUNNING" \/ phase # "on" \/ failed)
=============================================================================
