-------------------------- MODULE InterruptsProofs --------------------------
(***************************************************************************)
(* Proofs about Scheduler for every pool size and every quantum, whether   *)
(* or not the creation of a task may fail, and about Interrupts for every  *)
(* set of boards: the scheduler driven by the interrupt controllers is     *)
(* still the scheduler of Scheduler.tla, so what is shown of that one holds*)
(* there too; and each line reaches its handler on every board whose tables*)
(* describe its wiring.                                                    *)
(***************************************************************************)
EXTENDS MCScheduler, WellFoundedInduction, TLAPS

-----------------------------------------------------------------------------
(* The scheduler, as task.c has it, before any interrupt is told apart.    *)

(* Before sti only the kernel task has run.                                *)
BootState ==
  phase = "boot" => /\ current = Kernel
                    /\ \A t \in Slots : t # Kernel => state[t] = "READY"

IInv == TypeOK /\ BootState /\ ProcessorOwner /\ StackDiscipline

LEMMA SlotsFacts == Kernel \in Slots /\ BootStack \notin Slots /\ Kernel # BootStack
BY MaxTasksAssumption DEF Slots, Kernel, BootStack

LEMMA InitIInv == Init => IInv
<1> SUFFICES ASSUME Init PROVE IInv
    OBVIOUS
<1>1. TypeOK
  <2>1. count \in 1 .. MaxTasks /\ ticks \in 0 .. Quantum - 1
    BY MaxTasksAssumption, QuantumAssumption DEF Init
  <2>2. state \in [Slots -> TaskStates] /\ nxt \in [Slots -> Slots \cup {None}]
    BY SlotsFacts DEF Init, TaskStates
  <2>3. frame \in [Slots -> Slots \cup {BootStack, None}]
    BY DEF Init
  <2> QED BY <2>1, <2>2, <2>3, SlotsFacts DEF Init, TypeOK, Phases
<1>2. BootState /\ ProcessorOwner /\ StackDiscipline
  BY SlotsFacts DEF Init, BootState, ProcessorOwner, StackDiscipline
<1> QED BY <1>1, <1>2 DEF IInv

(* task_schedule never brings a terminated task back, keeps the kernel     *)
(* task alive and leaves at most one task RUNNING, from any states st in   *)
(* which only the current task runs.                                       *)
LEMMA ScheduleStep ==
  ASSUME IInv, phase # "boot",
         NEW st \in [Slots -> TaskStates],
         \A t \in Slots : st[t] = "RUNNING" => t = current,
         st[current] \in {"RUNNING", "TERMINATED"},
         st[Kernel] # "TERMINATED",
         Schedule(st)
  PROVE  /\ state' \in [Slots -> TaskStates]
         /\ current' \in Slots
         /\ frame' \in [Slots -> Slots \cup {BootStack, None}]
         /\ rsp0' \in Slots \cup {BootStack}
         /\ phase' \in Phases
         /\ phase' # "boot"
         /\ ProcessorOwner'
         /\ StackDiscipline'
         /\ \A t \in Slots : st[t] = "TERMINATED" =>
              state'[t] = "TERMINATED" /\ (current' = t => current = t)
<1> USE SlotsFacts
<1>1. CASE count <= 1
  BY <1>1 DEF Schedule, IInv, TypeOK, ProcessorOwner, StackDiscipline
<1>2. CASE ~(count <= 1)
  <2> DEFINE pst == Preempted(st)
  <2>1. /\ frame' = [frame EXCEPT ![current] = StackInUse]
        /\ \E n \in Selected(pst) :
             IF pst[n] = "TERMINATED"
             THEN state' = pst /\ UNCHANGED <<current, rsp0, phase>>
             ELSE /\ Dispatch(n, pst)
                  /\ phase' = IF frame'[n] = None THEN "wild" ELSE phase
    BY <1>2 DEF Schedule
  <2>2. PICK n \in Selected(pst) :
             IF pst[n] = "TERMINATED"
             THEN state' = pst /\ UNCHANGED <<current, rsp0, phase>>
             ELSE /\ Dispatch(n, pst)
                  /\ phase' = IF frame'[n] = None THEN "wild" ELSE phase
    BY <2>1
  <2>3. /\ pst \in [Slots -> TaskStates]
        /\ \A t \in Slots : pst[t] # "RUNNING"
        /\ \A t \in Slots : st[t] = "TERMINATED" <=> pst[t] = "TERMINATED"
    BY DEF Preempted, TaskStates, IInv, TypeOK
  <2>4. n \in Slots
    BY DEF Selected, FirstReady, IInv, TypeOK
  <2>5. StackInUse = OwnStack(current) /\ StackInUse \in Slots \cup {BootStack}
    BY DEF StackInUse, OwnStack, IInv, TypeOK, StackDiscipline
  <2>6. /\ frame' \in [Slots -> Slots \cup {BootStack, None}]
        /\ \A t \in Slots : frame'[t] \in {OwnStack(t), None}
    BY <2>1, <2>5 DEF IInv, TypeOK, StackDiscipline
  <2>7. CASE pst[n] = "TERMINATED"
    <3>1. state' = pst /\ current' = current /\ rsp0' = rsp0 /\ phase' = phase
      BY <2>2, <2>7
    <3>2. n = current
      BY <2>7, <2>2, <2>3, <2>4 DEF Selected, FirstReady
    <3>3. ProcessorOwner'
      BY <3>1, <3>2, <2>3, <2>7 DEF ProcessorOwner
    <3>4. StackDiscipline'
      BY <3>1, <2>6 DEF StackDiscipline, IInv, OwnStack
    <3> QED BY <3>1, <3>3, <3>4, <2>3, <2>6 DEF IInv, TypeOK
  <2>8. CASE pst[n] # "TERMINATED"
    <3>1. /\ state' = [pst EXCEPT ![n] = "RUNNING"] /\ current' = n /\ rsp0' = n
          /\ phase' \in {"wild", phase}
      BY <2>2, <2>8 DEF Dispatch
    <3>2. ProcessorOwner'
      BY <3>1, <2>3, <2>4 DEF ProcessorOwner, TaskStates
    <3>3. StackDiscipline'
      BY <3>1, <2>6 DEF StackDiscipline, OwnStack
    <3>4. state' \in [Slots -> TaskStates] /\ phase' \in Phases /\ phase' # "boot"
      BY <3>1, <2>3 DEF TaskStates, Phases, IInv, TypeOK
    <3>5. \A t \in Slots : st[t] = "TERMINATED" =>
            state'[t] = "TERMINATED" /\ (current' = t => current = t)
      BY <3>1, <2>3, <2>4, <2>8
    <3> QED BY <3>1, <3>2, <3>3, <3>4, <3>5, <2>4, <2>6
  <2> QED BY <2>7, <2>8
<1> QED BY <1>1, <1>2

(* The states after an exit satisfy the hypotheses of ScheduleStep.        *)
LEMMA ExitedFacts ==
  ASSUME IInv, current # Kernel
  PROVE  /\ Exited \in [Slots -> TaskStates]
         /\ \A t \in Slots : Exited[t] = "RUNNING" => t = current
         /\ Exited[current] = "TERMINATED"
         /\ Exited[Kernel] # "TERMINATED"
         /\ \A t \in Slots : state[t] = "TERMINATED" => Exited[t] = "TERMINATED"
BY SlotsFacts DEF Exited, IInv, TypeOK, ProcessorOwner, TaskStates

(* One step of the scheduler keeps the invariant and every exited task     *)
(* where it is.                                                            *)
LEMMA NextStep ==
  ASSUME IInv, [Next]_vars
  PROVE  /\ IInv'
         /\ \A t \in Slots : state[t] = "TERMINATED" =>
              state'[t] = "TERMINATED" /\ (current' = t => current = t)
<1> DEFINE Keeps == \A t \in Slots : state[t] = "TERMINATED" =>
              state'[t] = "TERMINATED" /\ (current' = t => current = t)
<1> USE SlotsFacts
<1>1. CASE CreateUser
  <2>1. count \in Slots /\ count # Kernel /\ count + 1 \in 1 .. MaxTasks
    BY <1>1, MaxTasksAssumption DEF CreateUser, IInv, TypeOK, Slots, Kernel
  <2>2. nxt' \in [Slots -> Slots \cup {None}]
    BY <1>1, <2>1 DEF CreateUser, Linked, Tails, IInv, TypeOK
  <2>3. TypeOK'
    BY <1>1, <2>1, <2>2 DEF CreateUser, IInv, TypeOK, TaskStates
  <2>4. state' = [state EXCEPT ![count] = "READY"] /\ current' = Kernel /\ rsp0' = rsp0
    BY <1>1 DEF CreateUser, IInv, BootState
  <2>5. BootState' /\ ProcessorOwner'
    BY <1>1, <2>1, <2>4 DEF CreateUser, IInv, TypeOK, BootState, ProcessorOwner
  <2>6. StackDiscipline'
    BY <1>1, <2>1, <2>4 DEF CreateUser, IInv, TypeOK, StackDiscipline, OwnStack
  <2> QED BY <1>1, <2>1, <2>3, <2>4, <2>5, <2>6
          DEF IInv, CreateUser, BootState, ProcessorOwner
<1>2. CASE CreateHangs \/ EnableInterrupts \/ FatalStop
  BY <1>2 DEF CreateHangs, EnableInterrupts, FatalStop, IInv, TypeOK, Phases,
              BootState, ProcessorOwner, StackDiscipline, OwnStack
<1>3. CASE Tick
  <2>1. ticks' \in 0 .. Quantum - 1
    BY <1>3, QuantumAssumption DEF Tick, NextTicks, IInv, TypeOK
  <2>2. CASE ticks' = 0
    <3>1. Schedule(state) /\ phase = "on" /\ UNCHANGED <<nxt, count, failed>>
      BY <1>3, <2>2 DEF Tick
    <3>2. /\ state \in [Slots -> TaskStates]
          /\ \A t \in Slots : state[t] = "RUNNING" => t = current
          /\ state[current] \in {"RUNNING", "TERMINATED"}
          /\ state[Kernel] # "TERMINATED"
      BY DEF IInv, TypeOK, ProcessorOwner
    <3>3. /\ state' \in [Slots -> TaskStates]
          /\ current' \in Slots
          /\ frame' \in [Slots -> Slots \cup {BootStack, None}]
          /\ rsp0' \in Slots \cup {BootStack}
          /\ phase' \in Phases /\ phase' # "boot"
          /\ ProcessorOwner' /\ StackDiscipline'
          /\ Keeps
      BY <3>1, <3>2, ScheduleStep
    <3> QED BY <3>1, <3>3, <2>1 DEF IInv, TypeOK, BootState
  <2>3. CASE ticks' # 0
    BY <1>3, <2>1, <2>3 DEF Tick, IInv, TypeOK, BootState, ProcessorOwner,
                            StackDiscipline, OwnStack
  <2> QED BY <2>2, <2>3
<1>4. CASE SysExit
  <2>1. TypeOK' /\ BootState' /\ ProcessorOwner' /\ Keeps
    BY <1>4, ExitedFacts DEF SysExit, IInv, TypeOK, BootState, ProcessorOwner
  <2>2. StackDiscipline'
    BY <1>4 DEF SysExit, IInv, StackDiscipline, OwnStack
  <2> QED BY <2>1, <2>2 DEF IInv
<1>5. CASE UserFault
  <2>1. /\ Schedule(Exited) /\ phase = "on" /\ current # Kernel
        /\ UNCHANGED <<nxt, count, ticks, failed>>
    BY <1>5 DEF UserFault
  <2>2. /\ state' \in [Slots -> TaskStates]
        /\ current' \in Slots
        /\ frame' \in [Slots -> Slots \cup {BootStack, None}]
        /\ rsp0' \in Slots \cup {BootStack}
        /\ phase' \in Phases /\ phase' # "boot"
        /\ ProcessorOwner' /\ StackDiscipline'
        /\ \A t \in Slots : Exited[t] = "TERMINATED" =>
             state'[t] = "TERMINATED" /\ (current' = t => current = t)
    BY <2>1, ExitedFacts, ScheduleStep
  <2> QED BY <2>1, <2>2, ExitedFacts DEF IInv, TypeOK, BootState
<1>6. CASE UNCHANGED vars
  BY <1>6 DEF vars, IInv, TypeOK, BootState, ProcessorOwner, StackDiscipline, OwnStack
<1> QED BY <1>1, <1>2, <1>3, <1>4, <1>5, <1>6 DEF Next

THEOREM SpecIInv == Spec => []IInv
<1>1. IInv /\ [Next]_vars => IInv'
  BY NextStep
<1> QED BY InitIInv, <1>1, PTL DEF Spec

(* Type correctness of the scheduler.                                      *)
THEOREM TypeCorrect == Spec => []TypeOK
BY SpecIInv, PTL DEF IInv

(* One RUNNING task at most, the one that executes; the kernel task never  *)
(* ends (task_schedule, task_exit_current).                                *)
THEOREM OwnerAlways == Spec => []ProcessorOwner
BY SpecIInv, PTL DEF IInv

(* Registers are always saved on the task's own stack (task_schedule and   *)
(* tss_set_rsp0).                                                          *)
THEOREM StacksAlways == Spec => []StackDiscipline
BY SpecIInv, PTL DEF IInv

(* An exited or faulted task never gets the processor again.               *)
THEOREM ExitedNeverRuns == Spec => TerminatedStays
<1>1. IInv /\ [Next]_vars =>
        [\A t \in Slots : state[t] = "TERMINATED" =>
           state'[t] = "TERMINATED" /\ (current' = t => current = t)]_vars
  BY NextStep
<1> QED BY SpecIInv, <1>1, PTL DEF Spec, TerminatedStays

-----------------------------------------------------------------------------
(* The circular list.                                                      *)

LEMMA Least ==
  ASSUME NEW C, C \subseteq Nat, C # {}
  PROVE  \E e \in C : \A c \in C : e <= c
<1>1. PICK R : R = OpToRel(<, Nat)
  OBVIOUS
<1>2. \A x, y \in Nat : <<x, y>> \in R <=> x < y
  BY <1>1 DEF OpToRel
<1>3. IsWellFoundedOn(R, Nat)
  BY <1>1, NatLessThanWellFounded, Zenon
<1>4. PICK e \in C : \A c \in C : ~(<<c, e>> \in R)
  BY <1>3, WFMin
<1>5. ASSUME NEW c \in C PROVE e <= c
  <2>1. c \in Nat /\ e \in Nat
    OBVIOUS
  <2>2. ~(c < e)
    BY <1>2, <1>4, <2>1
  <2> QED BY <2>1, <2>2
<1> QED BY <1>5

IsWalk(w, f, t, m) ==
  w = [i \in 0 .. m |-> IF i = 0 THEN t
                        ELSE LET v == w[i - 1] IN IF v = None THEN None ELSE f[v]]

LEMMA WalkExists ==
  ASSUME NEW f, NEW t, NEW m \in Nat
  PROVE  \E w : IsWalk(w, f, t, m)
<1> DEFINE C == {k \in Nat : ~ \E w : IsWalk(w, f, t, k)}
<1> SUFFICES ASSUME m \in C PROVE FALSE
  OBVIOUS
<1>1. PICK e \in C : \A c \in C : e <= c
  BY Least
<1>2. e # 0
  <2>1. IsWalk([i \in 0 .. 0 |-> t], f, t, 0)
    BY DEF IsWalk
  <2> QED BY <2>1
<1>3. PICK d \in Nat : e = d + 1
  BY <1>2, e = (e - 1) + 1, e - 1 \in Nat
<1>4. d \notin C
  <2>1. ~(e <= d)
    BY <1>3
  <2> QED BY <1>1, <2>1
<1>5. PICK w : IsWalk(w, f, t, d)
  BY <1>4
<1>6. PICK y : y = IF w[d] = None THEN None ELSE f[w[d]]
  OBVIOUS
<1>7. PICK x : x = [i \in 0 .. e |-> IF i = e THEN y ELSE w[i]]
  OBVIOUS
<1>8. \A i \in 0 .. d : w[i] = IF i = 0 THEN t
                              ELSE LET v == w[i - 1] IN IF v = None THEN None ELSE f[v]
  BY <1>5 DEF IsWalk
<1>9. ASSUME NEW i \in 0 .. e
      PROVE  x[i] = IF i = 0 THEN t
                    ELSE LET v == x[i - 1] IN IF v = None THEN None ELSE f[v]
  <2>1. CASE i = e
    BY <1>3, <1>6, <1>7, <2>1
  <2>2. CASE i # e
    <3>1. i \in 0 .. d /\ x[i] = w[i] /\ (i # 0 => x[i - 1] = w[i - 1])
      BY <1>3, <1>7, <2>2
    <3> QED BY <1>8, <3>1
  <2> QED BY <2>1, <2>2
<1>10. IsWalk(x, f, t, e)
  BY <1>7, <1>9 DEF IsWalk
<1> QED BY <1>1, <1>10

(* A walk that cannot leave S goes on to its end.                          *)
OneWalk(f, S, t, m) ==
  \E w : /\ Walk(f, t, m) = {w} /\ w[0] = t
         /\ \A i \in 0 .. m : w[i] \in S
         /\ \A i \in 1 .. m : w[i] = f[w[i - 1]]

LEMMA WalkFacts ==
  ASSUME NEW f, NEW S, NEW t \in S, NEW m \in Nat, None \notin S, \A s \in S : f[s] \in S
  PROVE  OneWalk(f, S, t, m)
<1>1. PICK w : w = CHOOSE x : IsWalk(x, f, t, m)
  OBVIOUS
<1>2. IsWalk(w, f, t, m)
  BY <1>1, WalkExists
<1>3. Walk(f, t, m) = {x \in {w} : \A i \in 0 .. m : x[i] # None}
  BY <1>1 DEF Walk, IsWalk
<1>4. \A i \in 0 .. m : w[i] = IF i = 0 THEN t
                              ELSE LET v == w[i - 1] IN IF v = None THEN None ELSE f[v]
  BY <1>2 DEF IsWalk
<1> DEFINE C == {i \in 0 .. m : w[i] \notin S}
<1>5. C = {}
  <2> SUFFICES ASSUME C # {} PROVE FALSE
    OBVIOUS
  <2>1. PICK e \in C : \A c \in C : e <= c
    <3>1. PICK D : D = C
      OBVIOUS
    <3>2. D \subseteq Nat /\ D # {}
      BY <3>1
    <3> HIDE DEF C
    <3> QED BY <3>1, <3>2, Least
  <2>2. e # 0
    BY <1>4
  <2>3. e - 1 \in 0 .. m /\ e - 1 \notin C
    <3>1. e - 1 \in 0 .. m /\ ~(e <= e - 1)
      BY <2>2
    <3> QED BY <2>1, <3>1
  <2>4. w[e - 1] \in S /\ w[e - 1] # None
    BY <2>3
  <2>5. w[e] = f[w[e - 1]]
    BY <1>4, <2>2, <2>4
  <2> QED BY <2>1, <2>4, <2>5
<1>6. \A i \in 0 .. m : w[i] \in S /\ w[i] # None
  BY <1>5
<1>7. Walk(f, t, m) = {w}
  BY <1>3, <1>6
<1>8. w[0] = t
  BY <1>4
<1>9. ASSUME NEW i \in 1 .. m PROVE w[i] = f[w[i - 1]]
  <2>1. i \in 0 .. m /\ i # 0 /\ i - 1 \in 0 .. m
    OBVIOUS
  <2> QED BY <1>4, <1>6, <2>1
<1> QED BY <1>6, <1>7, <1>8, <1>9 DEF OneWalk

(* The task after t in the list.                                           *)
Following(t) == IF t + 1 < count THEN t + 1 ELSE 0

(* The list goes round the slots handed out in their order, and each has a *)
(* stack to come back to, except the kernel task before it first waits.    *)
RingShape ==
  ~failed => /\ current \in Members /\ phase # "wild"
             /\ \A t \in Members : nxt[t] = Following(t)
             /\ \A t \in Members : frame[t] = None => t = Kernel /\ state[Kernel] = "RUNNING"

(* What the walk of a list like that meets, from s on.                     *)
LEMMA RingWalk ==
  ASSUME IInv, NEW f, \A t \in Members : f[t] = Following(t),
         NEW s \in Members, NEW m \in Nat
  PROVE  \E w : /\ Walk(f, s, m) = {w} /\ \A i \in 0 .. m : w[i] \in Members
                /\ \A i \in 1 .. m : w[i] = f[w[i - 1]]
                /\ \A i \in 0 .. m : i < count =>
                     w[i] = IF s + i < count THEN s + i ELSE s + i - count
<1>1. count \in Nat \ {0} /\ None \notin Members
  BY NoneAssumption DEF IInv, TypeOK, Members
<1>2. \A t \in Members : f[t] \in Members
  BY <1>1 DEF Members, Following
<1>3. PICK w : /\ Walk(f, s, m) = {w} /\ w[0] = s
               /\ \A i \in 0 .. m : w[i] \in Members
               /\ \A i \in 1 .. m : w[i] = f[w[i - 1]]
  <2>1. PICK S : S = Members
    OBVIOUS
  <2>2. s \in S /\ None \notin S /\ \A t \in S : f[t] \in S
    BY <1>1, <1>2, <2>1
  <2>3. OneWalk(f, S, s, m)
    BY <2>2, WalkFacts
  <2> QED BY <2>1, <2>3 DEF OneWalk
<1> DEFINE Met(i) == IF s + i < count THEN s + i ELSE s + i - count
           C == {i \in 0 .. m : i < count /\ w[i] # Met(i)}
<1>4. C = {}
  <2> SUFFICES ASSUME C # {} PROVE FALSE
    OBVIOUS
  <2>1. PICK e \in C : \A c \in C : e <= c
    <3>1. PICK D : D = C
      OBVIOUS
    <3>2. D \subseteq Nat /\ D # {}
      BY <3>1
    <3> HIDE DEF C
    <3> QED BY <3>1, <3>2, Least
  <2>2. e # 0
    BY <1>1, <1>3 DEF Members
  <2>3. e - 1 \in 0 .. m /\ e - 1 < count /\ e - 1 \notin C
    <3>1. e - 1 \in 0 .. m /\ ~(e <= e - 1) /\ e - 1 < count
      BY <1>1, <2>2
    <3> QED BY <2>1, <3>1
  <2>4. w[e - 1] = Met(e - 1) /\ w[e] = f[w[e - 1]]
    BY <1>3, <2>2, <2>3
  <2>5. w[e - 1] \in Members /\ w[e] = Following(w[e - 1])
    BY <1>3, <2>3, <2>4
  <2>6. s \in 0 .. count - 1 /\ e \in 1 .. count - 1
    BY <1>1, <2>2 DEF Members
  <2>7. w[e] = Met(e)
    BY <1>1, <2>4, <2>5, <2>6 DEF Following
  <2> QED BY <2>7
<1> QED BY <1>3, <1>4

(* How many tasks on t comes after c in the list.                          *)
Ahead(c, t) == IF c < t THEN t - c ELSE t + count - c

(* The scheduler stops at the first READY task after the current one, and  *)
(* no further than any other READY task.                                   *)
LEMMA FirstReadyFacts ==
  ASSUME IInv, RingShape, ~failed, NEW st
  PROVE  /\ \A n \in FirstReady(st) : n \in Members /\ st[n] = "READY"
         /\ \A t \in Members \ {current} : st[t] = "READY" =>
              /\ FirstReady(st) # {}
              /\ \A n \in FirstReady(st) :
                   n # current /\ (n = t \/ Ahead(n, t) < Ahead(current, t))
<1>1. count \in Nat \ {0} /\ current \in Members /\ Members \subseteq Slots
  BY MaxTasksAssumption DEF IInv, TypeOK, RingShape, Members, Slots
<1>2. \A t \in Members : nxt[t] = Following(t)
  BY DEF RingShape
<1>3. FirstCandidate = Following(current) /\ Following(current) \in Members
  BY <1>1, <1>2 DEF FirstCandidate, Following, Members
<1>4. PICK m \in Nat, s \in Members : m = count - 1 /\ s = Following(current)
  BY <1>1, <1>3
<1>5. PICK w : /\ Walk(nxt, s, m) = {w} /\ \A i \in 0 .. m : w[i] \in Members
               /\ \A i \in 0 .. m : i < count =>
                    w[i] = IF s + i < count THEN s + i ELSE s + i - count
  BY <1>2, RingWalk
<1>6. \A n : n \in FirstReady(st) <=>
        n \in Slots /\ \E i \in 0 .. m : /\ w[i] = n /\ st[n] = "READY"
                                         /\ \A j \in 0 .. i - 1 : st[w[j]] # "READY"
  BY <1>3, <1>4, <1>5 DEF FirstReady
<1>7. ASSUME NEW t \in Members \ {current}
      PROVE  w[Ahead(current, t) - 1] = t /\ Ahead(current, t) \in 1 .. m
  BY <1>1, <1>4, <1>5 DEF Ahead, Members, Following
<1>8. \A n \in FirstReady(st) : n \in Members /\ st[n] = "READY"
  BY <1>5, <1>6
<1>9. ASSUME NEW t \in Members \ {current}, st[t] = "READY"
      PROVE  FirstReady(st) # {}
  <2>1. PICK C : C = {i \in 0 .. m : st[w[i]] = "READY"}
    OBVIOUS
  <2>2. C \subseteq Nat /\ Ahead(current, t) - 1 \in C
    BY <1>7, <1>9, <2>1
  <2>3. PICK e \in C : \A c \in C : e <= c
    BY <2>2, Least
  <2>4. \A j \in 0 .. e - 1 : st[w[j]] # "READY"
    <3>1. ASSUME NEW j \in 0 .. e - 1, st[w[j]] = "READY" PROVE FALSE
      <4>1. e \in 0 .. m /\ j \in 0 .. m /\ ~(e <= j)
        BY <2>1
      <4> QED BY <2>1, <2>3, <3>1, <4>1
    <3> QED BY <3>1
  <2>5. w[e] \in Members /\ st[w[e]] = "READY" /\ e \in 0 .. m
    BY <1>5, <2>1
  <2> QED BY <1>1, <1>6, <2>4, <2>5
<1>10. ASSUME NEW t \in Members \ {current}, st[t] = "READY", NEW n \in FirstReady(st)
       PROVE  n # current /\ (n = t \/ Ahead(n, t) < Ahead(current, t))
  <2>1. PICK i \in 0 .. m : w[i] = n /\ \A j \in 0 .. i - 1 : st[w[j]] # "READY"
    BY <1>6
  <2>2. PICK k \in 0 .. m - 1 : k = Ahead(current, t) - 1 /\ w[k] = t
    BY <1>7
  <2>3. i <= k
    BY <1>10, <2>1, <2>2
  <2>4. n = IF s + i < count THEN s + i ELSE s + i - count
    <3>1. i < count
      BY <1>1, <1>4
    <3> QED BY <1>5, <2>1, <3>1
  <2> QED BY <1>1, <1>4, <2>2, <2>3, <2>4 DEF Ahead, Members, Following
<1> QED BY <1>8, <1>9, <1>10

(* task_schedule, on the task states st, keeps the list whole, and brings  *)
(* every task that waits nearer, except the one it preempts.               *)
LEMMA ScheduleRing ==
  ASSUME IInv, RingShape, ~failed, phase = "on",
         NEW st \in [Slots -> TaskStates],
         \A t \in Slots : st[t] = "RUNNING" => t = current,
         st[current] \in {"RUNNING", "TERMINATED"}, st[Kernel] # "TERMINATED",
         \A t \in Slots : t # current => st[t] = state[t],
         Schedule(st), UNCHANGED <<nxt, count, failed>>
  PROVE  /\ RingShape'
         /\ \A t \in Members : state'[t] = "READY" =>
              t = current \/ (state[t] = "READY" /\ Ahead(current', t) < Ahead(current, t))
<1> USE SlotsFacts
<1>1. /\ count \in Nat \ {0} /\ count <= MaxTasks /\ current \in Members
      /\ Members \subseteq Slots /\ Members' = Members
      /\ \A t \in Slots : Following(t)' = Following(t)
  BY MaxTasksAssumption DEF IInv, TypeOK, RingShape, Members, Slots, Following
<1>2. CASE count <= 1
  <2>1. current = Kernel /\ \A t \in Members : t = Kernel
    BY <1>1, <1>2 DEF Members, Kernel
  <2>2. state' = st /\ UNCHANGED <<current, frame, rsp0, phase>>
    BY <1>2 DEF Schedule
  <2>3. \A t \in Members : state'[t] = "READY" => t = current
    BY <2>1
  <2>4. st[Kernel] = "RUNNING"
    BY <1>1, <2>1
  <2>5. RingShape'
    BY <1>1, <2>2, <2>4 DEF RingShape
  <2> QED BY <2>3, <2>5
<1>3. CASE ~(count <= 1)
  <2> DEFINE pst == Preempted(st)
  <2>1. /\ frame' = [frame EXCEPT ![current] = StackInUse]
        /\ \E n \in Selected(pst) :
             IF pst[n] = "TERMINATED"
             THEN state' = pst /\ UNCHANGED <<current, rsp0, phase>>
             ELSE /\ Dispatch(n, pst)
                  /\ phase' = IF frame'[n] = None THEN "wild" ELSE phase
    BY <1>3 DEF Schedule
  <2>2. PICK n \in Selected(pst) :
             IF pst[n] = "TERMINATED"
             THEN state' = pst /\ UNCHANGED <<current, rsp0, phase>>
             ELSE /\ Dispatch(n, pst)
                  /\ phase' = IF frame'[n] = None THEN "wild" ELSE phase
    BY <2>1
  <2>3. /\ pst \in [Slots -> TaskStates] /\ \A t \in Slots : t # current => pst[t] = state[t]
        /\ pst[current] \in {"READY", "TERMINATED"}
    BY DEF Preempted, TaskStates, IInv, TypeOK
  <2>4. /\ \A x \in FirstReady(pst) : x \in Members /\ pst[x] = "READY"
        /\ \A t \in Members \ {current} : pst[t] = "READY" =>
             /\ FirstReady(pst) # {}
             /\ \A x \in FirstReady(pst) :
                  x # current /\ (x = t \/ Ahead(x, t) < Ahead(current, t))
    <3>1. PICK p : p = pst
      OBVIOUS
    <3>2. /\ \A x \in FirstReady(p) : x \in Members /\ p[x] = "READY"
          /\ \A t \in Members \ {current} : p[t] = "READY" =>
               /\ FirstReady(p) # {}
               /\ \A x \in FirstReady(p) :
                    x # current /\ (x = t \/ Ahead(x, t) < Ahead(current, t))
      BY FirstReadyFacts
    <3> QED BY <3>1, <3>2, Zenon
  <2>5. n \in Members
    BY <1>1, <2>2, <2>4 DEF Selected
  <2>6. \A t \in Members : frame'[t] # None
    <3>1. StackInUse # None /\ frame \in [Slots -> Slots \cup {BootStack, None}]
      BY NoneAssumption, MaxTasksAssumption
         DEF StackInUse, IInv, TypeOK, Slots, BootStack
    <3>2. ASSUME NEW t \in Members, t # current PROVE frame[t] # None
      <4>1. state[Kernel] = "RUNNING" => current = Kernel
        BY DEF IInv, ProcessorOwner
      <4> QED BY <3>2, <4>1 DEF RingShape
    <3> QED BY <1>1, <2>1, <3>1, <3>2
  <2>7. current' \in {current, n} /\ phase' = phase
    BY <2>2, <2>5, <2>6 DEF Dispatch
  <2>8. RingShape'
    <3>1. current' \in Members /\ phase' # "wild"
      BY <1>1, <2>5, <2>7
    <3>2. \A t \in Members : nxt'[t] = Following(t)
      BY DEF RingShape
    <3> QED BY <1>1, <2>6, <3>1, <3>2 DEF RingShape
  <2>9. ASSUME NEW t \in Members, state'[t] = "READY", t # current
        PROVE  state[t] = "READY" /\ Ahead(current', t) < Ahead(current, t)
    <3>1. pst[t] = "READY" /\ state[t] = "READY"
      BY <1>1, <2>2, <2>3, <2>9 DEF Dispatch
    <3>2. n \in FirstReady(pst) /\ pst[n] = "READY"
      BY <2>2, <2>4, <2>9, <3>1 DEF Selected
    <3>3. n # t
      BY <1>1, <2>2, <2>3, <2>5, <2>9, <3>2 DEF Dispatch
    <3>4. current' = n
      BY <2>2, <3>2 DEF Dispatch
    <3> QED BY <2>4, <2>9, <3>1, <3>2, <3>3, <3>4
  <2> QED BY <2>8, <2>9
<1> QED BY <1>2, <1>3

(* task_alloc_slot finds the last slot of the list and puts the new one    *)
(* behind it.                                                              *)
LEMMA CreateRing ==
  ASSUME IInv, RingShape, ~failed, CreateUser, ~failed'
  PROVE  RingShape'
<1> USE SlotsFacts
<1>1. PICK f : f = Linked(count)
  OBVIOUS
<1>2. /\ count \in Nat \ {0} /\ count < MaxTasks /\ count \in Slots /\ Members \subseteq Slots
      /\ current = Kernel /\ Kernel \in Members /\ count \notin Members
  BY MaxTasksAssumption DEF CreateUser, IInv, BootState, TypeOK, Members, Slots, Kernel
<1>3. /\ f = [nxt EXCEPT ![count] = Kernel] /\ nxt \in [Slots -> Slots \cup {None}]
      /\ \A t \in Members : f[t] = Following(t)
  BY <1>1, <1>2 DEF Linked, IInv, TypeOK, RingShape
<1>4. Tails(f) \subseteq {count - 1}
  <2>1. PICK m \in Nat : m = MaxTasks
    BY MaxTasksAssumption
  <2>2. PICK w : /\ Walk(f, Kernel, m) = {w} /\ \A i \in 0 .. m : w[i] \in Members
                 /\ \A i \in 1 .. m : w[i] = f[w[i - 1]]
    <3>1. PICK s \in Members : s = Kernel
      BY <1>2
    <3>2. \A t \in Members : f[t] = Following(t)
      BY <1>3
    <3>3. \E w : /\ Walk(f, s, m) = {w} /\ \A i \in 0 .. m : w[i] \in Members
                 /\ \A i \in 1 .. m : w[i] = f[w[i - 1]]
                 /\ \A i \in 0 .. m : i < count =>
                      w[i] = IF s + i < count THEN s + i ELSE s + i - count
      BY <3>2, RingWalk
    <3> QED BY <3>1, <3>3
  <2>3. ASSUME NEW t \in Tails(f) PROVE t = count - 1
    <3>1. PICK i \in 1 .. m : w[i] = Kernel /\ w[i - 1] = t
      BY <1>2, <2>1, <2>2 DEF Tails
    <3>2. t \in Members /\ Following(t) = Kernel
      BY <1>3, <2>2, <3>1
    <3> QED BY <1>2, <3>2 DEF Following, Members, Kernel
  <2> QED BY <2>3
<1>5. nxt' = [f EXCEPT ![count - 1] = count]
  BY <1>1, <1>4 DEF CreateUser
<1>6. /\ count' = count + 1 /\ frame' = [frame EXCEPT ![count] = count]
      /\ state' = [state EXCEPT ![count] = "READY"]
      /\ UNCHANGED <<current, rsp0, ticks, phase>> /\ phase = "boot"
  BY DEF CreateUser
<1>7. Members' = Members \cup {count}
  BY <1>2, <1>6 DEF Members
<1>8. \A t \in Members' : nxt'[t] = Following(t)'
  BY <1>2, <1>3, <1>5, <1>6, <1>7 DEF Following, Members, Slots, Kernel
<1>9. \A t \in Members' : frame'[t] = None => t = Kernel /\ state'[Kernel] = "RUNNING"
  BY <1>2, <1>6, <1>7, NoneAssumption DEF RingShape, IInv, TypeOK
<1> QED BY <1>2, <1>6, <1>7, <1>8, <1>9 DEF RingShape

LEMMA RingStep ==
  ASSUME IInv, RingShape, [Next]_vars
  PROVE  RingShape'
<1> SUFFICES ASSUME ~failed' PROVE RingShape'
  BY DEF RingShape
<1>1. ~failed
  BY DEF Next, CreateUser, CreateHangs, EnableInterrupts, Tick, SysExit, UserFault, FatalStop,
         vars, IInv, TypeOK
<1>2. CASE CreateUser
  BY <1>1, <1>2, CreateRing
<1>3. CASE /\ UNCHANGED <<nxt, count, current, frame, failed>>
           /\ state'[Kernel] = state[Kernel] /\ phase' # "wild"
  BY <1>3 DEF RingShape, Members, Following
<1>4. CASE CreateHangs \/ EnableInterrupts \/ FatalStop \/ UNCHANGED vars
  <2>1. phase # "wild"
    BY <1>1 DEF RingShape
  <2> QED BY <1>3, <1>4, <2>1 DEF CreateHangs, EnableInterrupts, FatalStop, vars
<1>5. CASE SysExit
  <2>1. state'[Kernel] = state[Kernel]
    BY <1>5, SlotsFacts DEF SysExit, Exited, IInv, TypeOK
  <2> QED BY <1>3, <1>5, <2>1 DEF SysExit
<1>6. /\ state \in [Slots -> TaskStates] /\ state[Kernel] # "TERMINATED"
      /\ \A t \in Slots : state[t] = "RUNNING" => t = current
      /\ state[current] \in {"RUNNING", "TERMINATED"}
  BY DEF IInv, TypeOK, ProcessorOwner
<1>7. CASE Tick
  <2>1. CASE ticks' = 0
    <3>1. Schedule(state) /\ phase = "on" /\ UNCHANGED <<nxt, count, failed>>
      BY <1>7, <2>1 DEF Tick
    <3> QED BY <1>1, <1>6, <3>1, ScheduleRing
  <2>2. CASE ticks' # 0
    BY <1>3, <1>7, <2>2 DEF Tick
  <2> QED BY <2>1, <2>2
<1>8. CASE UserFault
  <2>1. /\ Schedule(Exited) /\ phase = "on" /\ current # Kernel
        /\ UNCHANGED <<nxt, count, ticks, failed>>
    BY <1>8 DEF UserFault
  <2>2. \A t \in Slots : t # current => Exited[t] = state[t]
    BY DEF Exited, IInv, TypeOK
  <2> QED BY <1>1, <2>1, <2>2, ExitedFacts, ScheduleRing
<1> QED BY <1>2, <1>4, <1>5, <1>7, <1>8 DEF Next

LEMMA InitRing == Init => RingShape
<1> SUFFICES ASSUME Init PROVE RingShape
  OBVIOUS
<1>1. Members = {Kernel}
  BY DEF Init, Members, Kernel
<1> QED BY <1>1, SlotsFacts DEF Init, RingShape, Following, Kernel

LEMMA RingIsIntact == IInv /\ RingShape => RingIntact
<1> SUFFICES ASSUME IInv, RingShape, ~failed PROVE Orbit = Members /\ phase # "wild"
  BY DEF RingIntact
<1>1. /\ count \in Nat \ {0} /\ count <= MaxTasks /\ current \in Members
      /\ Members \subseteq Slots /\ \A t \in Members : nxt[t] = Following(t)
  BY MaxTasksAssumption DEF IInv, TypeOK, RingShape, Members, Slots
<1>2. PICK m \in Nat : m = MaxTasks
  BY MaxTasksAssumption
<1>3. PICK w : /\ Walk(nxt, current, m) = {w} /\ \A i \in 0 .. m : w[i] \in Members
               /\ \A i \in 0 .. m : i < count =>
                    w[i] = IF current + i < count THEN current + i ELSE current + i - count
  <2>1. PICK s \in Members, f \in {nxt} : f = nxt /\ s = current
    BY <1>1
  <2>2. \E w : /\ Walk(f, s, m) = {w} /\ \A i \in 0 .. m : w[i] \in Members
               /\ \A i \in 1 .. m : w[i] = f[w[i - 1]]
               /\ \A i \in 0 .. m : i < count =>
                    w[i] = IF s + i < count THEN s + i ELSE s + i - count
    BY <1>1, <2>1, RingWalk
  <2> QED BY <2>1, <2>2
<1>4. \A t : t \in Orbit <=> t \in Slots /\ \E i \in 0 .. m : w[i] = t
  BY <1>2, <1>3 DEF Orbit
<1>5. ASSUME NEW t \in Members PROVE t \in Orbit
  <2>1. PICK i \in 0 .. m : i = IF current <= t THEN t - current ELSE t + count - current
    <3>1. (IF current <= t THEN t - current ELSE t + count - current) \in 0 .. m
      BY <1>1, <1>2 DEF Members
    <3> QED BY <3>1
  <2>2. i < count /\ t = IF current + i < count THEN current + i ELSE current + i - count
    BY <1>1, <2>1 DEF Members
  <2>3. w[i] = t
    BY <1>3, <2>2
  <2> QED BY <1>1, <1>4, <2>3
<1>6. Orbit \subseteq Members
  BY <1>3, <1>4
<1>7. phase # "wild"
  BY DEF RingShape
<1> QED BY <1>5, <1>6, <1>7

(* As long as no creation has failed, the list holds the tasks created and *)
(* no other slot, and no switch goes to a stack never set up               *)
(* (task_alloc_slot, task_schedule).                                       *)
THEOREM RingStaysIntact == Spec => []RingIntact
<1>1. IInv /\ RingShape /\ [Next]_vars => IInv' /\ RingShape'
  BY NextStep, RingStep
<1> QED BY InitIInv, InitRing, RingIsIntact, <1>1, PTL DEF Spec

-----------------------------------------------------------------------------
(* Every step of the composition is a step of the scheduler or none.       *)
LEMMA StepsAreScheduler == [IntNext]_allvars => [Next]_vars
<1> SUFFICES ASSUME [IntNext]_allvars PROVE [Next]_vars
    OBVIOUS
<1>1. CASE SetUp
  BY <1>1 DEF SetUp, SetUpApic, SetUpPic
<1>2. CASE BootStep \/ Sti \/ TaskStep
  BY <1>2 DEF BootStep, Sti, TaskStep, Next
<1>3. ASSUME NEW i \in Devices, Raise(i) PROVE UNCHANGED vars
  BY <1>3 DEF Raise
<1>4. CASE Interrupt
  BY <1>4 DEF Interrupt, TimerInterrupt, DeviceInterrupt, StrayInterrupt, Next
<1>5. ASSUME NEW v, LeftoverInterrupt(v) PROVE Next
  BY <1>5 DEF LeftoverInterrupt, Next
<1>6. CASE UNCHANGED allvars
  BY <1>6 DEF allvars
<1> QED BY <1>1, <1>2, <1>3, <1>4, <1>5, <1>6 DEF IntNext

(* The interrupt controllers, the firmware's tables and the order in which *)
(* lines are served add nothing to what the scheduler may do.              *)
THEOREM InterruptsDriveTheScheduler == IntSpec => Init /\ [][Next]_vars
<1>1. IntInit => Init
  BY DEF IntInit
<1> QED BY <1>1, StepsAreScheduler, PTL DEF IntSpec

(* Under the interrupts of any board one task owns the processor and each  *)
(* task's registers are on its own stack (task_schedule, tss_set_rsp0).    *)
THEOREM OwnerUnderInterrupts == IntSpec => [](ProcessorOwner /\ StackDiscipline)
<1>1. IInv /\ [Next]_vars => IInv'
  BY NextStep
<1>2. IInv => ProcessorOwner /\ StackDiscipline
  BY DEF IInv
<1> QED BY <1>1, <1>2, InterruptsDriveTheScheduler, InitIInv, PTL

(* Under the interrupts of any board an exited task never runs again.      *)
THEOREM ExitedNeverRunsUnderInterrupts == IntSpec => TerminatedStays
<1>1. IInv /\ [Next]_vars => IInv'
  BY NextStep
<1>2. IInv /\ [Next]_vars =>
        [\A t \in Slots : state[t] = "TERMINATED" =>
           state'[t] = "TERMINATED" /\ (current' = t => current = t)]_vars
  BY NextStep
<1> QED BY <1>1, <1>2, InterruptsDriveTheScheduler, InitIInv, PTL DEF TerminatedStays

(* Under the interrupts of any board the list of tasks stays whole until a *)
(* creation fails.                                                         *)
THEOREM RingUnderInterrupts == IntSpec => []RingIntact
<1>1. IInv /\ RingShape /\ [Next]_vars => IInv' /\ RingShape'
  BY NextStep, RingStep
<1> QED BY <1>1, InterruptsDriveTheScheduler, InitIInv, InitRing, RingIsIntact, PTL

-----------------------------------------------------------------------------
(* Lines and vectors.                                                      *)

(* What kernel_main wrote to the controllers, and nothing writes again.    *)
ControllersSet ==
  /\ mode \in {"none", "pic", "apic"}
  /\ mode = "none" => masked = board.masked /\ redir = board.left
  /\ mode = "pic"  => masked = board.masked \ Unmasked
  /\ mode = "apic" => HaveApic /\ masked = Lines /\ redir = SetEntries(board.left)

(* Tables of APICs, if any, describe the board: the lines with a handler   *)
(* are wired to the pins, and have the signal, that the overrides say, the *)
(* processor is the one the table names, and no other line is on one of    *)
(* these pins.                                                             *)
TablesTellTheTruth ==
  HaveApic =>
    /\ board.cpu = BootCpu
    /\ \A i \in Handled : /\ board.wire[i].pin = Pin(IsaMap(i).gsi)
                          /\ board.wire[i].low = IsaMap(i).low
                          /\ board.wire[i].level = IsaMap(i).level
    /\ \A i \in Handled, j \in Devices :
         i # j => board.wire[j].pin # Pin(IsaMap(i).gsi)

LEMMA TablesAreFixed ==
  ASSUME board' = board, NEW i
  PROVE  Entry(i)' = Entry(i) /\ HaveApic' = HaveApic
<1>1. Madt' = Madt
  BY DEF Madt, FindTable, Matches, Root
<1>2. \A type : OfType(type)' = OfType(type)
  BY <1>1 DEF OfType, Visited
<1>3. \A S : FirstOf(S)' = FirstOf(S) /\ LastOf(S)' = LastOf(S)
  BY <1>1 DEF FirstOf, LastOf
<1>4. HaveApic' = HaveApic
  BY <1>1, <1>2 DEF HaveApic
<1>5. IoApic' = IoApic
  BY <1>2, <1>3 DEF IoApic
<1>6. BootCpu' = BootCpu
  BY <1>1, <1>2, <1>3 DEF BootCpu
<1>7. IsaMap(i)' = IsaMap(i)
  BY <1>1, <1>2, <1>3 DEF IsaMap, Route
<1>8. Entry(i)' = Entry(i)
  BY <1>5, <1>6, <1>7 DEF Entry, Pin
<1> QED BY <1>4, <1>8

LEMMA BoardStays == [IntNext]_allvars => board' = board
<1>1. SetUp => board' = board
  BY DEF SetUp, SetUpApic, SetUpPic
<1>2. BootStep \/ Sti \/ TaskStep \/ UNCHANGED allvars => board' = board
  BY DEF BootStep, Sti, TaskStep, allvars, ivars
<1>3. \A i : Raise(i) \/ Take(i) => board' = board
  BY DEF Raise, Take
<1>4. Interrupt => board' = board
  <2>1. \A i : TimerInterrupt(i) => board' = board
    BY <1>3 DEF TimerInterrupt
  <2>2. \A i : DeviceInterrupt(i) => board' = board
    BY <1>3 DEF DeviceInterrupt
  <2>3. \A i : StrayInterrupt(i) => board' = board
    BY DEF StrayInterrupt, ivars
  <2> QED BY <2>1, <2>2, <2>3 DEF Interrupt
<1>5. \A v : LeftoverInterrupt(v) => board' = board
  BY DEF LeftoverInterrupt, ivars
<1> QED BY <1>1, <1>2, <1>3, <1>4, <1>5 DEF IntNext

LEMMA ControllersStaySet == ControllersSet /\ [IntNext]_allvars => ControllersSet'
<1> SUFFICES ASSUME ControllersSet, [IntNext]_allvars PROVE ControllersSet'
    OBVIOUS
<1>1. /\ board' = board /\ HaveApic' = HaveApic
      /\ SetEntries(board.left)' = SetEntries(board.left)
  <2>1. board' = board /\ HaveApic' = HaveApic /\ \A i : Entry(i)' = Entry(i)
    BY BoardStays, TablesAreFixed
  <2> QED BY <2>1 DEF SetEntries
<1>2. CASE SetUpApic
  BY <1>1, <1>2 DEF SetUpApic, ControllersSet, PicDisable
<1>3. CASE SetUpPic
  BY <1>1, <1>3 DEF SetUpPic, ControllersSet
<1>4. CASE UNCHANGED <<mode, masked, redir>>
  BY <1>1, <1>4 DEF ControllersSet
<1>5. SetUpApic \/ SetUpPic \/ UNCHANGED <<mode, masked, redir>>
  BY DEF IntNext, allvars, ivars, SetUp, BootStep, Sti, TaskStep, Raise, Interrupt,
         TimerInterrupt, DeviceInterrupt, StrayInterrupt, Take, LeftoverInterrupt
<1> QED BY <1>2, <1>3, <1>4, <1>5

THEOREM ControllersStay == IntSpec => []ControllersSet
<1>1. IntInit => ControllersSet
  BY DEF IntInit, ControllersSet
<1> QED BY <1>1, ControllersStaySet, PTL DEF IntSpec

LEMMA HandledAreLines ==
  /\ Handled \subseteq Devices /\ Handled \subseteq Unmasked
  /\ Devices \subseteq Lines /\ Cascade \in Unmasked
BY LinesAssumption DEF Handled, Devices, Unmasked, Cascade

(* On a pin that the kernel writes only its own entry is left.             *)
LEMMA EntriesFacts ==
  ASSUME ControllersSet, TablesTellTheTruth, mode = "apic", NEW i \in Devices
  PROVE  /\ \A f \in redir : f.pin = board.wire[i].pin =>
              IF i \in Handled THEN f = Entry(i) ELSE f \in board.left
         /\ i \in Handled => Entry(i) \in redir
<1>1. redir = SetEntries(board.left) /\ HaveApic
  BY DEF ControllersSet
<1>2. \A j \in Handled, k \in Devices : j # k => board.wire[k].pin # Entry(j).pin
  BY <1>1 DEF TablesTellTheTruth, Entry
<1>3. \A j \in Handled : board.wire[j].pin = Entry(j).pin
  BY <1>1 DEF TablesTellTheTruth, Entry
<1>4. ASSUME i \in Handled PROVE Entry(i) \in redir
  <2>1. \A k \in Handled : k > i => Entry(k).pin # Entry(i).pin
    <3>1. ASSUME NEW k \in Handled, k > i PROVE k # i
      BY <1>4, <3>1 DEF Handled
    <3> QED BY <1>2, <1>3, <1>4, <3>1
  <2> QED BY <1>1, <1>4, <2>1 DEF SetEntries
<1>5. ASSUME NEW f \in redir, f.pin = board.wire[i].pin
      PROVE  IF i \in Handled THEN f = Entry(i) ELSE f \in board.left
  <2>1. CASE f \in board.left /\ \A j \in Handled : f.pin # Entry(j).pin
    BY <1>3, <1>5, <2>1
  <2>2. ASSUME NEW j \in Handled, f = Entry(j)
        PROVE  IF i \in Handled THEN f = Entry(i) ELSE f \in board.left
    BY <1>2, <1>5, <2>2
  <2> QED BY <1>1, <2>1, <2>2 DEF SetEntries
<1> QED BY <1>4, <1>5

(* In either mode each line with a handler raises its own vector only.     *)
LEMMA LinesAreRight ==
  ControllersSet /\ TablesTellTheTruth => LinesReachTheirHandler
<1> SUFFICES ASSUME ControllersSet, TablesTellTheTruth, mode # "none", NEW i \in Handled
             PROVE  Vectors(i) = {VectorOf(i)}
    BY DEF LinesReachTheirHandler
<1>1. CASE mode = "pic"
  <2>1. i \notin masked /\ Cascade \notin masked
    BY <1>1, HandledAreLines DEF ControllersSet
  <2> QED BY <1>1, <2>1 DEF Vectors, PicVectors
<1>2. CASE mode = "apic"
  <2>1. PicVectors(i) = {}
    BY <1>2, HandledAreLines DEF ControllersSet, PicVectors
  <2>2. \A f \in redir : f.pin = board.wire[i].pin => f = Entry(i)
    BY <1>2, HandledAreLines, EntriesFacts
  <2>3. /\ Entry(i) \in redir /\ Entry(i).vector = VectorOf(i)
        /\ Entry(i).pin = board.wire[i].pin /\ Entry(i).low = board.wire[i].low
        /\ Entry(i).level = board.wire[i].level /\ Entry(i).dest = board.cpu
    <3>1. Entry(i) \in redir
      BY <1>2, HandledAreLines, EntriesFacts
    <3> QED BY <1>2, <3>1 DEF ControllersSet, TablesTellTheTruth, Entry
  <2>4. ApicVectors(i) = {VectorOf(i)}
    BY <2>2, <2>3 DEF ApicVectors
  <2> QED BY <1>2, <2>1, <2>4 DEF Vectors
<1> QED BY <1>1, <1>2 DEF ControllersSet

LEMMA NoneIsStray == ControllersSet /\ TablesTellTheTruth => NoStrayVector
<1> SUFFICES ASSUME ControllersSet, TablesTellTheTruth, mode # "none",
                    NEW i \in Devices \ Handled
             PROVE  Vectors(i) \subseteq Leftover(i)
    BY DEF NoStrayVector
<1>1. CASE mode = "pic"
  <2>1. CASE i \in masked
    BY <1>1, <2>1 DEF Vectors, PicVectors
  <2>2. CASE i \notin masked
    <3>1. i \notin Unmasked
      BY DEF Devices, Handled, Unmasked, Cascade
    <3>2. i \notin board.masked
      BY <1>1, <2>2, <3>1 DEF ControllersSet
    <3> QED BY <1>1, <3>2 DEF Vectors, PicVectors, Leftover
  <2> QED BY <2>1, <2>2
<1>2. CASE mode = "apic"
  <2>1. PicVectors(i) = {}
    BY <1>2, HandledAreLines DEF ControllersSet, PicVectors
  <2>2. \A f \in redir : f.pin = board.wire[i].pin => f \in board.left
    BY <1>2, EntriesFacts
  <2>3. ApicVectors(i) \subseteq Leftover(i)
    BY <1>2, <2>2 DEF ApicVectors, Leftover
  <2> QED BY <1>2, <2>1, <2>3 DEF Vectors
<1> QED BY <1>1, <1>2 DEF ControllersSet

(* On every board whose tables describe its wiring, the timer, the         *)
(* keyboard and the mouse reach their own handlers, and only these, with   *)
(* either controller (kernel.c:82-111, madt.c, pic_remap).                 *)
THEOREM LinesAlwaysRight ==
  IntSpec /\ []TablesTellTheTruth => []LinesReachTheirHandler
BY ControllersStay, LinesAreRight, PTL

(* On such a board a line without a handler raises, with either controller,*)
(* only what the firmware left at work for it: the mask bits that pic_remap*)
(* puts back, or the entry of a pin that kernel_main does not write: one    *)
(* that the firmware masked raises nothing.                                *)
THEOREM NoLineStrays ==
  IntSpec /\ []TablesTellTheTruth => []NoStrayVector
BY ControllersStay, NoneIsStray, PTL

-----------------------------------------------------------------------------
(* Turns.                                                                  *)

(* A task that waits has been passed over no more often than the list has  *)
(* tasks that the processor has already gone past.                         *)
Turns ==
  /\ bypass \in [Slots -> Nat]
  /\ ~failed => \A t \in Members : IF state[t] = "READY"
                                   THEN bypass[t] + Ahead(current, t) <= count
                                   ELSE bypass[t] = 0

LEMMA BypassType ==
  ASSUME bypass \in [Slots -> Nat], bypass' = Bypassed
  PROVE  /\ bypass' \in [Slots -> Nat]
         /\ \A t \in Slots : /\ bypass'[t] <= bypass[t] + 1
                             /\ ~failed /\ t \in Members /\ state'[t] # "READY" => bypass'[t] = 0
                             /\ ~Decided => bypass'[t] <= bypass[t]
                             /\ ~failed /\ t \notin Members => bypass'[t] = 0
BY DEF Bypassed

(* When nothing was decided, only a creation makes a task READY.           *)
LEMMA StayTurns ==
  ASSUME IInv, Turns, ~failed, ~Decided, bypass' = Bypassed,
         UNCHANGED <<count, current, failed>>,
         \A t \in Members : state'[t] = "READY" => state[t] = "READY"
  PROVE  Turns'
<1>1. Members \subseteq Slots /\ Members' = Members
  BY MaxTasksAssumption DEF IInv, TypeOK, Members, Slots
<1>2. bypass' \in [Slots -> Nat] /\ bypass \in [Slots -> Nat]
  BY BypassType DEF Turns
<1>3. ASSUME NEW t \in Members
      PROVE  IF state'[t] = "READY" THEN bypass'[t] + Ahead(current, t)' <= count'
                                    ELSE bypass'[t] = 0
  <2>1. CASE state'[t] # "READY"
    BY <1>1, <2>1, BypassType DEF Turns
  <2>2. CASE state'[t] = "READY"
    <3>1. bypass'[t] <= bypass[t] /\ bypass[t] \in Nat /\ bypass'[t] \in Nat
      BY <1>1, <1>2, BypassType
    <3>2. bypass[t] + Ahead(current, t) <= count
      BY <2>2 DEF Turns
    <3>3. Ahead(current, t)' = Ahead(current, t) /\ Ahead(current, t) \in Int /\ count \in Nat
      BY <1>1 DEF Ahead, IInv, TypeOK, Members, Slots
    <3> QED BY <2>2, <3>1, <3>2, <3>3
  <2> QED BY <2>1, <2>2
<1> QED BY <1>1, <1>2, <1>3 DEF Turns

LEMMA ScheduleTurns ==
  ASSUME IInv, RingShape, Turns, ~failed, phase = "on",
         NEW st \in [Slots -> TaskStates],
         \A t \in Slots : st[t] = "RUNNING" => t = current,
         st[current] \in {"RUNNING", "TERMINATED"}, st[Kernel] # "TERMINATED",
         \A t \in Slots : t # current => st[t] = state[t],
         Schedule(st), UNCHANGED <<nxt, count, failed>>, bypass' = Bypassed, IInv'
  PROVE  Turns'
<1>1. Members \subseteq Slots /\ Members' = Members /\ count \in Nat /\ current \in Members
      /\ current' \in Members
  <2>1. RingShape'
    BY ScheduleRing
  <2> QED BY <2>1, MaxTasksAssumption DEF IInv, TypeOK, Members, Slots, RingShape
<1>2. bypass' \in [Slots -> Nat] /\ bypass \in [Slots -> Nat]
  BY BypassType DEF Turns
<1>3. ASSUME NEW t \in Members
      PROVE  IF state'[t] = "READY" THEN bypass'[t] + Ahead(current, t)' <= count'
                                    ELSE bypass'[t] = 0
  <2>1. CASE state'[t] # "READY"
    BY <1>1, <2>1, BypassType DEF Turns
  <2>2. CASE state'[t] = "READY"
    <3>1. bypass'[t] <= bypass[t] + 1 /\ bypass[t] \in Nat /\ bypass'[t] \in Nat
      BY <1>1, <1>2, BypassType DEF Turns
    <3>2. /\ Ahead(current, t)' = Ahead(current', t)
          /\ Ahead(current', t) \in Int /\ Ahead(current, t) \in Int
      BY <1>1 DEF Ahead, Members
    <3>3. CASE t = current
      <4>1. bypass[t] = 0
        BY <1>1, <3>3 DEF Turns, IInv, ProcessorOwner
      <4>2. current' # t
        BY <1>1, <2>2 DEF IInv, ProcessorOwner
      <4>3. Ahead(current', t) + 1 <= count
        <5>1. PICK c \in Members : c = current'
          BY <1>1
        <5>2. c # t /\ Ahead(c, t) + 1 <= count
          <6>1. c \in 0 .. count - 1 /\ t \in 0 .. count - 1 /\ c # t /\ count \in Nat
            BY <1>1, <4>2, <5>1 DEF Members
          <6> QED BY <6>1 DEF Ahead
        <5> QED BY <5>1, <5>2
      <4> QED BY <1>1, <2>2, <3>1, <3>2, <4>1, <4>3
    <3>4. CASE t # current
      <4>1. state[t] = "READY" /\ Ahead(current', t) < Ahead(current, t)
        BY <2>2, <3>4, ScheduleRing
      <4>2. bypass[t] + Ahead(current, t) <= count
        BY <4>1 DEF Turns
      <4> QED BY <1>1, <2>2, <3>1, <3>2, <4>1, <4>2
    <3> QED BY <3>3, <3>4
  <2> QED BY <2>1, <2>2
<1> QED BY <1>1, <1>2, <1>3 DEF Turns

LEMMA CreateTurns ==
  ASSUME IInv, Turns, ~failed, ~failed', CreateUser, bypass' = Bypassed
  PROVE  Turns'
<1>1. /\ count' = count + 1 /\ state' = [state EXCEPT ![count] = "READY"]
      /\ current' = Kernel /\ current = Kernel /\ ticks' = ticks
      /\ count \in Nat \ {0} /\ count \in Slots /\ Members \subseteq Slots
      /\ state \in [Slots -> TaskStates]
  BY MaxTasksAssumption DEF CreateUser, IInv, BootState, TypeOK, Members, Slots, Kernel
<1>2. Members' = Members \cup {count} /\ count \notin Members
  BY <1>1 DEF Members
<1>3. bypass' \in [Slots -> Nat] /\ bypass \in [Slots -> Nat] /\ ~Decided
  BY <1>1, BypassType DEF Turns, Decided
<1>4. ASSUME NEW t \in Members
      PROVE  IF state'[t] = "READY" THEN bypass'[t] + Ahead(current, t)' <= count'
                                    ELSE bypass'[t] = 0
  <2>1. state'[t] = state[t]
    BY <1>1, <1>2
  <2>2. CASE state'[t] # "READY"
    BY <1>1, <2>2, BypassType DEF Turns
  <2>3. CASE state'[t] = "READY"
    <3>1. bypass'[t] <= bypass[t] /\ bypass[t] \in Nat /\ bypass'[t] \in Nat
      BY <1>1, <1>3, BypassType DEF Turns
    <3>2. bypass[t] + Ahead(current, t) <= count /\ t # Kernel
      BY <1>1, <2>1, <2>3 DEF Turns, IInv, ProcessorOwner
    <3>3. Ahead(current, t)' = t /\ Ahead(current, t) = t /\ t \in Nat
      BY <1>1, <3>2 DEF Ahead, Members, Kernel
    <3> QED BY <1>1, <2>3, <3>1, <3>2, <3>3
  <2> QED BY <2>2, <2>3
<1>5. ASSUME NEW n, n = count
      PROVE  state'[n] = "READY" /\ bypass'[n] = 0 /\ Ahead(current, n)' = n
  BY <1>1, <1>2, <1>5, BypassType DEF Turns, Ahead, Kernel
<1>6. \A t \in Members' : IF state'[t] = "READY" THEN bypass'[t] + Ahead(current, t)' <= count'
                                                  ELSE bypass'[t] = 0
  <2>1. ASSUME NEW t \in Members', t \notin Members
        PROVE  IF state'[t] = "READY" THEN bypass'[t] + Ahead(current, t)' <= count'
                                      ELSE bypass'[t] = 0
    <3>1. t = count
      BY <1>2, <2>1
    <3>2. state'[t] = "READY" /\ bypass'[t] = 0 /\ Ahead(current, t)' = t
      BY <1>5, <3>1
    <3> QED BY <1>1, <3>1, <3>2
  <2> QED BY <1>4, <2>1
<1> QED BY <1>3, <1>6 DEF Turns

LEMMA TurnsStep ==
  ASSUME IInv, RingShape, Turns, [MCNext]_<<allvars, bypass>>
  PROVE  Turns'
<1>1. CASE UNCHANGED <<allvars, bypass>>
  BY <1>1 DEF allvars, vars, Turns, Members, Ahead
<1>2. CASE MCNext
  <2>1. bypass' = Bypassed /\ [Next]_vars
    BY <1>2, StepsAreScheduler DEF MCNext
  <2>2. IInv' /\ bypass' \in [Slots -> Nat]
    BY <2>1, NextStep, BypassType DEF Turns
  <2>3. CASE failed'
    BY <2>2, <2>3 DEF Turns
  <2>4. ASSUME ~failed' PROVE Turns'
    <3>1. ~failed
      BY <2>1, <2>4 DEF Next, CreateUser, CreateHangs, EnableInterrupts, Tick, SysExit,
             UserFault, FatalStop, vars, IInv, TypeOK
    <3>2. CASE CreateUser
      BY <2>1, <2>4, <3>1, <3>2, CreateTurns
    <3>3. CASE CreateHangs \/ EnableInterrupts \/ FatalStop \/ UNCHANGED vars
      <4>1. UNCHANGED <<state, count, current, ticks, failed>>
        BY <3>3 DEF CreateHangs, EnableInterrupts, FatalStop, vars
      <4>2. ~Decided
        BY <4>1 DEF Decided
      <4> QED BY <2>1, <3>1, <4>1, <4>2, StayTurns
    <3>4. CASE SysExit
      <4>1. /\ UNCHANGED <<count, current, ticks, failed>> /\ state' = Exited
        BY <3>4 DEF SysExit
      <4>2. ~Decided
        BY <4>1 DEF Decided
      <4>3. \A t \in Members : state'[t] = "READY" => state[t] = "READY"
        <5>1. Members \subseteq Slots
          BY MaxTasksAssumption DEF IInv, TypeOK, Members, Slots
        <5> QED BY <4>1, <5>1 DEF Exited, IInv, TypeOK
      <4> QED BY <2>1, <3>1, <4>1, <4>2, <4>3, StayTurns
    <3>5. /\ state \in [Slots -> TaskStates] /\ state[Kernel] # "TERMINATED"
          /\ \A t \in Slots : state[t] = "RUNNING" => t = current
          /\ state[current] \in {"RUNNING", "TERMINATED"}
      BY DEF IInv, TypeOK, ProcessorOwner
    <3>6. CASE Tick
      <4>1. CASE ticks' = 0
        <5>1. Schedule(state) /\ phase = "on" /\ UNCHANGED <<nxt, count, failed>>
          BY <3>6, <4>1 DEF Tick
        <5> QED BY <2>1, <2>2, <3>1, <3>5, <5>1, ScheduleTurns
      <4>2. CASE ticks' # 0
        <5>1. UNCHANGED <<state, count, current, failed>>
          BY <3>6, <4>2 DEF Tick
        <5>2. ~Decided
          BY SMTT(60), <4>2, <5>1 DEF Decided
        <5> QED BY <2>1, <3>1, <5>1, <5>2, StayTurns
      <4> QED BY <4>1, <4>2
    <3>7. CASE UserFault
      <4>1. /\ Schedule(Exited) /\ phase = "on" /\ current # Kernel
            /\ UNCHANGED <<nxt, count, ticks, failed>>
        BY <3>7 DEF UserFault
      <4>2. \A t \in Slots : t # current => Exited[t] = state[t]
        BY DEF Exited, IInv, TypeOK
      <4> QED BY <2>1, <2>2, <3>1, <4>1, <4>2, ExitedFacts, ScheduleTurns
    <3> QED BY <2>1, <3>2, <3>3, <3>4, <3>6, <3>7 DEF Next
  <2> QED BY <2>3, <2>4
<1> QED BY <1>1, <1>2

(* For every number of tasks and every board, a task that waits is passed  *)
(* over at most once by each other task, in whatever order tasks exit,     *)
(* fault and are interrupted (task_schedule).                              *)
THEOREM NobodyIsPassedTwice == MCSpec => []BoundedBypass
<1>1. MCInit => IInv /\ RingShape /\ Turns
  <2> SUFFICES ASSUME MCInit PROVE IInv /\ RingShape /\ Turns
    OBVIOUS
  <2>1. Init /\ bypass = [t \in Slots |-> 0]
    BY DEF MCInit, IntInit
  <2>2. \A t \in Members : t = Kernel
    BY <2>1 DEF Init, Members, Kernel
  <2>3. Turns
    BY <2>1, <2>2, SlotsFacts DEF Turns, Init
  <2> QED BY <2>1, <2>3, InitIInv, InitRing
<1>2. [MCNext]_<<allvars, bypass>> => [Next]_vars
  BY StepsAreScheduler DEF MCNext, allvars
<1>3. IInv /\ RingShape /\ Turns => BoundedBypass
  <2> SUFFICES ASSUME IInv, RingShape, Turns, ~failed, NEW t \in Members
               PROVE  bypass[t] <= count - 1
    BY DEF BoundedBypass
  <2>1. current \in Members /\ count \in Nat \ {0} /\ Members \subseteq Slots
    BY MaxTasksAssumption DEF RingShape, IInv, TypeOK, Members, Slots
  <2>2. bypass[t] \in Nat
    BY <2>1 DEF Turns
  <2>3. CASE state[t] = "READY"
    <3>1. t # current /\ bypass[t] + Ahead(current, t) <= count
      BY <2>3 DEF Turns, IInv, ProcessorOwner
    <3> QED BY <2>1, <2>2, <3>1 DEF Ahead, Members
  <2>4. CASE state[t] # "READY"
    BY <2>1, <2>4 DEF Turns
  <2> QED BY <2>3, <2>4
<1>4. IInv /\ RingShape /\ Turns /\ [MCNext]_<<allvars, bypass>> => IInv' /\ RingShape' /\ Turns'
  BY <1>2, NextStep, RingStep, TurnsStep
<1> QED BY <1>1, <1>3, <1>4, PTL DEF MCSpec
=============================================================================
