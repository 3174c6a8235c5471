---------------------------- MODULE MCScheduler ----------------------------
(***************************************************************************)
(* Scheduler and Interrupts for TLC, with a history variable that counts,  *)
(* for each READY task, how many scheduling decisions went to another task *)
(* since it became READY.                                                  *)
(***************************************************************************)
EXTENDS Interrupts

VARIABLE bypass

(* The boards.                                                             *)
Wired(pin, low, level) == [pin |-> pin, low |-> low, level |-> level]
IsaWire == [i \in Lines |-> Wired(i, FALSE, FALSE)]

Cpu(id, on)        == [type |-> "lapic", id |-> id, enabled |-> on]
IoApicAt(base)     == [type |-> "ioapic", base |-> base]
Iso(i, gsi, p, t)  == [type |-> "iso", irq |-> i, gsi |-> gsi, polarity |-> p, trigger |-> t]
Nmi                == [type |-> "nmi"]
Empty              == [type |-> "empty"]
MadtOf(lapic, es)  == [sig |-> "APIC", sound |-> TRUE, lapic |-> lapic, entries |-> es]
OtherTable(sig)    == [sig |-> sig, sound |-> TRUE]

LeftEntry(pin, vector) ==
  [pin |-> pin, vector |-> vector, dest |-> 0, low |-> FALSE, level |-> FALSE]

NoTables == [rsdp |-> FALSE, xsdt |-> <<>>, rsdt |-> <<>>, wire |-> IsaWire,
             cpu |-> 0, masked |-> Lines, left |-> {}, local |-> {}]

(* No tables and line 3 left unmasked; no I/O APIC in the table; no local  *)
(* APIC.  They use the 8259.                                               *)
PicBoards ==
  {[NoTables EXCEPT !.masked = Lines \ {0, 3}],
   [NoTables EXCEPT !.rsdp = TRUE,
                    !.rsdt = <<MadtOf(1, <<Cpu(0, TRUE), Empty, IoApicAt(0)>>)>>],
   [NoTables EXCEPT !.rsdp = TRUE,
                    !.rsdt = <<MadtOf(0, <<Cpu(0, TRUE), IoApicAt(0)>>)>>]}

(* The timer on pin 2 and a second I/O APIC; a table with a bad checksum   *)
(* before the good one, a processor that is off, and an override that      *)
(* changes the signal.  The firmware left the 8259 at work, and entries of *)
(* the I/O APIC: on pins that the kernel writes and on pin 3, once with a  *)
(* vector of no handler, once with the keyboard's.  A source of the local  *)
(* APIC raises a vector without a handler, or the timer's.                 *)
ApicBoards ==
  {[NoTables EXCEPT
      !.rsdp = TRUE, !.cpu = 0, !.masked = Lines \ {0, 1, Cascade},
      !.rsdt = <<OtherTable("FACP"),
                 MadtOf(1, <<Cpu(0, TRUE), IoApicAt(0), IoApicAt(24), Nmi,
                             Iso(0, 2, 0, 0), Iso(9, 9, 1, 3)>>)>>,
      !.wire = [IsaWire EXCEPT ![0] = Wired(2, FALSE, FALSE)],
      !.left = {LeftEntry(1, 105), LeftEntry(2, 112), LeftEntry(3, 107)},
      !.local = {239}],
   [NoTables EXCEPT
      !.rsdp = TRUE, !.cpu = 4, !.masked = {},
      !.rsdt = <<MadtOf(1, <<Cpu(0, TRUE), IoApicAt(0)>>)>>,
      !.xsdt = <<[MadtOf(1, <<Cpu(9, TRUE), IoApicAt(0)>>) EXCEPT !.sound = FALSE],
                 MadtOf(1, <<Nmi, Cpu(7, FALSE), Cpu(4, TRUE), Cpu(5, TRUE),
                             IoApicAt(0), Iso(12, 20, 3, 3), Empty>>)>>,
      !.wire = [IsaWire EXCEPT ![12] = Wired(20, TRUE, TRUE)],
      !.left = {[LeftEntry(3, 33) EXCEPT !.dest = 4], [LeftEntry(12, 44) EXCEPT !.dest = 4]},
      !.local = {32}]}

MCBoards == PicBoards \cup ApicBoards

MCInit == IntInit /\ bypass = [t \in Slots |-> 0]

(* task_schedule has run in this step (Quantum > 1 in the instances).      *)
Decided == current' # current \/ (ticks' = 0 /\ ticks # 0)

Bypassed ==
  [t \in Slots |->
     IF failed \/ t \notin Members \/ state'[t] # "READY" THEN 0
     ELSE IF Decided /\ bypass[t] < MaxTasks THEN bypass[t] + 1   \* counts no further
     ELSE bypass[t]]

MCNext == IntNext /\ bypass' = Bypassed

MCSpec == MCInit /\ [][MCNext]_<<allvars, bypass>> /\ IntFairness

(* Round robin: a READY task is passed over at most once by each other     *)
(* task, whatever exits and faults happen in between.                      *)
BoundedBypass == ~failed => \A t \in Members : bypass[t] <= count - 1
=============================================================================
