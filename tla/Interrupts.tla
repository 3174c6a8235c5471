----------------------------- MODULE Interrupts -----------------------------
(***************************************************************************)
(* How an interrupt line reaches its handler, composed with the scheduler: *)
(* the tables of the firmware (acpi.c, madt.c), the choice of a controller *)
(* in kernel_main, the two 8259 (pic.c) or the local APIC and the I/O APIC *)
(* (lapic.c, ioapic.c), the gates (idt.c), and the timer interrupt, which  *)
(* is Scheduler's Tick.  Handlers run with IF clear to their iretq: taking *)
(* a vector, its handler and the end-of-interrupt are one action.          *)
(***************************************************************************)
EXTENDS Scheduler, Integers, Sequences

CONSTANTS Boards,   \* the machines: tables, wiring and what the firmware left at work:
                    \* the masks of the 8259, entries of the I/O APIC (left) and
                    \* vectors of other sources of the local APIC (local)
          Lines     \* the legacy interrupt lines of the instance

ASSUME LinesAssumption == {0, 1, 2, 12} \subseteq Lines /\ Lines \subseteq 0 .. 15

(* What the firmware left raises no exception and no system call.          *)
ASSUME LeftAssumption ==
  \A b \in Boards : b.local \cup {e.vector : e \in b.left} \subseteq 32 .. 255 \ {128}

VARIABLES board,      \* the machine the kernel runs on
          mode,       \* "none" until kernel_main set up a controller, "apic", "pic"
          masked,     \* the lines whose bit is set in the masks of the two 8259
          redir,      \* the redirection entries that are not masked
          pending,    \* lines that asked for an interrupt not yet taken
          inService,  \* lines in service at the controller
          passed      \* lines served since no request was waiting

ivars == <<board, mode, masked, redir, pending, inService, passed>>
allvars == <<vars, ivars>>

Timer     == 0
Cascade   == 2
Handled   == {0, 1, 12}             \* timer, keyboard, mouse
Devices   == Lines \ {Cascade}
VectorOf(i) == 32 + i
NullTable == [sig |-> "NULL", sound |-> FALSE]

-----------------------------------------------------------------------------
(* The firmware's tables.                                                  *)

(* acpi_init leaves no root table when there is no root pointer, and takes *)
(* the XSDT over the RSDT when the pointer has one.                        *)
Root == CASE ~board.rsdp                        -> <<>>
          [] board.rsdp /\ board.xsdt # <<>>  -> board.xsdt
          [] OTHER                             -> board.rsdt

Matches_AnySum(k, sig) == Root[k].sig = sig                     \* mutant
Matches(k, sig) == Root[k].sig = sig /\ Root[k].sound

(* acpi_find_table: the first table of that name with a good checksum.     *)
FindTable(sig) ==
  LET found == {k \in DOMAIN Root : Matches(k, sig)}
  IN  IF found = {} THEN NullTable
      ELSE Root[CHOOSE k \in found : \A l \in found : k <= l]

Madt == FindTable("APIC")

(* The positions that madt_init visits: an entry of length 0 ends the walk.*)
Visited ==
  {k \in DOMAIN Madt.entries : \A l \in 1 .. k : Madt.entries[l].type # "empty"}

OfType(type) == {k \in Visited : Madt.entries[k].type = type}

FirstOf(S) == Madt.entries[CHOOSE k \in S : \A l \in S : k <= l]
LastOf(S)  == Madt.entries[CHOOSE k \in S : \A l \in S : l <= k]

BootCpu_AnyCpu ==                                                \* mutant
  IF OfType("lapic") = {} THEN 0 ELSE FirstOf(OfType("lapic")).id
BootCpu ==
  LET enabled == {k \in OfType("lapic") : Madt.entries[k].enabled}
  IN  IF enabled = {} THEN 0 ELSE FirstOf(enabled).id

IoApic == FirstOf(OfType("ioapic"))

HaveApic == /\ Madt # NullTable
            /\ OfType("ioapic") # {}
            /\ Madt.lapic # 0

(* The polarity and trigger fields of an override: 3 is active low, level. *)
Route(gsi, polarity, trigger) ==
  [gsi |-> gsi, low |-> polarity = 3, level |-> trigger = 3]

IsaMap_NoOverride(i) == Route(i, 0, 0)                           \* mutant
IsaMap(i) ==
  LET isos == {k \in OfType("iso") : Madt.entries[k].irq = i}
  IN  IF isos = {} THEN Route(i, 0, 0)
      ELSE LET iso == LastOf(isos) IN Route(iso.gsi, iso.polarity, iso.trigger)

-----------------------------------------------------------------------------
(* kernel_main's choice of a controller.                                   *)

(* The pin is a uint8_t.                                                   *)
Pin(gsi) == (gsi - IoApic.base) % 256

Entry(i) == [pin |-> Pin(IsaMap(i).gsi), vector |-> VectorOf(i), dest |-> BootCpu,
             low |-> IsaMap(i).low, level |-> IsaMap(i).level]

PicDisable_None == masked                                        \* mutant
PicDisable == Lines

(* The three calls of ioapic_set_entry, for lines 0, 1 and 12: each writes *)
(* over its pin's entry, and no other entry of S is masked.                *)
SetEntries(S) ==
  {e \in S : \A i \in Handled : e.pin # Entry(i).pin}
    \cup {Entry(i) : i \in {j \in Handled : \A k \in Handled : k > j => Entry(k).pin # Entry(j).pin}}

SetUpApic ==
  /\ mode = "none"
  /\ HaveApic
  /\ mode'   = "apic"
  /\ masked' = PicDisable
  /\ redir'  = SetEntries(redir)
  /\ UNCHANGED <<vars, board, pending, inService, passed>>

Unmasked_NoCascade == {0, 1, 12}                                 \* mutant
Unmasked == {0, 1, Cascade, 12}

(* pic_remap puts back the masks it found.                                 *)
SetUpPic ==
  /\ mode = "none"
  /\ ~HaveApic
  /\ mode'   = "pic"
  /\ masked' = masked \ Unmasked
  /\ UNCHANGED <<vars, board, redir, pending, inService, passed>>

SetUp == SetUpApic \/ SetUpPic

-----------------------------------------------------------------------------
(* The controllers (hardware), as the code programs them.                  *)

(* An entry sends the line's interrupt when it names the pin (of the first *)
(* I/O APIC) and the signal the line really has, and the processor in use. *)
(* Only lapic_init switches the local APIC on, which is to take it.        *)
ApicVectors(i) ==
  {e.vector : e \in {f \in redir : /\ f.pin = board.wire[i].pin
                                   /\ f.low = board.wire[i].low
                                   /\ f.level = board.wire[i].level
                                   /\ f.dest = board.cpu}}

(* Without pic_remap the 8259 still has the vectors of the loader.         *)
PicVectors(i) ==
  IF i \in masked \/ (i >= 8 /\ Cascade \in masked) THEN {}
  ELSE {IF mode = "pic" THEN VectorOf(i) ELSE 8 + i}

Vectors(i) == PicVectors(i) \cup IF mode = "apic" THEN ApicVectors(i) ELSE {}

Waiting == {i \in pending : Vectors(i) # {}}

Parent(i) == IF i >= 8 THEN Cascade ELSE i

(* The local APIC holds back the whole class of the vector in service (32  *)
(* to 47) and those below, an 8259 the lines of the same or lower priority.*)
Held(v) == inService # {} /\ v < 48

Blocked(i) ==
  IF mode = "apic" THEN \A v \in Vectors(i) : Held(v)
  ELSE \E j \in inService : IF j >= 8 THEN j <= i ELSE j <= Parent(i)

(* The 8259 takes the lowest line first, those of the slave in the place   *)
(* of line 2; the local APIC takes the highest vector.                     *)
Before(i, j) ==
  IF mode = "apic" THEN \E v \in Vectors(i) : \A w \in Vectors(j) : v >= w
  ELSE Parent(i) < Parent(j) \/ (Parent(i) = Parent(j) /\ i < j)

Accepted(i) ==
  /\ phase = "on"
  /\ i \in pending
  /\ Vectors(i) # {}
  /\ ~Blocked(i)
  /\ \A j \in Waiting \ {i} : Blocked(j) \/ Before(i, j)

InServiceWith(i) ==
  inService \cup {i} \cup IF mode = "pic" THEN {Parent(i)} ELSE {}

Dropped(S) == IF S = {} THEN {}
              ELSE {CHOOSE j \in S : \A l \in S : j <= l}

(* irqctl_eoi: each 8259 drops its line of the highest priority.           *)
Eoi_MasterOnly(S, irq) == S \ Dropped(S \cap 0 .. 7)             \* mutant
Eoi(S, irq) ==
  IF mode = "apic" THEN S \ {j \in S : \A l \in S : l <= j}
  ELSE S \ (Dropped(S \cap 0 .. 7)
              \cup IF irq >= 8 THEN Dropped(S \cap 8 .. 15) ELSE {})

(* What taking line i leaves at the controllers.                           *)
Take(i) ==
  /\ pending'   = pending \ {i}
  /\ inService' = Eoi(InServiceWith(i), i)
  /\ passed'    = IF Waiting = {i} THEN {} ELSE passed \cup {i}
  /\ UNCHANGED <<board, mode, masked, redir>>

-----------------------------------------------------------------------------
(* Interrupts.                                                             *)

(* A line asks again only once the lines that were waiting have been       *)
(* served: the handlers take far less than the millisecond between ticks,  *)
(* or between two bytes of a PS/2 device.                                  *)
Raise(i) ==
  /\ phase \in {"boot", "on"}
  /\ mode # "none"
  /\ i \notin pending \cup passed
  /\ pending' = pending \cup {i}
  /\ UNCHANGED <<vars, board, mode, masked, redir, inService, passed>>

TimerInterrupt(i) ==
  /\ Accepted(i)
  /\ VectorOf(Timer) \in Vectors(i)
  /\ Tick
  /\ Take(i)

(* keyboard_handler and mouse_handler, of which only the end matters here. *)
DeviceInterrupt(i) ==
  /\ Accepted(i)
  /\ \E j \in Handled \ {Timer} : VectorOf(j) \in Vectors(i)
  /\ Take(i)
  /\ UNCHANGED vars

Unhandled(v) == \A j \in Handled : v # VectorOf(j)

(* default_isr halts with interrupts disabled.                             *)
StrayInterrupt(i) ==
  /\ Accepted(i)
  /\ \E v \in Vectors(i) : Unhandled(v)
  /\ FatalStop
  /\ UNCHANGED ivars

(* A source that kernel_main never programs: the local APIC's own timer,   *)
(* or a pin of no legacy line.  The handler of the vector runs, whoever    *)
(* raised it; that of a device finds nothing to do.                        *)
LeftoverInterrupt(v) ==
  /\ phase = "on"
  /\ mode = "apic"
  /\ ~Held(v)
  /\ \/ v = VectorOf(Timer) /\ Tick
     \/ Unhandled(v) /\ FatalStop
  /\ UNCHANGED ivars

(* kernel_main programs the controllers before it creates the task and     *)
(* executes sti.                                                           *)
BootStep == /\ mode # "none"
            /\ CreateUser \/ CreateHangs
            /\ UNCHANGED ivars

Sti == mode # "none" /\ EnableInterrupts /\ UNCHANGED ivars

(* What tasks do: exit, fault, fault in the kernel.                        *)
TaskStep == (SysExit \/ UserFault \/ FatalStop) /\ UNCHANGED ivars

IntInit ==
  /\ Init
  /\ board \in Boards
  /\ mode = "none"
  /\ masked = board.masked
  /\ redir = board.left
  /\ pending = {}
  /\ inService = {}
  /\ passed = {}

Interrupt ==
  \E i \in Devices : TimerInterrupt(i) \/ DeviceInterrupt(i) \/ StrayInterrupt(i)

IntNext ==
  \/ SetUp \/ BootStep \/ Sti \/ TaskStep
  \/ \E i \in Devices : Raise(i)
  \/ Interrupt
  \/ \E v \in board.local : LeftoverInterrupt(v)

(* kernel_main reaches sti, the PIT interrupts at 1000 Hz, and the         *)
(* processor takes an interrupt that the controller presents.  Which one   *)
(* is not up to it, and the keyboard and the mouse owe nothing.            *)
IntFairness == WF_allvars(SetUp \/ Sti) /\ WF_allvars(Raise(Timer)) /\ WF_allvars(Interrupt)

IntSpec == IntInit /\ [][IntNext]_allvars /\ IntFairness

-----------------------------------------------------------------------------
(* Each line with a handler raises exactly its own vector, on every board  *)
(* and in both modes: the overrides of the firmware are followed, the      *)
(* cascade is open, and no line also gets through the controller that the  *)
(* kernel does not use.                                                    *)
LinesReachTheirHandler ==
  mode # "none" => \A i \in Handled : Vectors(i) = {VectorOf(i)}

(* What the firmware left for line i: pic_remap puts its masks back, and   *)
(* the entry of a pin that ioapic_set_entry does not write stays.          *)
Leftover(i) ==
  IF mode = "pic" THEN IF i \in board.masked THEN {} ELSE {VectorOf(i)}
  ELSE {e.vector : e \in {f \in board.left : f.pin = board.wire[i].pin}}

(* default_isr stops the machine at a vector without a handler: a line     *)
(* that has none raises what the firmware left at work for it, with either *)
(* controller, and nothing that the kernel's own set-up lets through.      *)
NoStrayVector ==
  mode # "none" => \A i \in Devices \ Handled : Vectors(i) \subseteq Leftover(i)

(* Every interrupt of the timer, the keyboard and the mouse is taken,      *)
(* unless the machine stops: no handler leaves its line, or the cascade,   *)
(* in service at the controller.                                           *)
EveryIrqServed ==
  \A i \in Handled : (phase = "on" /\ i \in pending)
                        ~> (i \notin pending \/ phase # "on")
=============================================================================
