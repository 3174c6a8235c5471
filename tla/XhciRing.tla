------------------------------ MODULE XhciRing ------------------------------
(***************************************************************************)
(* The two rings between the xHCI driver (xhci.c) and the controller: the  *)
(* command ring, which the driver fills and the controller empties, and the*)
(* event ring the other way round.  Neither side sees the other's index: a *)
(* cycle bit in every entry, turned over on each lap, says which entries   *)
(* are new.  The driver waits for the event of its command, throws away    *)
(* every other one, and gives up after XHCI_TIMEOUT_TICKS.                 *)
(***************************************************************************)
EXTENDS Naturals, Sequences

CONSTANTS CmdTrbs,      \* COMMAND_RING_TRB_COUNT, the last one a link
          EvtTrbs,      \* EVENT_RING_TRB_COUNT
          MaxCommands,  \* bound on the commands pushed
          MaxOthers     \* bound on the events that answer no command

ASSUME RingAssumption ==
  /\ CmdTrbs \in Nat /\ CmdTrbs > 1 /\ EvtTrbs \in Nat /\ EvtTrbs > 1
  /\ MaxCommands \in Nat /\ MaxOthers \in Nat

Link == CmdTrbs - 1
CmdSlots == 0 .. CmdTrbs - 1
EvtSlots == 0 .. EvtTrbs - 1

VARIABLES
  cmdRing,              \* g_cmd_ring: a cycle bit and a command; no command in the link
  cmdEnqueue, cmdCycle, \* g_cmd_enqueue_index, g_cmd_cycle
  evtRing,              \* g_evt_ring: a cycle bit and an event
  evtDequeue, evtCycle, \* g_evt_dequeue_index, g_evt_cycle
  erdp,                 \* the dequeue pointer the driver wrote to the controller
  ringPc, waitsFor,     \* poll_command_completion and its cmd_trb_phys
  hcDequeue, hcCycle,   \* the controller on the command ring
  hcEnqueue, hcFlag     \* the controller on the event ring

VARIABLES               \* history
  pushed,    \* commands pushed: they are numbered from 1
  executed,  \* the commands the controller executed
  posted,    \* the events it posted
  answers,   \* the events of commands that the driver consumed
  answered,  \* the command whose event ended the last wait, and the one waited for
  overfull   \* a command was pushed with at most one entry free, an entry being
             \* free again when the event of its command has been consumed

command    == <<cmdRing, cmdEnqueue, cmdCycle, waitsFor, pushed, overfull>>
event      == <<evtDequeue, evtCycle, erdp, answers, answered>>
controller == <<evtRing, hcDequeue, hcCycle, hcEnqueue, hcFlag, executed, posted>>
ringVars == <<command, event, controller, ringPc>>

NoEvent == [trb |-> Link, cmd |-> 0]        \* an event that answers no command

(* xhci_init: both rings zeroed, the link's cycle bit set, all counts 1.   *)
RingInit ==
  /\ cmdRing = [i \in CmdSlots |-> [cycle |-> IF i = Link THEN 1 ELSE 0, cmd |-> 0]]
  /\ cmdEnqueue = 0 /\ cmdCycle = 1
  /\ evtRing = [i \in EvtSlots |-> [cycle |-> 0, event |-> NoEvent]]
  /\ evtDequeue = 0 /\ evtCycle = 1 /\ erdp = 0
  /\ ringPc = "idle" /\ waitsFor = 0
  /\ hcDequeue = 0 /\ hcCycle = 1 /\ hcEnqueue = 0 /\ hcFlag = 1
  /\ pushed = 0 /\ executed = << >> /\ posted = << >> /\ answers = 0
  /\ answered = <<0, 0>> /\ overfull = FALSE

-----------------------------------------------------------------------------
(* cmd_ring_push: the entry, and after the last one the link.              *)
Push ==
  /\ ringPc = "idle" /\ pushed < MaxCommands
  /\ pushed' = pushed + 1
  /\ cmdRing' = [cmdRing EXCEPT ![cmdEnqueue] = [cycle |-> cmdCycle, cmd |-> pushed']]
  /\ waitsFor' = cmdEnqueue
  /\ cmdEnqueue' = cmdEnqueue + 1
  /\ overfull' = (overfull \/ pushed - answers >= Link - 1)
  /\ ringPc' = IF cmdEnqueue' = Link THEN "link" ELSE "wait"
  /\ UNCHANGED <<cmdCycle, event, controller>>

LinkCycle_Kept == cmdRing[Link].cycle        \* mutant: the link is not turned over
LinkCycle == cmdCycle

PushLink ==
  /\ ringPc = "link" /\ ringPc' = "wait"
  /\ cmdRing' = [cmdRing EXCEPT ![Link].cycle = LinkCycle]
  /\ cmdEnqueue' = 0
  /\ cmdCycle' = 1 - cmdCycle
  /\ UNCHANGED <<waitsFor, pushed, overfull, event, controller>>

-----------------------------------------------------------------------------
(* The controller.                                                         *)

(* The index after i in the event ring.                                    *)
After(i) == IF i + 1 = EvtTrbs THEN 0 ELSE i + 1

(* It goes round as the driver does, and leaves one entry empty, between   *)
(* its index and the one in ERDP.                                          *)
EventRoom == After(hcEnqueue) # erdp

Post(e) ==
  /\ EventRoom
  /\ evtRing' = [evtRing EXCEPT ![hcEnqueue] = [cycle |-> hcFlag, event |-> e]]
  /\ hcEnqueue' = After(hcEnqueue)
  /\ hcFlag' = IF hcEnqueue' = 0 THEN 1 - hcFlag ELSE hcFlag
  /\ posted' = Append(posted, e)

NewCommand == cmdRing[hcDequeue].cycle = hcCycle

FollowLink ==
  /\ hcDequeue = Link /\ NewCommand
  /\ hcDequeue' = 0
  /\ hcCycle' = 1 - hcCycle            \* xhci_init sets the link's toggle bit
  /\ UNCHANGED <<command, event, ringPc, evtRing, hcEnqueue, hcFlag, executed, posted>>

Execute ==
  /\ hcDequeue # Link /\ NewCommand
  /\ LET c == cmdRing[hcDequeue].cmd IN
     /\ executed' = Append(executed, c)
     /\ Post([trb |-> hcDequeue, cmd |-> c])
  /\ hcDequeue' = hcDequeue + 1
  /\ UNCHANGED <<command, event, ringPc, hcCycle>>

(* A port changed, or a transfer ended.                                    *)
OtherEvent ==
  /\ Len(posted) - Len(executed) < MaxOthers
  /\ Post(NoEvent)
  /\ UNCHANGED <<command, event, ringPc, hcDequeue, hcCycle, executed>>

-----------------------------------------------------------------------------
(* poll_command_completion and consume_next_event.                         *)

NextCycle(i) == IF i = 0 THEN 1 - evtCycle ELSE evtCycle

Awaited_Any(e) == e # NoEvent                \* mutant: any completion will do
Awaited(e) == e # NoEvent /\ e.trb = waitsFor

Consume ==
  /\ ringPc = "wait" /\ evtRing[evtDequeue].cycle = evtCycle
  /\ LET e == evtRing[evtDequeue].event IN
     /\ answers' = answers + (IF e = NoEvent THEN 0 ELSE 1)
     /\ \/ /\ Awaited(e) /\ ringPc' = "idle" /\ answered' = <<e.cmd, pushed>>
        \/ /\ ~Awaited(e) /\ UNCHANGED <<ringPc, answered>>
  /\ evtDequeue' = After(evtDequeue)
  /\ evtCycle' = NextCycle(evtDequeue')
  /\ erdp' = evtDequeue'
  /\ UNCHANGED <<command, controller>>

(* It halts when it finds no event, and looks at the clock when an         *)
(* interrupt wakes it: a flood of events never outlasts the deadline.      *)
Halt ==
  /\ ringPc = "wait" /\ evtRing[evtDequeue].cycle # evtCycle
  /\ ringPc' = "halt"
  /\ UNCHANGED <<command, event, controller>>

Wake ==
  /\ ringPc = "halt" /\ ringPc' \in {"wait", "idle"}
  /\ UNCHANGED <<command, event, controller>>

RingDriver == PushLink \/ Consume \/ Halt \/ Wake

RingNext == Push \/ RingDriver \/ FollowLink \/ Execute \/ OtherEvent

RingSpec == RingInit /\ [][RingNext]_ringVars

-----------------------------------------------------------------------------
(* The controller executes the commands in the order of the pushes, each   *)
(* once, none invented, and when it finds no new one none is left.  The    *)
(* cycle bits, the link's among them, say exactly which entries are new, as*)
(* long as the driver, which does not look, leaves one entry free: or the  *)
(* link's bit may be turned over before the controller has passed it.      *)
CommandsOnceInOrder ==
  ~overfull => /\ Len(executed) <= pushed
              /\ \A i \in DOMAIN executed : executed[i] = i
              /\ (~NewCommand /\ ringPc # "link") => Len(executed) = pushed

(* A wait that ends with an answer got the answer to its own command, even *)
(* when earlier commands timed out and their events come late.             *)
AnswersAreOwn == ~overfull => answered[1] = answered[2] \/ answered = <<0, 0>>
=============================================================================
