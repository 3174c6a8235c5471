------------------------------ MODULE XhciPorts ------------------------------
(***************************************************************************)
(* The root ports of the xHCI driver (xhci.c): xhci_poll_ports, called by  *)
(* the main loop, debounces the connection bit of every port and enumerates*)
(* what it finds, one blocking command after the other, while devices come *)
(* and go.  XhciRing shows what a command is.                              *)
(***************************************************************************)
EXTENDS Naturals

CONSTANTS NumRootPorts, \* g_max_ports
          NumSlots,    \* g_max_slots
          StableCount, \* PORT_DEBOUNCE_STABLE_COUNT
          CountCap,    \* where g_port_stable_count stops: 255 in the code
          MaxPlugs     \* bound on the connections; each one is a new device

ASSUME PortsAssumption ==
  /\ {NumRootPorts, NumSlots, StableCount} \subseteq Nat \ {0}
  /\ CountCap \in Nat /\ CountCap > StableCount /\ MaxPlugs \in Nat

RootPorts == 1 .. NumRootPorts
Slots == 1 .. NumSlots
Devices == 1 .. MaxPlugs
NoDevice == 0
NoSlot == 0

VARIABLES
  plugged,   \* the device in each port
  plugs,     \* the connections made
  lastCcs,   \* g_port_last_ccs
  stable,    \* g_port_stable_count
  portSlot,  \* g_port_slot
  hcSlot,    \* the controller: each slot is free, enabled or addressed through a port
  valid,     \* g_devices[s].descriptor_valid
  pollPc, at, \* the loop of xhci_poll_ports: what it does, for which port
  slot       \* slot_id in enumerate_new_device

world == <<plugged, plugs>>
poll  == <<lastCcs, stable>>
portsVars == <<world, poll, portSlot, hcSlot, valid, pollPc, at, slot>>

Free == <<"free", 0>>
Enabled == <<"enabled", 0>>
Addressed(p) == <<"addressed", p>>

PortsInit ==
  /\ plugged \in [RootPorts -> {NoDevice}] /\ plugs = 0
  /\ lastCcs = [p \in RootPorts |-> FALSE] /\ stable = [p \in RootPorts |-> 0]
  /\ portSlot = [p \in RootPorts |-> NoSlot]
  /\ hcSlot = [s \in Slots |-> Free] /\ valid = [s \in Slots |-> FALSE]
  /\ pollPc = "poll" /\ at = 1 /\ slot = NoSlot

-----------------------------------------------------------------------------
Plug(p) ==
  /\ plugged[p] = NoDevice /\ plugs < MaxPlugs
  /\ plugs' = plugs + 1
  /\ plugged' = [plugged EXCEPT ![p] = plugs']
  /\ UNCHANGED <<poll, portSlot, hcSlot, valid, pollPc, at, slot>>

Unplug(p) ==
  /\ plugged[p] # NoDevice
  /\ plugged' = [plugged EXCEPT ![p] = NoDevice]
  /\ UNCHANGED <<plugs, poll, portSlot, hcSlot, valid, pollPc, at, slot>>

-----------------------------------------------------------------------------
(* xhci_poll_ports, one port.                                              *)

NextPort == at' = IF at = NumRootPorts THEN 1 ELSE at + 1

Counted(n) == IF n < CountCap THEN n + 1 ELSE n

Seen(ccs) == IF ccs = lastCcs[at] THEN Counted(stable[at]) ELSE 1

IsStable_Later(n) == n > CountCap           \* mutant: the count never gets there
IsStable(n) == n = StableCount

SlotWhenGone == NoSlot

PollPort ==
  /\ pollPc = "poll"
  /\ LET ccs == plugged[at] # NoDevice
         n   == Seen(ccs)
     IN  /\ lastCcs' = [lastCcs EXCEPT ![at] = ccs]
         /\ stable' = [stable EXCEPT ![at] = n]
         /\ \/ /\ IsStable(n) /\ ccs /\ portSlot[at] = NoSlot
               /\ pollPc' = "reset" /\ UNCHANGED <<at, portSlot>>
            \/ /\ IsStable(n) /\ ~ccs
               /\ portSlot' = [portSlot EXCEPT ![at] = SlotWhenGone]
               /\ NextPort /\ UNCHANGED pollPc
            \/ /\ ~IsStable(n) \/ (ccs /\ portSlot[at] # NoSlot)
               /\ NextPort /\ UNCHANGED <<pollPc, portSlot>>
  /\ UNCHANGED <<world, hcSlot, valid, slot>>

-----------------------------------------------------------------------------
(* enumerate_new_device, for port at: each step may fail or time out.      *)

Abandon == pollPc' = "poll" /\ NextPort

(* reset_port_and_get_speed.                                               *)
ResetPort ==
  /\ pollPc = "reset"
  /\ \/ plugged[at] # NoDevice /\ pollPc' = "enable" /\ UNCHANGED at
     \/ Abandon
  /\ UNCHANGED <<world, poll, portSlot, hcSlot, valid, slot>>

(* Enable Slot: when the answer is late the slot is taken all the same.    *)
AfterTimeout_GoesOn == pollPc' = "pages" /\ UNCHANGED at    \* mutant: slot_id is stale
AfterTimeout == Abandon

EnableSlot ==
  /\ pollPc = "enable"
  /\ \/ \E s \in Slots :
          /\ hcSlot[s] = Free
          /\ hcSlot' = [hcSlot EXCEPT ![s] = Enabled]
          /\ \/ slot' = s /\ pollPc' = "pages" /\ UNCHANGED at
             \/ AfterTimeout /\ UNCHANGED slot
     \/ Abandon /\ UNCHANGED <<hcSlot, slot>>
  /\ UNCHANGED <<world, poll, portSlot, valid>>

(* The device context, the EP0 ring and the input context.                 *)
AllocatePages ==
  /\ pollPc = "pages"
  /\ \/ pollPc' = "address" /\ UNCHANGED at
     \/ Abandon
  /\ UNCHANGED <<world, poll, portSlot, hcSlot, valid, slot>>

(* Address Device; the port gets the slot when the command succeeded.      *)
SlotOnError == portSlot[at]

AddressDevice ==
  /\ pollPc = "address"
  /\ \/ /\ plugged[at] # NoDevice
        /\ hcSlot' = [hcSlot EXCEPT ![slot] = Addressed(at)]
        /\ \/ /\ pollPc' = "descriptor" /\ UNCHANGED at
              /\ portSlot' = [portSlot EXCEPT ![at] = slot]
              /\ valid' = [valid EXCEPT ![slot] = FALSE]
           \/ Abandon /\ UNCHANGED <<portSlot, valid>>
     \/ /\ Abandon /\ UNCHANGED <<hcSlot, valid>>
        /\ portSlot' = [portSlot EXCEPT ![at] = SlotOnError]
  /\ UNCHANGED <<world, poll, slot>>

(* ep0_get_device_descriptor.                                              *)
GetDescriptor ==
  /\ pollPc = "descriptor" /\ Abandon
  /\ \/ plugged[at] # NoDevice /\ valid' = [valid EXCEPT ![slot] = TRUE]
     \/ UNCHANGED valid
  /\ UNCHANGED <<world, poll, portSlot, hcSlot, slot>>

PollDriver == PollPort \/ ResetPort \/ EnableSlot \/ AllocatePages \/ AddressDevice \/ GetDescriptor
PortsNext == PollDriver \/ \E p \in RootPorts : Plug(p) \/ Unplug(p)

(* The main loop polls for ever, and every wait in it has a deadline.      *)
PortsSpec == PortsInit /\ [][PortsNext]_portsVars /\ WF_portsVars(PollDriver)

-----------------------------------------------------------------------------
(* The types, checked as a part of SlotOfItsPort.                          *)
PortsTypeOK ==
  /\ plugged \in [RootPorts -> Devices \cup {NoDevice}] /\ plugs \in 0 .. MaxPlugs
  /\ lastCcs \in [RootPorts -> BOOLEAN] /\ stable \in [RootPorts -> 0 .. CountCap]
  /\ portSlot \in [RootPorts -> Slots \cup {NoSlot}]
  /\ hcSlot \in [Slots -> {Free, Enabled} \cup {Addressed(p) : p \in RootPorts}]
  /\ valid \in [Slots -> BOOLEAN]
  /\ pollPc \in {"poll", "reset", "enable", "pages", "address", "descriptor"}
  /\ at \in RootPorts /\ slot \in Slots \cup {NoSlot}

(* The slot a port shows was addressed through that port, so two ports     *)
(* never show the same one, whatever timed out half way; and a port seen   *)
(* empty for the whole debounce time shows none.                           *)
SlotOfItsPort ==
  PortsTypeOK /\ \A p \in RootPorts :
    portSlot[p] # NoSlot => /\ hcSlot[portSlot[p]] = Addressed(p)
                            /\ lastCcs[p] \/ stable[p] < StableCount

(* A device seen at a port that shows none is enumerated, unless it is seen*)
(* gone first.  (One that replaces another between two polls is not seen.) *)
SeenDeviceTried ==
  \A p \in RootPorts :
    (lastCcs[p] /\ stable[p] = 1 /\ portSlot[p] = NoSlot)
      ~> (~lastCcs[p] \/ (pollPc = "reset" /\ at = p))
=============================================================================
