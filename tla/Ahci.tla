-------------------------------- MODULE Ahci --------------------------------
(***************************************************************************)
(* The AHCI driver (ahci.c) and the host adapter it polls.  Every port is  *)
(* given the same command list and the same command table: one command is  *)
(* written there, slot 0 of the port is set in PxCI, and the driver spins  *)
(* until the adapter clears it, reports an error, or patience runs out.    *)
(***************************************************************************)
EXTENDS Integers, Sequences

CONSTANTS NumPorts,   \* SATA ports found, at most AHCI_MAX_DISKS
          Lbas,       \* the addresses used, with 0
          MaxCalls    \* bound on the commands issued

ASSUME AhciAssumption ==
  /\ NumPorts \in Nat \ {0} /\ MaxCalls \in Nat
  /\ Lbas \subseteq Nat /\ 0 \in Lbas

Ports == 1 .. NumPorts

(* What g_cmd_list[0] and g_cmd_table say, and for which call: the command *)
(* of call number c uses memory of its own, and a write writes c.          *)
Ops == {"identify", "read", "write"}
None == [op |-> "none", lba |-> 0, call |-> 0]

VARIABLES
  table,      \* g_cmd_list[0] and g_cmd_table
  ci, tfes,   \* PxCI and PxIS.TFES, of each port
  serving,    \* the port serves its command list: ST is set, no error stopped it
  stage,      \* of the command the port has fetched
  exec,       \* that command
  disk,       \* the sectors of each disk
  memory,     \* the memory of each call
  pc,         \* where the driver is
  next,       \* ahci_init: the port it tries next
  sel,        \* g_port, 0 for NULL
  disks,      \* g_disks
  asked,      \* the calls: command and port
  result,     \* what each call returned
  moves,      \* history: where the data of each call went or came from
  suspect     \* history: some call gave up waiting

port   == <<ci, tfes, serving, stage, exec>>
data   == <<disk, memory, moves>>
driver == <<table, pc, next, sel, disks, asked, result, suspect>>
ahciVars == <<port, data, driver>>

AhciInit ==
  /\ table = None
  /\ ci = [p \in Ports |-> FALSE] /\ tfes = ci /\ serving = ci
  /\ stage = [p \in Ports |-> "idle"] /\ exec = [p \in Ports |-> None]
  /\ disk = [p \in Ports |-> [l \in Lbas |-> 0]] /\ memory = << >> /\ moves = << >>
  /\ pc = "init" /\ next = 1 /\ sel = 0 /\ disks = << >>
  /\ asked = << >> /\ result = << >>
  /\ suspect = FALSE

-----------------------------------------------------------------------------
(* The adapter.                                                            *)

Busy(p) == stage[p] \in {"fetched", "moved"}     \* PxTFD.BSY

Fetch(p) ==
  /\ serving[p] /\ ci[p] /\ stage[p] = "idle"
  /\ exec' = [exec EXCEPT ![p] = table]
  /\ stage' = [stage EXCEPT ![p] = "fetched"]
  /\ UNCHANGED <<ci, tfes, serving, data, driver>>

(* The data of a command, between the disk and the memory of its call.     *)
Transfer(p) ==
  LET c == exec[p] IN
  /\ stage[p] = "fetched" /\ c.op \in Ops
  /\ stage' = [stage EXCEPT ![p] = "moved"]
  /\ disk' = IF c.op = "write" THEN [disk EXCEPT ![p][c.lba] = c.call] ELSE disk
  /\ memory' = CASE c.op = "read"     -> [memory EXCEPT ![c.call] = disk[p][c.lba]]
                 [] c.op = "identify" -> [memory EXCEPT ![c.call] = p]
                 [] c.op = "write"    -> memory
  /\ moves' = [moves EXCEPT ![c.call] = @ \cup {<<c.op, p, c.lba>>}]
  /\ UNCHANGED <<ci, tfes, serving, exec, driver>>

(* The status, then the slot: PxTFD is written before PxCI.                *)
Status(p) ==
  /\ stage[p] = "moved"
  /\ stage' = [stage EXCEPT ![p] = "status"]
  /\ UNCHANGED <<ci, tfes, serving, exec, data, driver>>

Complete(p) ==
  /\ stage[p] = "status"
  /\ stage' = [stage EXCEPT ![p] = "idle"]
  /\ ci' = [ci EXCEPT ![p] = FALSE]
  /\ UNCHANGED <<tfes, serving, exec, data, driver>>

(* A task file error, before or after the data moved: the slot stays set   *)
(* and the port serves nothing more until ST is cleared and set again.     *)
Fail(p) ==
  /\ Busy(p)
  /\ stage' = [stage EXCEPT ![p] = "idle"]
  /\ tfes' = [tfes EXCEPT ![p] = TRUE]
  /\ serving' = [serving EXCEPT ![p] = FALSE]
  /\ UNCHANGED <<ci, exec, data, driver>>

Adapter == \E p \in Ports : Fetch(p) \/ Transfer(p) \/ Status(p) \/ Complete(p) \/ Fail(p)

-----------------------------------------------------------------------------
(* ahci_issue_command, and who calls it.                                   *)

Current == Len(asked)

Call(op, lba, p) ==
  /\ Current < MaxCalls
  /\ asked' = Append(asked, [op |-> op, lba |-> lba, port |-> p])
  /\ memory' = Append(memory, 0) /\ moves' = Append(moves, {})
  /\ sel' = p
  /\ pc' = "clear"

(* ahci_port_rebase of the next port: when the port does not stop or start *)
(* in time it is left out.                                                 *)
Rebase ==
  /\ pc = "init" /\ next <= NumPorts
  /\ table' = None
  /\ ci' = [ci EXCEPT ![next] = FALSE] /\ tfes' = [tfes EXCEPT ![next] = FALSE]
  /\ serving' = [serving EXCEPT ![next] = TRUE]
  /\ Call("identify", 0, next)
  /\ UNCHANGED <<stage, exec, disk, next, disks, result, suspect>>

SkipPort ==
  /\ pc = "init" /\ next <= NumPorts
  /\ table' \in {table, None}
  /\ next' = next + 1
  /\ UNCHANGED <<port, data, pc, sel, disks, asked, result, suspect>>

(* The first disk is the one used from then on.                            *)
FirstDisk == disks[1].port

InitDone ==
  /\ pc = "init" /\ next > NumPorts
  /\ \/ disks = << >> /\ pc' = "none" /\ UNCHANGED sel
     \/ disks # << >> /\ pc' = "idle" /\ sel' = FirstDisk
  /\ UNCHANGED <<port, data, table, next, disks, asked, result, suspect>>

(* bridge_read_block and bridge_write_block.                               *)
ReadWrite(op, lba) ==
  /\ pc = "idle" /\ Call(op, lba, sel)
  /\ UNCHANGED <<port, disk, table, next, disks, result, suspect>>

(* PxIS is cleared, the header set and the table zeroed; then the command  *)
(* and its buffer; then the address.                                       *)
ClearTable ==
  /\ pc = "clear" /\ pc' = "command"
  /\ tfes' = [tfes EXCEPT ![sel] = FALSE]
  /\ table' = None
  /\ UNCHANGED <<ci, serving, stage, exec, data, next, sel, disks, asked, result, suspect>>

SetCommand ==
  /\ pc = "command" /\ pc' = "address"
  /\ table' = [op |-> asked[Current].op, lba |-> 0, call |-> Current]
  /\ UNCHANGED <<port, data, next, sel, disks, asked, result, suspect>>

Address(lba) == lba

SetAddress ==
  /\ pc = "address" /\ pc' = "ready"
  /\ table' = [table EXCEPT !.lba = Address(asked[Current].lba)]
  /\ UNCHANGED <<port, data, next, sel, disks, asked, result, suspect>>

Ready ==
  /\ pc = "ready" /\ ~Busy(sel) /\ pc' = "wait"
  /\ ci' = [ci EXCEPT ![sel] = TRUE]
  /\ UNCHANGED <<tfes, serving, stage, exec, data, table, next, sel, disks, asked,
                 result, suspect>>

(* The call returns r; ahci_init enters the disk whether or not IDENTIFY   *)
(* succeeded, and goes on to the next port.                                *)
Sectors(r) == IF r = "OK" THEN memory[Current] ELSE 0

Return(r) ==
  LET c == asked[Current] IN
  /\ result' = Append(result, r)
  /\ IF c.op = "identify"
     THEN /\ disks' = Append(disks, [port |-> sel, sectors |-> Sectors(r)])
          /\ next' = next + 1 /\ pc' = "init"
     ELSE UNCHANGED <<disks, next>> /\ pc' = "idle"
  /\ suspect' = (suspect \/ r = "TIMEOUT")
  /\ UNCHANGED <<port, data, table, sel, asked>>

ErrorSeen_Any == \E p \in Ports : tfes[p]    \* mutant: an error of any port
ErrorSeen == tfes[sel]

Finished_NotBusy == ~Busy(sel)               \* mutant: polls PxTFD, not PxCI
Finished == ~ci[sel]

Done == pc = "wait" /\ Finished /\ Return(IF ErrorSeen THEN "ERROR" ELSE "OK")
Error == pc = "wait" /\ ~Finished /\ ErrorSeen /\ Return("ERROR")

GivesUp ==
  \/ pc = "wait" /\ ~Finished
  \/ pc = "ready" /\ Busy(sel)
GiveUp == GivesUp /\ Return("TIMEOUT")

AhciDriver ==
  \/ Rebase \/ SkipPort \/ InitDone
  \/ ClearTable \/ SetCommand \/ SetAddress \/ Ready
  \/ Done \/ Error \/ GiveUp

AhciNext == Adapter \/ AhciDriver \/ \E op \in {"read", "write"}, lba \in Lbas : ReadWrite(op, lba)

AhciSpec == AhciInit /\ [][AhciNext]_ahciVars

-----------------------------------------------------------------------------
Place(c) == <<asked[c].op, asked[c].port, asked[c].lba>>

(* While no call has given up, a call that reports success has moved its   *)
(* data, and no call, whatever it reports, touched any other disk or sector*)
(* than its own: the table shared by the ports is not read by the wrong one*)
(* nor half written.                                                       *)
OkMeansDone ==
  ~suspect => \A c \in DOMAIN asked :
                /\ moves[c] \subseteq {Place(c)}
                /\ (c \in DOMAIN result /\ result[c] = "OK") => moves[c] = {Place(c)}

(* Memory of a call is not touched once the call has returned (it is often *)
(* on the caller's stack), unless some call gave up waiting.               *)
QuietAfterReturn ==
  [][~suspect /\ moves' # moves /\ Len(moves') = Len(moves) => pc = "wait"]_ahciVars

=============================================================================
