---------------------------- MODULE DeviceProofs ----------------------------
(***************************************************************************)
(* The drivers, for any number of ports, slots, addresses and ring entries *)
(* and any bound on the events: what ahci.c reports as done was done, and  *)
(* memory is left alone after a return; the rings of xhci.c carry each     *)
(* command once and in order and end a wait with the answer to it; a port's*)
(* slot stays its device's; and the desktop is told of no click and no turn*)
(* of the wheel that the mouse did not make.                               *)
(***************************************************************************)
EXTENDS Ahci, XhciRing, XhciPorts, Mouse, SequenceTheorems, TLAPS

-----------------------------------------------------------------------------
(* The disk: ahci.c.                                                       *)

Request == [op : Ops, lba : Lbas, port : Ports]
Results == {"OK", "ERROR", "TIMEOUT"}
Trace   == SUBSET (Ops \X Ports \X Lbas)
InCall  == pc \in {"clear", "command", "address", "ready", "wait"}

AhciTypes ==
  /\ ci \in [Ports -> BOOLEAN] /\ tfes \in [Ports -> BOOLEAN] /\ serving \in [Ports -> BOOLEAN]
  /\ stage \in [Ports -> {"idle", "fetched", "moved", "status"}]
  /\ exec = [p \in Ports |-> exec[p]]
  /\ disk \in [Ports -> [Lbas -> Nat]] /\ memory \in Seq(Nat) /\ moves \in Seq(Trace)
  /\ asked \in Seq(Request) /\ result \in Seq(Results)
  /\ disks \in Seq([port : Ports, sectors : Nat])
  /\ next \in Nat \ {0}
  /\ pc \in {"init", "idle", "none", "clear", "command", "address", "ready", "wait"}
  /\ pc = "idle" => sel \in Ports

(* The calls and what is kept for each.                                    *)
CallsKept ==
  /\ Len(memory) = Current /\ Len(moves) = Current
  /\ InCall => /\ Current # 0 /\ Len(result) = Current - 1
               /\ sel \in Ports /\ asked[Current].port = sel
  /\ ~InCall => Len(result) = Current

(* The command of call c, as a port must fetch it.                         *)
Cmd(c) == [op |-> asked[c].op, lba |-> asked[c].lba, call |-> c]

(* What the table says on the way to PxCI.                                 *)
TableInv ==
  /\ pc = "address" => table = [op |-> asked[Current].op, lba |-> 0, call |-> Current]
  /\ pc \in {"ready", "wait"} => table = Cmd(Current)

(* Only the selected port works, only while the driver waits, and on the   *)
(* command of the call; a port with an error works no more.                *)
PortsKept ==
  /\ \A p \in Ports : stage[p] # "idle" => /\ pc = "wait" /\ p = sel /\ ci[p]
                                           /\ exec[p] = Cmd(Current)
  /\ \A p \in Ports : ci[p] /\ serving[p] => pc = "wait" /\ p = sel
  /\ pc \in {"command", "address", "ready"} => ~tfes[sel]
  /\ pc = "wait" /\ tfes[sel] => ~serving[sel] /\ stage[sel] = "idle"

(* The data: what the calls moved, and the one under way.                  *)
MovesInv ==
  /\ \A c \in 1 .. Current :
       /\ moves[c] \subseteq {Place(c)}
       /\ c \in DOMAIN result /\ result[c] = "OK" => moves[c] = {Place(c)}
  /\ pc = "wait" /\ (~ci[sel] \/ stage[sel] \in {"moved", "status"})
       => moves[Current] = {Place(Current)}

Good == AhciTypes /\ CallsKept /\ TableInv /\ PortsKept /\ MovesInv
AInv == suspect \in BOOLEAN /\ (~suspect => Good)

-----------------------------------------------------------------------------
LEMMA InitAhci == AhciAssumption /\ AhciInit => AInv
<1> SUFFICES ASSUME AhciAssumption, AhciInit PROVE AInv
    OBVIOUS
<1>1. 0 \in Lbas /\ NumPorts \in Nat
  BY DEF AhciAssumption
<1>2. /\ ci = [p \in Ports |-> FALSE] /\ tfes = [p \in Ports |-> FALSE]
      /\ serving = [p \in Ports |-> FALSE] /\ stage = [p \in Ports |-> "idle"]
      /\ exec = [p \in Ports |-> None] /\ disk = [p \in Ports |-> [l \in Lbas |-> 0]]
      /\ pc = "init" /\ next = 1 /\ suspect = FALSE
  BY DEF AhciInit
<1>3. /\ memory = <<>> /\ moves = <<>> /\ disks = <<>> /\ asked = <<>> /\ result = <<>>
  BY DEF AhciInit
<1>4. /\ memory \in Seq(Nat) /\ moves \in Seq(Trace) /\ asked \in Seq(Request)
      /\ result \in Seq(Results) /\ disks \in Seq([port : Ports, sectors : Nat])
      /\ Len(<<>>) = 0
  BY <1>3, EmptySeq
<1>5. AhciTypes
  BY <1>2, <1>4 DEF AhciTypes
<1>6. CallsKept /\ TableInv
  BY <1>2, <1>3, <1>4 DEF CallsKept, TableInv, Current, InCall
<1>7. PortsKept
  BY <1>2 DEF PortsKept
<1>8. MovesInv
  BY <1>2, <1>3, <1>4 DEF MovesInv, Current
<1> QED BY <1>2, <1>5, <1>6, <1>7, <1>8 DEF AInv, Good

(* Changing one element of a sequence.                                     *)
LEMMA OneReplaced ==
  ASSUME NEW S, NEW q \in Seq(S), NEW n \in Nat, Len(q) = n,
         NEW i \in 1 .. n, NEW e \in S
  PROVE  /\ [q EXCEPT ![i] = e] \in Seq(S) /\ Len([q EXCEPT ![i] = e]) = n
         /\ [q EXCEPT ![i] = e][i] = e
         /\ \A j \in 1 .. n : j # i => [q EXCEPT ![i] = e][j] = q[j]
OBVIOUS

(* What a new call adds.                                                   *)
LEMMA CallAdds ==
  ASSUME AhciAssumption, Good, ~InCall,
         NEW op \in Ops, NEW lba \in Lbas, NEW p \in Ports, Call(op, lba, p)
  PROVE  /\ asked' \in Seq(Request) /\ memory' \in Seq(Nat) /\ moves' \in Seq(Trace)
         /\ Current' = Current + 1 /\ Len(memory') = Current' /\ Len(moves') = Current'
         /\ asked'[Current'] = [op |-> op, lba |-> lba, port |-> p]
         /\ moves'[Current'] = {} /\ sel' = p /\ pc' = "clear"
         /\ \A c \in 1 .. Current : asked'[c] = asked[c] /\ moves'[c] = moves[c]
<1> DEFINE q == [op |-> op, lba |-> lba, port |-> p]
<1>1. /\ asked' = Append(asked, q) /\ memory' = Append(memory, 0) /\ moves' = Append(moves, {})
      /\ sel' = p /\ pc' = "clear"
  BY DEF Call
<1>2. /\ asked \in Seq(Request) /\ memory \in Seq(Nat) /\ moves \in Seq(Trace)
      /\ Len(memory) = Len(asked) /\ Len(moves) = Len(asked)
  BY DEF Good, AhciTypes, CallsKept, Current
<1>3. q \in Request /\ {} \in Trace /\ 0 \in Nat
  BY DEF Request, Trace
<1> HIDE DEF q
<1>4. /\ asked' \in Seq(Request) /\ Len(asked') = Len(asked) + 1
      /\ \A c \in 1 .. Len(asked) : asked'[c] = asked[c]
      /\ asked'[Len(asked) + 1] = q
  BY <1>1, <1>2, <1>3, AppendProperties
<1>5. memory' \in Seq(Nat) /\ Len(memory') = Len(memory) + 1
  BY <1>1, <1>2, <1>3, AppendProperties
<1>6. /\ moves' \in Seq(Trace) /\ Len(moves') = Len(moves) + 1
      /\ \A c \in 1 .. Len(moves) : moves'[c] = moves[c]
      /\ moves'[Len(moves) + 1] = {}
  BY <1>1, <1>2, <1>3, AppendProperties
<1> QED BY <1>1, <1>2, <1>4, <1>5, <1>6 DEF Current, q

-----------------------------------------------------------------------------
(* What the adapter does keeps everything: it works for the call that is   *)
(* being waited for.                                                       *)
LEMMA AdapterKeeps ==
  ASSUME AhciAssumption, Good, NEW p \in Ports,
         Fetch(p) \/ Transfer(p) \/ Status(p) \/ Complete(p) \/ Fail(p)
  PROVE  Good' /\ (moves' # moves => pc = "wait")
<1> USE DEF Good
<1>1. UNCHANGED <<table, pc, next, sel, disks, asked, result, suspect>>
  BY DEF Fetch, Transfer, Status, Complete, Fail, driver
<1>2. /\ Current' = Current /\ Len(asked) = Current
      /\ \A c : Cmd(c)' = Cmd(c) /\ Place(c)' = Place(c)
  BY <1>1 DEF Current, Cmd, Place
<1>3. pc = "wait" /\ p = sel /\ ci[p] /\ Current # 0 /\ asked[Current].port = p
  <2>1. stage[p] # "idle" \/ (ci[p] /\ serving[p])
    BY DEF Fetch, Transfer, Status, Complete, Fail, Busy
  <2> QED BY <2>1 DEF PortsKept, CallsKept, InCall
<1>4. Current \in Nat /\ Current \in 1 .. Current /\ asked[Current] \in Request
  <2>1. asked \in Seq(Request)
    BY DEF AhciTypes
  <2> QED BY <1>2, <1>3, <2>1 DEF Current
<1>5. TableInv'
  BY <1>1, <1>2 DEF TableInv
<1>6. CASE ~Transfer(p)
  <2>1. UNCHANGED <<disk, memory, moves>>
    BY <1>6 DEF Fetch, Status, Complete, Fail, data
  <2>2. CallsKept'
    BY <1>1, <1>2, <2>1 DEF CallsKept, InCall
  <2>3. /\ ci' \in [Ports -> BOOLEAN] /\ tfes' \in [Ports -> BOOLEAN]
        /\ serving' \in [Ports -> BOOLEAN]
        /\ stage' \in [Ports -> {"idle", "fetched", "moved", "status"}]
        /\ exec' = [q \in Ports |-> exec'[q]]
    BY <1>6 DEF Fetch, Status, Complete, Fail, AhciTypes
  <2>4. AhciTypes'
    BY <1>1, <2>1, <2>3 DEF AhciTypes
  <2>5. \A q \in Ports : q # p => /\ ci'[q] = ci[q] /\ tfes'[q] = tfes[q]
                                  /\ serving'[q] = serving[q] /\ stage'[q] = stage[q]
                                  /\ exec'[q] = exec[q]
    BY <1>6 DEF Fetch, Status, Complete, Fail, AhciTypes
  <2>6. /\ stage'[p] # "idle" => ci'[p] /\ exec'[p] = Cmd(Current)
        /\ tfes'[p] => ~serving'[p] /\ stage'[p] = "idle"
        /\ ~ci'[p] \/ stage'[p] \in {"moved", "status"} => moves[Current] = {Place(Current)}
    <3>0. /\ stage[p] # "idle" => exec[p] = Cmd(Current)
          /\ tfes[p] => ~serving[p] /\ stage[p] = "idle"
          /\ (~ci[p] \/ stage[p] \in {"moved", "status"}) => moves[Current] = {Place(Current)}
          /\ table = Cmd(Current)
      BY <1>3 DEF PortsKept, MovesInv, TableInv
    <3>1. CASE Fetch(p)
      BY <1>3, <3>0, <3>1 DEF Fetch, AhciTypes
    <3>2. CASE Status(p)
      BY <1>3, <3>0, <3>2 DEF Status, AhciTypes
    <3>3. CASE Complete(p)
      BY <1>3, <3>0, <3>3 DEF Complete, AhciTypes
    <3>4. CASE Fail(p)
      BY <1>3, <3>0, <3>4 DEF Fail, AhciTypes
    <3> QED BY <1>6, <3>1, <3>2, <3>3, <3>4
  <2>7. PortsKept'
    BY <1>1, <1>2, <1>3, <2>5, <2>6 DEF PortsKept
  <2>8. MovesInv'
    BY <1>1, <1>2, <1>3, <2>1, <2>6 DEF MovesInv
  <2> QED BY <1>5, <2>1, <2>2, <2>4, <2>7, <2>8
<1>7. CASE Transfer(p)
  <2>1. /\ stage[p] = "fetched" /\ exec[p] = Cmd(Current)
        /\ stage' = [stage EXCEPT ![p] = "moved"]
        /\ UNCHANGED <<ci, tfes, serving, exec>>
    BY <1>7 DEF Transfer, PortsKept
  <2>2. /\ Cmd(Current).op = asked[Current].op /\ Cmd(Current).lba = asked[Current].lba
        /\ Cmd(Current).call = Current
    BY DEF Cmd
  <2>3. /\ Place(Current) = <<exec[p].op, p, exec[p].lba>>
        /\ Place(Current) \in Ops \X Ports \X Lbas
    BY <1>3, <1>4, <2>1, <2>2 DEF Place, Request
  <2>4. moves' = [moves EXCEPT ![Current] = @ \cup {Place(Current)}]
    BY <1>7, <2>1, <2>2, <2>3 DEF Transfer
  <2>5. moves \in Seq(Trace) /\ Len(moves) = Current /\ DOMAIN moves = 1 .. Current
    BY <1>2 DEF AhciTypes, CallsKept
  <2>6. moves[Current] \cup {Place(Current)} \in Trace
    BY <1>4, <2>3, <2>5 DEF Trace
  <2>7. /\ moves' \in Seq(Trace) /\ Len(moves') = Current
        /\ moves'[Current] = moves[Current] \cup {Place(Current)}
        /\ \A c \in 1 .. Current : c # Current => moves'[c] = moves[c]
    BY <1>4, <2>4, <2>5, <2>6, OneReplaced
  <2>8. moves[Current] \subseteq {Place(Current)}
    BY <1>4 DEF MovesInv
  <2>9. moves'[Current] = {Place(Current)}
    BY <2>7, <2>8
  <2>10. memory \in Seq(Nat) /\ disk \in [Ports -> [Lbas -> Nat]] /\ Len(memory) = Current
    BY DEF AhciTypes, CallsKept
  <2>11. exec[p].op \in Ops /\ exec[p].lba \in Lbas /\ exec[p].call = Current /\ p \in Nat
    BY <1>4, <2>1, <2>2 DEF Request, Ports
  <2>12. disk' \in [Ports -> [Lbas -> Nat]]
    BY <1>4, <1>7, <2>10, <2>11 DEF Transfer
  <2>13. memory' \in Seq(Nat) /\ Len(memory') = Current
    <3>1. \/ memory' = [memory EXCEPT ![Current] = disk[p][exec[p].lba]]
          \/ memory' = [memory EXCEPT ![Current] = p]
          \/ memory' = memory
      BY <1>7, <2>11 DEF Transfer, Ops
    <3>2. disk[p][exec[p].lba] \in Nat /\ p \in Nat
      BY <2>10, <2>11
    <3>3. ASSUME NEW v \in Nat, memory' = [memory EXCEPT ![Current] = v]
          PROVE  memory' \in Seq(Nat) /\ Len(memory') = Current
      BY <1>4, <2>10, <3>3, OneReplaced
    <3> QED BY <2>10, <3>1, <3>2, <3>3
  <2>14. AhciTypes'
    <3>1. stage' \in [Ports -> {"idle", "fetched", "moved", "status"}]
      BY <2>1 DEF AhciTypes
    <3> QED BY <1>1, <2>1, <2>7, <2>12, <2>13, <3>1 DEF AhciTypes
  <2>15. CallsKept'
    BY <1>1, <1>2, <2>7, <2>13 DEF CallsKept, InCall
  <2>16. PortsKept'
    <3>1. /\ stage'[p] = "moved"
          /\ \A q \in Ports : q # p => stage'[q] = stage[q]
      BY <2>1 DEF AhciTypes
    <3> QED BY <1>1, <1>2, <1>3, <2>1, <3>1 DEF PortsKept
  <2>17. MovesInv'
    <3>1. ASSUME NEW c \in 1 .. Current
          PROVE  /\ moves'[c] \subseteq {Place(c)}
                 /\ c \in DOMAIN result /\ result[c] = "OK" => moves'[c] = {Place(c)}
      BY <2>7, <2>9, <3>1 DEF MovesInv
    <3> QED BY <1>1, <1>2, <2>9, <3>1 DEF MovesInv
  <2> QED BY <1>3, <1>5, <2>14, <2>15, <2>16, <2>17
<1> QED BY <1>6, <1>7

-----------------------------------------------------------------------------
(* A call begins: its port has no command that it could still serve.       *)
LEMMA CallKeeps ==
  ASSUME AhciAssumption, Good, ~InCall,
         NEW op \in Ops, NEW lba \in Lbas, NEW p \in Ports, Call(op, lba, p),
         UNCHANGED <<stage, exec, disk, next, disks, result>>,
         ci' \in [Ports -> BOOLEAN], tfes' \in [Ports -> BOOLEAN], serving' \in [Ports -> BOOLEAN],
         \A q \in Ports : ci'[q] /\ serving'[q] => ci[q] /\ serving[q]
  PROVE  Good'
<1>1. /\ asked' \in Seq(Request) /\ memory' \in Seq(Nat) /\ moves' \in Seq(Trace)
      /\ Current' = Current + 1 /\ Len(memory') = Current' /\ Len(moves') = Current'
      /\ asked'[Current'] = [op |-> op, lba |-> lba, port |-> p]
      /\ moves'[Current'] = {} /\ sel' = p /\ pc' = "clear"
      /\ \A c \in 1 .. Current : asked'[c] = asked[c] /\ moves'[c] = moves[c]
  BY CallAdds
<1>2. Current \in Nat /\ Len(result) = Current /\ DOMAIN result = 1 .. Current
  <2>1. asked \in Seq(Request) /\ result \in Seq(Results) /\ Len(result) = Current
    BY DEF Good, AhciTypes, CallsKept
  <2>2. Len(asked) \in Nat /\ DOMAIN result = 1 .. Len(result)
    BY <2>1
  <2> QED BY <2>1, <2>2 DEF Current
<1>3. AhciTypes'
  BY <1>1 DEF Good, AhciTypes
<1>4. CallsKept'
  <2>1. /\ Current' # 0 /\ Len(result') = Current' - 1
        /\ asked'[Current'].port = sel' /\ sel' \in Ports
    BY <1>1, <1>2
  <2> QED BY <1>1, <2>1 DEF CallsKept, InCall
<1>5. TableInv'
  BY <1>1 DEF TableInv
<1>6. PortsKept'
  BY <1>1 DEF Good, PortsKept, InCall
<1>7. MovesInv'
  <2>1. ASSUME NEW c \in 1 .. Current'
        PROVE  /\ moves'[c] \subseteq {Place(c)'}
               /\ c \in DOMAIN result /\ result[c] = "OK" => moves'[c] = {Place(c)'}
    <3>1. CASE c = Current'
      BY <1>1, <1>2, <3>1
    <3>2. CASE c \in 1 .. Current
      BY <1>1, <3>2 DEF Good, MovesInv, Place
    <3> QED BY <1>1, <1>2, <2>1, <3>1, <3>2
  <2> QED BY <1>1, <2>1 DEF MovesInv
<1> QED BY <1>3, <1>4, <1>5, <1>6, <1>7 DEF Good

(* A call ends: with success only when its data has been moved.            *)
LEMMA ReturnKeeps ==
  ASSUME AhciAssumption, Good, pc = "wait", NEW r \in {"OK", "ERROR"}, Return(r),
         ~ci[sel] \/ tfes[sel], r = "OK" => ~ci[sel]
  PROVE  Good'
<1> USE DEF Good
<1>1. /\ result' = Append(result, r) /\ UNCHANGED <<table, sel, asked>>
      /\ UNCHANGED <<ci, tfes, serving, stage, exec, disk, memory, moves>>
      /\ \/ /\ disks' = Append(disks, [port |-> sel, sectors |-> Sectors(r)])
            /\ next' = next + 1 /\ pc' = "init"
         \/ UNCHANGED <<disks, next>> /\ pc' = "idle"
  BY DEF Return, port, data
<1>2. /\ Current # 0 /\ Len(result) = Current - 1 /\ sel \in Ports /\ InCall
      /\ Len(memory) = Current /\ Len(moves) = Current
  BY DEF CallsKept, InCall
<1>3. /\ result \in Seq(Results) /\ asked \in Seq(Request) /\ memory \in Seq(Nat)
      /\ disks \in Seq([port : Ports, sectors : Nat]) /\ next \in Nat \ {0}
  BY DEF AhciTypes
<1>4. Current \in Nat /\ Current' = Current
  <2>1. Len(asked) \in Nat
    BY <1>3
  <2> QED BY <1>1, <2>1 DEF Current
<1>5. /\ result' \in Seq(Results) /\ Len(result') = Current /\ result'[Current] = r
      /\ \A c \in 1 .. Current - 1 : result'[c] = result[c]
  <2>1. r \in Results
    BY DEF Results
  <2>2. /\ Append(result, r) \in Seq(Results) /\ Len(Append(result, r)) = Len(result) + 1
        /\ \A c \in 1 .. Len(result) : Append(result, r)[c] = result[c]
        /\ Append(result, r)[Len(result) + 1] = r
    BY <1>3, <2>1, AppendProperties
  <2> QED BY <1>1, <1>2, <1>4, <2>2
<1>6. Sectors(r) \in Nat
  BY <1>2, <1>3, <1>4 DEF Sectors
<1>7. disks' \in Seq([port : Ports, sectors : Nat]) /\ next' \in Nat \ {0}
      /\ pc' \in {"init", "idle"}
  <2>1. [port |-> sel, sectors |-> Sectors(r)] \in [port : Ports, sectors : Nat]
    BY <1>2, <1>6
  <2>2. Append(disks, [port |-> sel, sectors |-> Sectors(r)]) \in Seq([port : Ports, sectors : Nat])
    BY <1>3, <2>1, AppendProperties
  <2>3. next + 1 \in Nat \ {0}
    BY <1>3
  <2> QED BY <1>1, <1>3, <2>2, <2>3
<1>8. AhciTypes'
  BY <1>1, <1>2, <1>5, <1>7 DEF AhciTypes
<1>9. CallsKept'
  BY <1>1, <1>2, <1>4, <1>5, <1>7 DEF CallsKept, InCall
<1>10. TableInv'
  BY <1>7 DEF TableInv
<1>11. PortsKept'
  <2>1. \A p \in Ports : stage[p] = "idle" /\ ~(ci[p] /\ serving[p])
    BY <1>2 DEF PortsKept
  <2> QED BY <1>1, <1>7, <2>1 DEF PortsKept
<1>12. MovesInv'
  <2>1. ASSUME NEW c \in 1 .. Current
        PROVE  /\ moves[c] \subseteq {Place(c)}
               /\ result'[c] = "OK" => moves[c] = {Place(c)}
    <3>1. CASE c = Current
      BY <1>5, <3>1 DEF MovesInv
    <3>2. CASE c # Current
      <4>1. c \in 1 .. Current - 1 /\ c \in DOMAIN result
        BY <1>2, <1>3, <1>4, <3>2
      <4> QED BY <1>5, <4>1 DEF MovesInv
    <3> QED BY <3>1, <3>2
  <2> QED BY <1>1, <1>4, <1>7, <2>1 DEF MovesInv, Place
<1> QED BY <1>8, <1>9, <1>10, <1>11, <1>12

(* The other steps of the driver.                                          *)
LEMMA DriverKeeps ==
  ASSUME AhciAssumption, Good, suspect = FALSE,
         AhciDriver \/ \E op \in {"read", "write"}, lba \in Lbas : ReadWrite(op, lba)
  PROVE  suspect' = TRUE \/ (suspect' = suspect /\ Good')
<1> USE DEF Good
<1>1. CASE Rebase
  <2>1. /\ pc = "init" /\ next <= NumPorts /\ Call("identify", 0, next) /\ suspect' = suspect
        /\ ci' = [ci EXCEPT ![next] = FALSE] /\ tfes' = [tfes EXCEPT ![next] = FALSE]
        /\ serving' = [serving EXCEPT ![next] = TRUE]
        /\ UNCHANGED <<stage, exec, disk, next, disks, result>>
    BY <1>1 DEF Rebase
  <2>2. next \in Ports /\ 0 \in Lbas /\ "identify" \in Ops /\ ~InCall
    BY <2>1 DEF AhciTypes, AhciAssumption, Ports, Ops, InCall
  <2>3. /\ ci' \in [Ports -> BOOLEAN] /\ tfes' \in [Ports -> BOOLEAN]
        /\ serving' \in [Ports -> BOOLEAN]
        /\ \A q \in Ports : ci'[q] /\ serving'[q] => ci[q] /\ serving[q]
    BY <2>1, <2>2 DEF AhciTypes
  <2> QED BY <2>1, <2>2, <2>3, CallKeeps
<1>2. ASSUME NEW op \in {"read", "write"}, NEW lba \in Lbas, ReadWrite(op, lba)
      PROVE  suspect' = suspect /\ Good'
  <2>1. /\ pc = "idle" /\ Call(op, lba, sel) /\ suspect' = suspect
        /\ UNCHANGED <<ci, tfes, serving, stage, exec, disk, next, disks, result>>
    BY <1>2 DEF ReadWrite, port
  <2>2. sel \in Ports /\ op \in Ops /\ ~InCall
    BY <2>1 DEF AhciTypes, Ops, InCall
  <2>3. /\ ci' \in [Ports -> BOOLEAN] /\ tfes' \in [Ports -> BOOLEAN]
        /\ serving' \in [Ports -> BOOLEAN]
        /\ \A q \in Ports : ci'[q] /\ serving'[q] => ci[q] /\ serving[q]
    BY <2>1 DEF AhciTypes
  <2> QED BY <2>1, <2>2, <2>3, CallKeeps
<1>3. CASE SkipPort \/ InitDone
  <2>1. /\ pc = "init" /\ pc' \in {"init", "none", "idle"} /\ next' \in Nat \ {0}
        /\ UNCHANGED <<ci, tfes, serving, stage, exec, disk, memory, moves, disks, asked, result,
                       suspect>>
    <3>1. next \in Nat \ {0}
      BY DEF AhciTypes
    <3> QED BY <1>3, <3>1 DEF SkipPort, InitDone, port, data
  <2>2. pc' = "idle" => sel' \in Ports
    <3> SUFFICES ASSUME pc' = "idle" PROVE sel' \in Ports
      OBVIOUS
    <3>1. disks # <<>> /\ sel' = disks[1].port
      BY <1>3, <2>1 DEF SkipPort, InitDone, FirstDisk
    <3>2. disks \in Seq([port : Ports, sectors : Nat])
      BY DEF AhciTypes
    <3>3. Len(disks) \in Nat \ {0}
      BY <3>1, <3>2, EmptySeq
    <3>4. PICK D : D = [port : Ports, sectors : Nat]
      OBVIOUS
    <3>5. \A i \in 1 .. Len(disks) : disks[i] \in D
      <4>1. disks \in Seq(D)
        BY <3>2, <3>4
      <4> QED BY <4>1
    <3>6. 1 \in 1 .. Len(disks)
      BY <3>3
    <3>7. disks[1] \in D
      BY <3>5, <3>6, Zenon
    <3> QED BY <3>1, <3>4, <3>7
  <2>3. AhciTypes'
    BY <2>1, <2>2 DEF AhciTypes
  <2>4. CallsKept' /\ TableInv' /\ PortsKept'
    BY <2>1 DEF CallsKept, InCall, Current, TableInv, PortsKept
  <2>5. MovesInv'
    BY <2>1 DEF MovesInv, Current, Place
  <2> QED BY <2>1, <2>3, <2>4, <2>5
<1>4. CASE ClearTable \/ SetCommand \/ SetAddress \/ Ready
  <2>1. UNCHANGED <<serving, stage, exec, disk, memory, moves, next, sel, disks, asked, result,
                    suspect>>
    BY <1>4 DEF ClearTable, SetCommand, SetAddress, Ready, port, data
  <2>2. /\ pc \in {"clear", "command", "address", "ready"}
        /\ pc' \in {"command", "address", "ready", "wait"}
        /\ InCall /\ InCall' /\ sel \in Ports
    BY <1>4 DEF ClearTable, SetCommand, SetAddress, Ready, InCall, CallsKept
  <2>3. \A p \in Ports : stage[p] = "idle" /\ ~(ci[p] /\ serving[p])
    BY <2>2 DEF PortsKept
  <2>4. CallsKept' /\ Current' = Current
    BY <2>1, <2>2 DEF CallsKept, Current
  <2>5. /\ ci' \in [Ports -> BOOLEAN] /\ tfes' \in [Ports -> BOOLEAN]
    BY <1>4, <2>1, <2>2 DEF ClearTable, SetCommand, SetAddress, Ready, port, AhciTypes
  <2>6. AhciTypes'
    BY <2>1, <2>2, <2>5 DEF AhciTypes
  <2>7. TableInv'
    <3>1. CASE ClearTable \/ SetCommand
      BY <2>1, <2>4, <3>1 DEF ClearTable, SetCommand, TableInv
    <3>2. CASE SetAddress
      <4>1. /\ table = [op |-> asked[Current].op, lba |-> 0, call |-> Current]
            /\ table' = [table EXCEPT !.lba = asked[Current].lba]
        BY <3>2 DEF SetAddress, TableInv, Address
      <4>2. table' = Cmd(Current)
        BY <4>1 DEF Cmd
      <4> QED BY <2>1, <2>4, <3>2, <4>2 DEF TableInv, Cmd, SetAddress
    <3>3. CASE Ready
      <4>1. pc = "ready" /\ table' = table /\ pc' = "wait"
        BY <3>3 DEF Ready
      <4> QED BY <2>1, <2>4, <4>1 DEF TableInv, Cmd
    <3> QED BY <1>4, <3>1, <3>2, <3>3
  <2>8. /\ ~tfes'[sel] /\ (pc' = "wait" => ci'[sel])
        /\ \A p \in Ports : p # sel \/ pc' # "wait" => ci'[p] = ci[p]
    <3>1. CASE ClearTable
      BY <2>1, <2>2, <3>1 DEF ClearTable, AhciTypes
    <3>2. CASE SetCommand \/ SetAddress
      BY <2>1, <2>2, <3>2 DEF SetCommand, SetAddress, port, PortsKept
    <3>3. CASE Ready
      BY <2>1, <2>2, <3>3 DEF Ready, PortsKept, AhciTypes
    <3> QED BY <1>4, <3>1, <3>2, <3>3
  <2>9. PortsKept'
    BY <2>1, <2>2, <2>3, <2>8 DEF PortsKept
  <2>10. MovesInv'
    BY <2>1, <2>2, <2>3, <2>4, <2>8 DEF MovesInv, Place
  <2> QED BY <2>1, <2>4, <2>6, <2>7, <2>9, <2>10
<1>5. CASE Done \/ Error
  <2>1. PICK r \in {"OK", "ERROR"} : /\ Return(r)
                                     /\ ~ci[sel] \/ tfes[sel]
                                     /\ r = "OK" => ~ci[sel]
    BY <1>5 DEF Done, Error, Finished, ErrorSeen
  <2>2. pc = "wait" /\ suspect' = suspect
    <3>1. suspect' = (suspect \/ r = "TIMEOUT")
      BY <2>1 DEF Return
    <3> QED BY <1>5, <3>1 DEF Done, Error
  <2> QED BY <2>1, <2>2, ReturnKeeps
<1>6. CASE GiveUp
  BY <1>6 DEF GiveUp, Return
<1> QED BY <1>1, <1>2, <1>3, <1>4, <1>5, <1>6 DEF AhciDriver

LEMMA NextAhci ==
  ASSUME AhciAssumption, AInv, [AhciNext]_ahciVars
  PROVE  AInv' /\ (~suspect /\ moves' # moves /\ Len(moves') = Len(moves) => pc = "wait")
<1>1. CASE suspect
  <2>1. suspect' = TRUE
    BY <1>1 DEF AhciNext, Adapter, Fetch, Transfer, Status, Complete, Fail, AhciDriver,
                Rebase, SkipPort, InitDone, ClearTable, SetCommand, SetAddress, Ready,
                Done, Error, GiveUp, Return, ReadWrite, ahciVars, driver, AInv
  <2> QED BY <1>1, <2>1 DEF AInv
<1>2. CASE ~suspect /\ Adapter
  <2>1. PICK p \in Ports : Fetch(p) \/ Transfer(p) \/ Status(p) \/ Complete(p) \/ Fail(p)
    BY <1>2 DEF Adapter
  <2>2. Good' /\ (moves' # moves => pc = "wait")
    BY <1>2, <2>1, AdapterKeeps DEF AInv
  <2>3. suspect' = suspect
    BY <2>1 DEF Fetch, Transfer, Status, Complete, Fail, driver
  <2> QED BY <1>2, <2>2, <2>3 DEF AInv
<1>3. CASE ~suspect /\ (AhciDriver \/ \E op \in {"read", "write"}, lba \in Lbas : ReadWrite(op, lba))
  <2>1. suspect' = TRUE \/ (suspect' = suspect /\ Good')
    BY <1>3, DriverKeeps DEF AInv
  <2>2. moves' # moves => Len(moves') # Len(moves)
    <3>1. moves' = moves \/ moves' = Append(moves, {})
      BY <1>3 DEF AhciDriver, Rebase, SkipPort, InitDone, ClearTable, SetCommand,
                  SetAddress, Ready,
                  Done, Error, GiveUp, Return, ReadWrite, Call, data
    <3>2. moves \in Seq(Trace) /\ {} \in Trace
      BY <1>3 DEF AInv, Good, AhciTypes, Trace
    <3>3. Len(Append(moves, {})) = Len(moves) + 1 /\ Len(moves) \in Nat
      BY <3>2, AppendProperties
    <3> QED BY <3>1, <3>3
  <2> QED BY <1>3, <2>1, <2>2 DEF AInv
<1>4. CASE ~suspect /\ UNCHANGED ahciVars
  <2>1. /\ UNCHANGED <<ci, tfes, serving, stage, exec, disk, memory, moves, table, pc, next, sel,
                       disks, asked, result, suspect>>
    BY <1>4 DEF ahciVars, port, data, driver
  <2>2. Good
    BY <1>4 DEF AInv
  <2>3. AhciTypes' /\ CallsKept' /\ TableInv' /\ PortsKept'
    BY <2>1, <2>2 DEF Good, AhciTypes, CallsKept, TableInv, PortsKept, InCall, Current, Cmd
  <2>4. MovesInv'
    BY <2>1, <2>2 DEF Good, MovesInv, Place, Current
  <2> QED BY <1>4, <2>1, <2>3, <2>4 DEF AInv, Good
<1> QED BY <1>1, <1>2, <1>3, <1>4 DEF AhciNext, AInv

LEMMA AhciKeepsAInv ==
  ASSUME AhciAssumption
  PROVE  AhciSpec => []AInv
<1>1. AhciInit => AInv
  BY InitAhci
<1>2. AInv /\ [AhciNext]_ahciVars => AInv'
  BY NextAhci
<1> QED BY <1>1, <1>2, PTL DEF AhciSpec

(* While no call has given up, a call that reports success has moved its   *)
(* data between its own sector and its own memory, and no call has touched *)
(* another, though all ports share one command table.                      *)
THEOREM SuccessMeansDone ==
  ASSUME AhciAssumption
  PROVE  AhciSpec => []OkMeansDone
<1>1. AInv => OkMeansDone
  <2> SUFFICES ASSUME AInv, ~suspect, NEW c \in DOMAIN asked
               PROVE  /\ moves[c] \subseteq {Place(c)}
                      /\ (c \in DOMAIN result /\ result[c] = "OK") => moves[c] = {Place(c)}
    BY DEF OkMeansDone
  <2>1. c \in 1 .. Current
    BY DEF AInv, Good, AhciTypes, Current
  <2> QED BY <2>1 DEF AInv, Good, MovesInv
<1> QED BY <1>1, AhciKeepsAInv, PTL

(* The memory of a call (the adapter writes it by DMA) is touched only     *)
(* while that call waits.                                                  *)
THEOREM MemoryIsQuiet ==
  ASSUME AhciAssumption
  PROVE  AhciSpec => QuietAfterReturn
<1>1. AInv /\ [AhciNext]_ahciVars
        => [~suspect /\ moves' # moves /\ Len(moves') = Len(moves) => pc = "wait"]_ahciVars
  BY NextAhci
<1> QED BY <1>1, AhciKeepsAInv, PTL DEF AhciSpec, QuietAfterReturn

-----------------------------------------------------------------------------
(* The rings of xhci.c.                                                    *)

Bits == {0, 1}
Event == [trb : Nat, cmd : Nat]

RingTypes ==
  /\ cmdRing \in [CmdSlots -> [cycle : Bits, cmd : Nat]]
  /\ cmdEnqueue \in 0 .. Link /\ cmdCycle \in Bits /\ waitsFor \in 0 .. Link - 1
  /\ pushed \in Nat /\ overfull \in BOOLEAN
  /\ evtRing \in [EvtSlots -> [cycle : Bits, event : Event]]
  /\ evtDequeue \in EvtSlots /\ evtCycle \in Bits /\ erdp = evtDequeue
  /\ answers \in Nat /\ answered \in Nat \X Nat
  /\ hcDequeue \in 0 .. Link /\ hcCycle \in Bits
  /\ hcEnqueue \in EvtSlots /\ hcFlag \in Bits
  /\ executed \in Seq(Nat) /\ posted \in Seq(Event)
  /\ ringPc \in {"idle", "link", "wait", "halt"}
  /\ ringPc = "link" <=> cmdEnqueue = Link

(* How far an index of a ring of n entries lies behind the next one.       *)
Behind(i, upto, n) == IF i < upto THEN upto - i ELSE upto - i + n

(* What the side that fills a ring has left in it: this lap's cycle before *)
(* its index, the other one after it, and the last entries that it wrote.  *)
CmdFilled ==
  /\ \A i \in 0 .. Link - 1 :
       /\ cmdRing[i].cycle = IF i < cmdEnqueue THEN cmdCycle ELSE 1 - cmdCycle
       /\ Behind(i, cmdEnqueue, Link) <= pushed
            => cmdRing[i].cmd = pushed + 1 - Behind(i, cmdEnqueue, Link)
  /\ \/ cmdRing[Link].cycle = 1 - cmdCycle
     \/ cmdRing[Link].cycle = cmdCycle /\ cmdEnqueue = pushed
  /\ pushed # 0 => cmdEnqueue = waitsFor + 1 \/ (cmdEnqueue = 0 /\ waitsFor = Link - 1)

Q == Len(posted)

EvtFilled ==
  \A i \in EvtSlots :
    /\ evtRing[i].cycle = IF i < hcEnqueue THEN hcFlag ELSE 1 - hcFlag
    /\ Behind(i, hcEnqueue, EvtTrbs) <= Q
         => evtRing[i].event = posted[Q + 1 - Behind(i, hcEnqueue, EvtTrbs)]

(* The driver on the event ring: in the lap of the controller, or one back.*)
Unread == IF hcFlag = evtCycle THEN hcEnqueue - evtDequeue ELSE hcEnqueue - evtDequeue + EvtTrbs

EvtBehind ==
  /\ hcFlag = evtCycle => evtDequeue <= hcEnqueue
  /\ hcFlag # evtCycle => hcEnqueue < evtDequeue
  /\ Unread <= Q

(* The controller on the command ring: in the lap of the driver, one back, *)
(* or past a link that the driver has reached but not yet turned over.     *)
E == Len(executed)
Pending == pushed - E

CmdBehind ==
  /\ answers <= E /\ E <= pushed /\ hcDequeue <= E /\ pushed - answers <= Link - 1
  /\ \A i \in 1 .. E : executed[i] = i
  /\ \/ hcCycle = cmdCycle /\ Pending = cmdEnqueue - hcDequeue
     \/ hcCycle = 1 - cmdCycle /\ Pending = cmdEnqueue - hcDequeue + Link
     \/ hcCycle = 1 - cmdCycle /\ Pending = 0 /\ hcDequeue = 0 /\ cmdEnqueue = Link

(* The entry of command c, told from that of the last one.                 *)
SlotOf(c) == IF pushed - c <= waitsFor THEN waitsFor - (pushed - c)
             ELSE waitsFor - (pushed - c) + Link

(* The answers the driver has not read are those of the commands after     *)
(* the ones it has, in their order.                                        *)
InOrder ==
  /\ \A i \in Q - Unread + 1 .. Q :
       posted[i] # NoEvent => /\ answers < posted[i].cmd /\ posted[i].cmd <= E
                              /\ posted[i].trb = SlotOf(posted[i].cmd)
  /\ \A i, j \in Q - Unread + 1 .. Q :
       i < j /\ posted[i] # NoEvent /\ posted[j] # NoEvent => posted[i].cmd < posted[j].cmd
  /\ answered[1] = answered[2]

RingInv == /\ RingTypes /\ CmdFilled /\ EvtFilled /\ EvtBehind
           /\ ~overfull => CmdBehind /\ InOrder

-----------------------------------------------------------------------------
LEMMA Sizes ==
  RingAssumption => /\ Link \in Nat \ {0} /\ EvtTrbs \in Nat /\ EvtTrbs > 1
                    /\ CmdSlots = 0 .. Link /\ EvtSlots = 0 .. EvtTrbs - 1
                    /\ NoEvent \in Event
BY DEF RingAssumption, Link, CmdSlots, EvtSlots, NoEvent, Event

LEMMA InitRing == RingAssumption /\ RingInit => RingInv
<1> SUFFICES ASSUME RingAssumption, RingInit PROVE RingInv
    OBVIOUS
<1>1. /\ cmdRing = [i \in CmdSlots |-> [cycle |-> IF i = Link THEN 1 ELSE 0, cmd |-> 0]]
      /\ evtRing = [i \in EvtSlots |-> [cycle |-> 0, event |-> NoEvent]]
      /\ cmdEnqueue = 0 /\ cmdCycle = 1 /\ evtDequeue = 0 /\ evtCycle = 1 /\ erdp = 0
      /\ ringPc = "idle" /\ waitsFor = 0 /\ hcDequeue = 0 /\ hcCycle = 1 /\ hcEnqueue = 0 /\ hcFlag = 1
      /\ pushed = 0 /\ answers = 0 /\ answered = <<0, 0>> /\ overfull = FALSE
  BY DEF RingInit
<1>2. /\ executed \in Seq(Nat) /\ posted \in Seq(Event) /\ E = 0 /\ Q = 0
  BY EmptySeq DEF RingInit, E, Q
<1>3. RingTypes
  <2>1. /\ cmdRing \in [CmdSlots -> [cycle : Bits, cmd : Nat]]
        /\ evtRing \in [EvtSlots -> [cycle : Bits, event : Event]]
    BY <1>1, Sizes DEF Bits
  <2>2. /\ 0 \in 0 .. Link /\ 0 \in 0 .. Link - 1 /\ 0 \in EvtSlots /\ 0 # Link
        /\ 0 \in Bits /\ 1 \in Bits
    BY Sizes DEF Bits
  <2> QED BY <1>1, <1>2, <2>1, <2>2 DEF RingTypes
<1>4. CmdFilled
  BY <1>1, Sizes DEF CmdFilled, Behind
<1>5. EvtFilled /\ EvtBehind /\ Unread = 0
  BY <1>1, <1>2, Sizes DEF EvtFilled, EvtBehind, Unread, Behind
<1>6. CmdBehind
  BY <1>1, <1>2, Sizes DEF CmdBehind, Pending
<1>7. InOrder
  BY <1>1, <1>2, <1>5 DEF InOrder
<1> QED BY <1>1, <1>3, <1>4, <1>5, <1>6, <1>7 DEF RingInv

-----------------------------------------------------------------------------
(* The driver fills the command ring.                                      *)

(* A push moves every entry one further back, and the entry before the     *)
(* index, whose command is a lap old, becomes the last one.                *)
LEMMA PushFills ==
  ASSUME RingAssumption, RingInv, Push
  PROVE  /\ CmdFilled' /\ cmdRing' \in [CmdSlots -> [cycle : Bits, cmd : Nat]]
         /\ cmdEnqueue' = cmdEnqueue + 1 /\ cmdEnqueue' \in 0 .. Link
         /\ waitsFor' = cmdEnqueue /\ waitsFor' \in 0 .. Link - 1
         /\ pushed' = pushed + 1
<1>1. /\ Link \in Nat \ {0} /\ CmdSlots = 0 .. Link
      /\ cmdEnqueue \in 0 .. Link /\ cmdEnqueue # Link
      /\ pushed \in Nat /\ cmdCycle \in Bits
      /\ cmdRing \in [CmdSlots -> [cycle : Bits, cmd : Nat]]
  BY Sizes DEF RingInv, RingTypes, Push
<1>2. /\ cmdRing' = [cmdRing EXCEPT ![cmdEnqueue] = [cycle |-> cmdCycle, cmd |-> pushed + 1]]
      /\ cmdEnqueue' = cmdEnqueue + 1 /\ waitsFor' = cmdEnqueue /\ cmdCycle' = cmdCycle
      /\ pushed' = pushed + 1
  BY DEF Push
<1>3. /\ cmdRing' \in [CmdSlots -> [cycle : Bits, cmd : Nat]]
      /\ cmdRing'[cmdEnqueue] = [cycle |-> cmdCycle, cmd |-> pushed + 1]
      /\ \A i \in CmdSlots : i # cmdEnqueue => cmdRing'[i] = cmdRing[i]
  <2>1. [cycle |-> cmdCycle, cmd |-> pushed + 1] \in [cycle : Bits, cmd : Nat]
    BY <1>1
  <2> QED BY <1>1, <1>2, <2>1
<1>4. ASSUME NEW i \in 0 .. Link - 1
      PROVE  /\ cmdRing'[i].cycle = IF i < cmdEnqueue' THEN cmdCycle ELSE 1 - cmdCycle
             /\ Behind(i, cmdEnqueue', Link) <= pushed'
                  => cmdRing'[i].cmd = pushed' + 1 - Behind(i, cmdEnqueue', Link)
  <2>1. CASE i = cmdEnqueue
    BY <1>1, <1>2, <1>3, <2>1 DEF Behind
  <2>2. CASE i # cmdEnqueue
    <3>1. Behind(i, cmdEnqueue', Link) = Behind(i, cmdEnqueue, Link) + 1
          /\ Behind(i, cmdEnqueue, Link) \in Int
      BY <1>1, <1>2, <2>2 DEF Behind
    <3>2. cmdRing'[i] = cmdRing[i]
      BY <1>1, <1>3, <2>2
    <3>3. /\ cmdRing[i].cycle = IF i < cmdEnqueue THEN cmdCycle ELSE 1 - cmdCycle
          /\ Behind(i, cmdEnqueue, Link) <= pushed
               => cmdRing[i].cmd = pushed + 1 - Behind(i, cmdEnqueue, Link)
      BY DEF RingInv, CmdFilled
    <3>4. (IF i < cmdEnqueue THEN cmdCycle ELSE 1 - cmdCycle)
            = IF i < cmdEnqueue' THEN cmdCycle ELSE 1 - cmdCycle
      BY <1>1, <1>2, <2>2
    <3>5. PICK b \in Int : b = Behind(i, cmdEnqueue, Link)
      BY <3>1
    <3>6. b + 1 <= pushed + 1 => b <= pushed /\ pushed + 1 + 1 - (b + 1) = pushed + 1 - b
      <4>1. pushed \in Nat /\ b \in Int
        BY <1>1
      <4> QED BY <4>1
    <3> QED BY <1>2, <3>1, <3>2, <3>3, <3>4, <3>5, <3>6
  <2> QED BY <2>1, <2>2
<1>5. \/ cmdRing'[Link].cycle = 1 - cmdCycle
      \/ cmdRing'[Link].cycle = cmdCycle /\ cmdEnqueue' = pushed'
  <2>1. cmdRing'[Link] = cmdRing[Link]
    BY <1>1, <1>3
  <2> QED BY <1>1, <1>2, <2>1 DEF RingInv, CmdFilled
<1>6. CmdFilled'
  BY <1>2, <1>4, <1>5 DEF CmdFilled
<1> QED BY <1>1, <1>2, <1>3, <1>6

LEMMA PushLinkFills ==
  ASSUME RingAssumption, RingInv, PushLink
  PROVE  /\ CmdFilled' /\ cmdRing' \in [CmdSlots -> [cycle : Bits, cmd : Nat]]
         /\ cmdEnqueue = Link /\ cmdEnqueue' = 0 /\ cmdCycle' = 1 - cmdCycle
<1>1. /\ Link \in Nat \ {0} /\ CmdSlots = 0 .. Link /\ cmdEnqueue = Link
      /\ pushed \in Nat /\ cmdCycle \in Bits
      /\ cmdRing \in [CmdSlots -> [cycle : Bits, cmd : Nat]] /\ waitsFor \in 0 .. Link - 1
  BY Sizes DEF RingInv, RingTypes, PushLink
<1>2. /\ cmdRing' = [cmdRing EXCEPT ![Link].cycle = cmdCycle]
      /\ cmdEnqueue' = 0 /\ waitsFor' = waitsFor /\ cmdCycle' = 1 - cmdCycle /\ pushed' = pushed
  BY DEF PushLink, LinkCycle
<1>3. /\ cmdRing' \in [CmdSlots -> [cycle : Bits, cmd : Nat]]
      /\ cmdRing'[Link].cycle = cmdCycle
      /\ \A i \in CmdSlots : i # Link => cmdRing'[i] = cmdRing[i]
  BY <1>1, <1>2
<1>4. ASSUME NEW i \in 0 .. Link - 1
      PROVE  /\ cmdRing'[i].cycle = IF i < cmdEnqueue' THEN cmdCycle' ELSE 1 - cmdCycle'
             /\ Behind(i, cmdEnqueue', Link) <= pushed'
                  => cmdRing'[i].cmd = pushed' + 1 - Behind(i, cmdEnqueue', Link)
  <2>1. Behind(i, cmdEnqueue', Link) = Behind(i, cmdEnqueue, Link)
    BY <1>1, <1>2 DEF Behind
  <2>2. cmdRing'[i] = cmdRing[i]
    BY <1>1, <1>3
  <2>3. /\ cmdRing[i].cycle = cmdCycle
        /\ Behind(i, cmdEnqueue, Link) <= pushed
             => cmdRing[i].cmd = pushed + 1 - Behind(i, cmdEnqueue, Link)
    BY <1>1 DEF RingInv, CmdFilled
  <2>4. ~(i < cmdEnqueue') /\ 1 - cmdCycle' = cmdCycle
    BY <1>1, <1>2 DEF Bits
  <2> QED BY <1>2, <2>1, <2>2, <2>3, <2>4
<1>5. 1 - cmdCycle' = cmdCycle
  BY <1>1, <1>2 DEF Bits
<1>6. pushed # 0 => waitsFor = Link - 1
  BY <1>1 DEF RingInv, CmdFilled
<1>7. CmdFilled'
  BY <1>2, <1>3, <1>4, <1>5, <1>6 DEF CmdFilled
<1> QED BY <1>1, <1>2, <1>3, <1>7

(* The controller fills the event ring.                                    *)
LEMMA PostFills ==
  ASSUME RingAssumption, RingInv, NEW e \in Event, Post(e),
         UNCHANGED <<evtDequeue, evtCycle>>
  PROVE  /\ EvtFilled' /\ EvtBehind' /\ evtRing' \in [EvtSlots -> [cycle : Bits, event : Event]]
         /\ hcEnqueue' \in EvtSlots /\ hcFlag' \in Bits /\ posted' \in Seq(Event)
         /\ Q' = Q + 1 /\ Unread' = Unread + 1 /\ Unread \in Nat /\ Q \in Nat
         /\ posted'[Q'] = e /\ \A i \in 1 .. Q : posted'[i] = posted[i]
<1>1. /\ EvtTrbs \in Nat /\ EvtTrbs > 1 /\ EvtSlots = 0 .. EvtTrbs - 1 /\ hcEnqueue \in EvtSlots
      /\ hcFlag \in Bits /\ evtDequeue \in EvtSlots /\ evtCycle \in Bits /\ erdp = evtDequeue
      /\ evtRing \in [EvtSlots -> [cycle : Bits, event : Event]] /\ posted \in Seq(Event)
  BY Sizes DEF RingInv, RingTypes
<1>2. /\ evtRing' = [evtRing EXCEPT ![hcEnqueue] = [cycle |-> hcFlag, event |-> e]]
      /\ hcEnqueue' = IF hcEnqueue + 1 = EvtTrbs THEN 0 ELSE hcEnqueue + 1
      /\ hcFlag' = IF hcEnqueue' = 0 THEN 1 - hcFlag ELSE hcFlag
      /\ posted' = Append(posted, e) /\ hcEnqueue' # evtDequeue
  BY <1>1 DEF Post, EventRoom, After
<1>3. /\ posted' \in Seq(Event) /\ Q' = Q + 1 /\ Q \in Nat /\ posted'[Q'] = e
      /\ \A i \in 1 .. Q : posted'[i] = posted[i]
  <2>1. /\ Append(posted, e) \in Seq(Event) /\ Len(Append(posted, e)) = Len(posted) + 1
        /\ \A i \in 1 .. Len(posted) : Append(posted, e)[i] = posted[i]
        /\ Append(posted, e)[Len(posted) + 1] = e
    BY <1>1, AppendProperties
  <2>2. Len(posted) \in Nat
    BY <1>1
  <2> QED BY <1>2, <2>1, <2>2 DEF Q
<1>4. hcEnqueue' \in EvtSlots /\ hcFlag' \in Bits
  BY <1>1, <1>2 DEF Bits
<1>5. /\ evtRing' \in [EvtSlots -> [cycle : Bits, event : Event]]
      /\ evtRing'[hcEnqueue] = [cycle |-> hcFlag, event |-> e]
      /\ \A i \in EvtSlots : i # hcEnqueue => evtRing'[i] = evtRing[i]
  <2>1. [cycle |-> hcFlag, event |-> e] \in [cycle : Bits, event : Event]
    BY <1>1
  <2> QED BY <1>1, <1>2, <2>1
<1>6. ASSUME NEW i \in EvtSlots
      PROVE  /\ evtRing'[i].cycle = IF i < hcEnqueue' THEN hcFlag' ELSE 1 - hcFlag'
             /\ Behind(i, hcEnqueue', EvtTrbs) <= Q'
                  => evtRing'[i].event = posted'[Q' + 1 - Behind(i, hcEnqueue', EvtTrbs)]
  <2>1. CASE i = hcEnqueue
    <3>1. Behind(i, hcEnqueue', EvtTrbs) = 1
      BY <1>1, <1>2, <2>1 DEF Behind
    <3>2. Q' + 1 - 1 = Q'
      BY <1>3
    <3>3. hcFlag = IF i < hcEnqueue' THEN hcFlag' ELSE 1 - hcFlag'
      BY <1>1, <1>2, <2>1 DEF Bits
    <3> QED BY <1>3, <1>5, <2>1, <3>1, <3>2, <3>3
  <2>2. CASE i # hcEnqueue
    <3>1. /\ Behind(i, hcEnqueue', EvtTrbs) = Behind(i, hcEnqueue, EvtTrbs) + 1
          /\ Behind(i, hcEnqueue, EvtTrbs) \in Nat \ {0}
      BY <1>1, <1>2, <2>2 DEF Behind
    <3>2. evtRing'[i] = evtRing[i]
      BY <1>5, <2>2
    <3>3. /\ evtRing[i].cycle = IF i < hcEnqueue THEN hcFlag ELSE 1 - hcFlag
          /\ Behind(i, hcEnqueue, EvtTrbs) <= Q
               => evtRing[i].event = posted[Q + 1 - Behind(i, hcEnqueue, EvtTrbs)]
      BY DEF RingInv, EvtFilled
    <3>4. (IF i < hcEnqueue THEN hcFlag ELSE 1 - hcFlag)
            = IF i < hcEnqueue' THEN hcFlag' ELSE 1 - hcFlag'
      BY <1>1, <1>2, <2>2 DEF Bits
    <3>5. ASSUME Behind(i, hcEnqueue', EvtTrbs) <= Q'
          PROVE  evtRing'[i].event = posted'[Q' + 1 - Behind(i, hcEnqueue', EvtTrbs)]
      <4>1. PICK b : b = Behind(i, hcEnqueue, EvtTrbs)
        OBVIOUS
      <4>2. b \in Nat \ {0} /\ b <= Q /\ Q' + 1 - Behind(i, hcEnqueue', EvtTrbs) = Q + 1 - b
        BY <1>3, <3>1, <3>5, <4>1
      <4>3. Q + 1 - b \in 1 .. Q
        BY <1>3, <4>2
      <4> QED BY <1>3, <3>2, <3>3, <4>1, <4>2, <4>3
    <3> QED BY <3>2, <3>3, <3>4, <3>5
  <2> QED BY <2>1, <2>2
<1>7. EvtFilled'
  BY <1>6 DEF EvtFilled
<1>8. /\ Unread' = Unread + 1 /\ Unread \in Nat
      /\ hcFlag' = evtCycle => evtDequeue <= hcEnqueue'
      /\ hcFlag' # evtCycle => hcEnqueue' < evtDequeue
  <2>1. /\ hcFlag = evtCycle => evtDequeue <= hcEnqueue
        /\ hcFlag # evtCycle => hcEnqueue < evtDequeue
    BY DEF RingInv, EvtBehind
  <2>2. Unread' = IF hcFlag' = evtCycle THEN hcEnqueue' - evtDequeue
                  ELSE hcEnqueue' - evtDequeue + EvtTrbs
    BY DEF Unread
  <2> QED BY <1>1, <1>2, <2>1, <2>2 DEF Unread, Bits
<1>9. EvtBehind'
  BY <1>3, <1>8 DEF EvtBehind, RingInv
<1> QED BY <1>3, <1>4, <1>5, <1>7, <1>8, <1>9

LEMMA EvtSame ==
  ASSUME RingInv, UNCHANGED <<evtRing, hcEnqueue, hcFlag, posted, evtDequeue, evtCycle>>
  PROVE  EvtFilled' /\ EvtBehind' /\ Q' = Q /\ Unread' = Unread
<1>1. Q' = Q /\ Unread' = Unread
  BY DEF Q, Unread
<1>2. EvtFilled'
  BY <1>1 DEF RingInv, EvtFilled
<1> QED BY <1>1, <1>2 DEF RingInv, EvtBehind

LEMMA CmdSame ==
  ASSUME RingInv, UNCHANGED <<cmdRing, cmdEnqueue, cmdCycle, pushed, waitsFor>>
  PROVE  CmdFilled' /\ \A c : SlotOf(c)' = SlotOf(c)
<1>1. CmdFilled'
  BY DEF RingInv, CmdFilled
<1> QED BY <1>1 DEF SlotOf

LEMMA UnreadInQ ==
  ASSUME RingAssumption, RingInv
  PROVE  /\ Q \in Nat /\ Unread \in 0 .. Q
         /\ \A i \in Q - Unread + 1 .. Q : i \in 1 .. Q /\ posted[i] \in Event
<1>1. /\ EvtTrbs \in Nat /\ EvtSlots = 0 .. EvtTrbs - 1 /\ hcEnqueue \in EvtSlots
      /\ evtDequeue \in EvtSlots /\ posted \in Seq(Event) /\ EvtBehind
  BY Sizes DEF RingInv, RingTypes
<1>2. Q \in Nat /\ \A i \in 1 .. Q : posted[i] \in Event
  BY <1>1 DEF Q
<1>3. Unread \in 0 .. Q
  BY <1>1, <1>2 DEF EvtBehind, Unread
<1>4. \A i \in Q - Unread + 1 .. Q : i \in 1 .. Q
  BY <1>2, <1>3
<1> QED BY <1>2, <1>3, <1>4

-----------------------------------------------------------------------------
(* The driver's steps.                                                     *)

LEMMA PushKeeps == ASSUME RingAssumption, RingInv, Push PROVE RingInv'
<1>1. /\ Link \in Nat \ {0} /\ cmdEnqueue \in 0 .. Link - 1 /\ pushed \in Nat
      /\ waitsFor \in 0 .. Link - 1
      /\ hcDequeue \in 0 .. Link /\ cmdCycle \in Bits /\ hcCycle \in Bits /\ answers \in Nat
      /\ executed \in Seq(Nat)
  <2>1. /\ Link \in Nat \ {0} /\ cmdEnqueue \in 0 .. Link /\ pushed \in Nat
        /\ waitsFor \in 0 .. Link - 1
        /\ hcDequeue \in 0 .. Link /\ cmdCycle \in Bits /\ hcCycle \in Bits /\ answers \in Nat
        /\ executed \in Seq(Nat)
    BY Sizes DEF RingInv, RingTypes
  <2>2. cmdEnqueue # Link
    BY DEF RingInv, RingTypes, Push
  <2> QED BY <2>1, <2>2
<1>2. /\ UNCHANGED <<evtRing, hcEnqueue, hcFlag, posted, evtDequeue, evtCycle, erdp, answers,
                     answered, hcDequeue, hcCycle, executed, cmdCycle>>
      /\ overfull' = (overfull \/ pushed - answers >= Link - 1)
      /\ ringPc' = IF cmdEnqueue' = Link THEN "link" ELSE "wait"
  BY DEF Push, event, controller
<1>3. /\ CmdFilled' /\ cmdRing' \in [CmdSlots -> [cycle : Bits, cmd : Nat]]
      /\ cmdEnqueue' = cmdEnqueue + 1 /\ cmdEnqueue' \in 0 .. Link
      /\ waitsFor' = cmdEnqueue /\ waitsFor' \in 0 .. Link - 1 /\ pushed' = pushed + 1
  BY PushFills
<1>4. EvtFilled' /\ EvtBehind' /\ Q' = Q /\ Unread' = Unread
  BY <1>2, EvtSame
<1>5. overfull \in BOOLEAN /\ overfull' \in BOOLEAN
  BY <1>2 DEF RingInv, RingTypes
<1>6. RingTypes'
  BY <1>1, <1>2, <1>3, <1>5 DEF RingInv, RingTypes
<1>7. ASSUME ~overfull' PROVE CmdBehind' /\ InOrder'
  <2>1. CmdBehind /\ InOrder /\ ~(pushed - answers >= Link - 1)
    BY <1>2, <1>7 DEF RingInv
  <2>2. E' = E /\ E \in Nat /\ Pending' = Pending + 1 /\ Pending \in Int
    BY <1>1, <1>2, <1>3 DEF E, Pending
  <2>3. CmdBehind'
    <3>1. /\ answers <= E /\ E <= pushed /\ hcDequeue <= E
          /\ \/ hcCycle = cmdCycle /\ Pending = cmdEnqueue - hcDequeue
             \/ hcCycle = 1 - cmdCycle /\ Pending = cmdEnqueue - hcDequeue + Link
      BY <1>1, <2>1 DEF CmdBehind
    <3>2. \A i \in 1 .. E : executed[i] = i
      BY <2>1 DEF CmdBehind
    <3>3. /\ answers' <= E' /\ E' <= pushed' /\ hcDequeue' <= E' /\ pushed' - answers' <= Link - 1
      BY <1>1, <1>2, <1>3, <2>1, <2>2, <3>1
    <3>4. \/ hcCycle' = cmdCycle' /\ Pending' = cmdEnqueue' - hcDequeue'
          \/ hcCycle' = 1 - cmdCycle' /\ Pending' = cmdEnqueue' - hcDequeue' + Link
      BY <1>1, <1>2, <1>3, <2>2, <3>1
    <3> QED BY <1>2, <2>2, <3>2, <3>3, <3>4 DEF CmdBehind
  <2>4. ASSUME NEW c \in Nat, answers < c, c <= E PROVE SlotOf(c)' = SlotOf(c)
    <3>1. E <= pushed
      BY <2>1 DEF CmdBehind
    <3>2. cmdEnqueue = waitsFor + 1 \/ (cmdEnqueue = 0 /\ waitsFor = Link - 1)
      <4>1. pushed # 0
        BY <1>1, <2>2, <2>4, <3>1
      <4> QED BY <4>1 DEF RingInv, CmdFilled
    <3> QED BY <1>1, <1>3, <2>1, <2>2, <2>4, <3>1, <3>2 DEF SlotOf
  <2>5. InOrder'
    <3>1. ASSUME NEW i \in Q - Unread + 1 .. Q, posted[i] # NoEvent
          PROVE  answers < posted[i].cmd /\ posted[i].cmd <= E
                 /\ posted[i].trb = SlotOf(posted[i].cmd)'
      <4>1. /\ answers < posted[i].cmd /\ posted[i].cmd <= E
            /\ posted[i].trb = SlotOf(posted[i].cmd)
        BY <2>1, <3>1 DEF InOrder
      <4>2. posted[i].cmd \in Nat
        <5>1. posted[i] \in Event
          BY <3>1, UnreadInQ
        <5> QED BY <5>1 DEF Event
      <4>3. PICK c \in Nat : c = posted[i].cmd
        BY <4>2
      <4>4. SlotOf(c)' = SlotOf(c)
        BY <2>4, <4>1, <4>3
      <4> QED BY <1>2, <4>1, <4>3, <4>4
    <3>2. \A i, j \in Q - Unread + 1 .. Q :
            i < j /\ posted[i] # NoEvent /\ posted[j] # NoEvent => posted[i].cmd < posted[j].cmd
      BY <2>1 DEF InOrder
    <3>3. answered[1] = answered[2]
      BY <2>1 DEF InOrder
    <3> QED BY <1>2, <1>4, <2>2, <3>1, <3>2, <3>3 DEF InOrder
  <2> QED BY <2>3, <2>5
<1> QED BY <1>3, <1>4, <1>6, <1>7 DEF RingInv

LEMMA PushLinkKeeps == ASSUME RingAssumption, RingInv, PushLink PROVE RingInv'
<1>1. /\ Link \in Nat \ {0} /\ cmdEnqueue = Link /\ pushed \in Nat /\ waitsFor \in 0 .. Link - 1
      /\ hcDequeue \in 0 .. Link /\ cmdCycle \in Bits /\ hcCycle \in Bits /\ answers \in Nat
      /\ executed \in Seq(Nat)
  BY Sizes DEF RingInv, RingTypes, PushLink
<1>2. /\ UNCHANGED <<evtRing, hcEnqueue, hcFlag, posted, evtDequeue, evtCycle, erdp, answers,
                     answered, hcDequeue, hcCycle, executed, pushed, overfull, waitsFor>>
      /\ ringPc' = "wait"
  BY DEF PushLink, event, controller
<1>3. /\ CmdFilled' /\ cmdRing' \in [CmdSlots -> [cycle : Bits, cmd : Nat]]
      /\ cmdEnqueue' = 0 /\ cmdCycle' = 1 - cmdCycle
  BY PushLinkFills
<1>4. EvtFilled' /\ EvtBehind' /\ Q' = Q /\ Unread' = Unread
  BY <1>2, EvtSame
<1>5. RingTypes'
  BY <1>1, <1>2, <1>3 DEF RingInv, RingTypes, Bits
<1>6. ASSUME ~overfull' PROVE CmdBehind' /\ InOrder'
  <2>1. CmdBehind /\ InOrder
    BY <1>2, <1>6 DEF RingInv
  <2>2. E' = E /\ E \in Nat /\ Pending' = Pending /\ Pending = pushed - E
    BY <1>1, <1>2 DEF E, Pending
  <2>3. CmdBehind'
    <3>1. /\ answers <= E /\ E <= pushed /\ hcDequeue <= E /\ pushed - answers <= Link - 1
          /\ \/ hcCycle = cmdCycle /\ Pending = Link - hcDequeue
             \/ hcCycle = 1 - cmdCycle /\ Pending = Link - hcDequeue + Link
             \/ hcCycle = 1 - cmdCycle /\ Pending = 0 /\ hcDequeue = 0
      BY <1>1, <2>1 DEF CmdBehind
    <3>2. \/ hcCycle' = 1 - cmdCycle' /\ Pending' = cmdEnqueue' - hcDequeue' + Link
          \/ hcCycle' = cmdCycle' /\ Pending' = cmdEnqueue' - hcDequeue'
      BY <1>1, <1>2, <1>3, <2>2, <3>1 DEF Bits
    <3> QED BY <1>2, <2>1, <2>2, <3>1, <3>2 DEF CmdBehind
  <2>4. \A c : SlotOf(c)' = SlotOf(c)
    BY <1>2 DEF SlotOf
  <2> QED BY <1>2, <1>4, <2>1, <2>2, <2>3, <2>4 DEF InOrder
<1> QED BY <1>3, <1>4, <1>5, <1>6 DEF RingInv

(* Neither ring is touched, and no index of the event ring: the wait alone *)
(* goes on.                                                                *)
LEMMA WaitKeeps ==
  ASSUME RingAssumption, RingInv, UNCHANGED <<command, event, controller>>,
         ringPc' \in {"idle", "link", "wait", "halt"}, ringPc' = "link" <=> ringPc = "link"
  PROVE  RingInv'
<1>1. UNCHANGED <<cmdRing, cmdEnqueue, cmdCycle, waitsFor, pushed, overfull, evtDequeue, evtCycle,
                  erdp, answers, answered, evtRing, hcDequeue, hcCycle, hcEnqueue, hcFlag,
                  executed, posted>>
  BY DEF command, event, controller
<1>2. CmdFilled' /\ \A c : SlotOf(c)' = SlotOf(c)
  BY <1>1, CmdSame
<1>3. EvtFilled' /\ EvtBehind' /\ Q' = Q /\ Unread' = Unread
  BY <1>1, EvtSame
<1>4. RingTypes'
  BY <1>1 DEF RingInv, RingTypes
<1>5. E' = E /\ Pending' = Pending
  BY <1>1 DEF E, Pending
<1>6. CmdBehind => CmdBehind'
  BY <1>1, <1>5 DEF CmdBehind
<1>7. InOrder => InOrder'
  BY <1>1, <1>2, <1>3, <1>5 DEF InOrder
<1> QED BY <1>1, <1>2, <1>3, <1>4, <1>6, <1>7 DEF RingInv

-----------------------------------------------------------------------------
(* The controller's steps.                                                 *)

(* The link says that the controller may go on when the driver has turned  *)
(* it over, and, in the first lap, as soon as the entry before it is full. *)
LEMMA FollowLinkKeeps == ASSUME RingAssumption, RingInv, FollowLink PROVE RingInv'
<1>1. /\ Link \in Nat \ {0} /\ cmdEnqueue \in 0 .. Link /\ pushed \in Nat /\ cmdCycle \in Bits
      /\ hcCycle \in Bits /\ executed \in Seq(Nat) /\ hcDequeue = Link
      /\ cmdRing[Link].cycle = hcCycle
  BY Sizes DEF RingInv, RingTypes, FollowLink, NewCommand
<1>2. /\ UNCHANGED <<cmdRing, cmdEnqueue, cmdCycle, waitsFor, pushed, overfull, evtDequeue, evtCycle,
                     erdp, answers, answered, evtRing, hcEnqueue, hcFlag, executed, posted, ringPc>>
      /\ hcDequeue' = 0 /\ hcCycle' = 1 - hcCycle
  BY DEF FollowLink, command, event
<1>3. CmdFilled' /\ \A c : SlotOf(c)' = SlotOf(c)
  BY <1>2, CmdSame
<1>4. EvtFilled' /\ EvtBehind' /\ Q' = Q /\ Unread' = Unread
  BY <1>2, EvtSame
<1>5. RingTypes'
  BY <1>1, <1>2 DEF RingInv, RingTypes, Bits
<1>6. E' = E /\ E \in Nat /\ Pending' = Pending /\ Pending = pushed - E
  BY <1>1, <1>2 DEF E, Pending
<1>7. ASSUME CmdBehind PROVE CmdBehind'
  <2>1. /\ E <= pushed
        /\ \/ hcCycle = cmdCycle /\ Pending = cmdEnqueue - Link
           \/ hcCycle = 1 - cmdCycle /\ Pending = cmdEnqueue - Link + Link
    BY <1>1, <1>7 DEF CmdBehind
  <2>2. CASE hcCycle = cmdCycle
    BY <1>1, <1>2, <1>6, <1>7, <2>1, <2>2 DEF CmdBehind, Bits
  <2>3. CASE hcCycle = 1 - cmdCycle /\ Pending = cmdEnqueue
    BY <1>1, <1>2, <1>6, <1>7, <2>3 DEF CmdBehind, Bits
  <2> QED BY <1>1, <2>1, <2>2, <2>3
<1>8. InOrder => InOrder'
  BY <1>2, <1>3, <1>4, <1>6 DEF InOrder
<1> QED BY <1>2, <1>3, <1>4, <1>5, <1>7, <1>8 DEF RingInv

(* The new entry under the controller's index is the next command's.       *)
LEMMA NextIsNext ==
  ASSUME RingAssumption, RingInv, CmdBehind, hcDequeue # Link, NewCommand
  PROVE  /\ cmdRing[hcDequeue].cmd = E + 1 /\ Pending > 0 /\ hcDequeue = SlotOf(E + 1)
         /\ \/ hcCycle = cmdCycle /\ Pending = cmdEnqueue - hcDequeue
            \/ hcCycle = 1 - cmdCycle /\ Pending = cmdEnqueue - hcDequeue + Link
<1>1. /\ Link \in Nat \ {0} /\ cmdEnqueue \in 0 .. Link /\ pushed \in Nat /\ cmdCycle \in Bits
      /\ hcCycle \in Bits /\ E \in Nat /\ hcDequeue \in 0 .. Link - 1 /\ waitsFor \in 0 .. Link - 1
      /\ cmdRing[hcDequeue].cycle = hcCycle
  BY Sizes DEF RingInv, RingTypes, NewCommand, E
<1>2. /\ cmdRing[hcDequeue].cycle = IF hcDequeue < cmdEnqueue THEN cmdCycle ELSE 1 - cmdCycle
      /\ Behind(hcDequeue, cmdEnqueue, Link) <= pushed
           => cmdRing[hcDequeue].cmd = pushed + 1 - Behind(hcDequeue, cmdEnqueue, Link)
      /\ pushed # 0 => cmdEnqueue = waitsFor + 1 \/ (cmdEnqueue = 0 /\ waitsFor = Link - 1)
  BY <1>1 DEF RingInv, CmdFilled
<1>3. /\ Pending = pushed - E
      /\ \/ hcCycle = cmdCycle /\ Pending = cmdEnqueue - hcDequeue
         \/ hcCycle = 1 - cmdCycle /\ Pending = cmdEnqueue - hcDequeue + Link
         \/ hcCycle = 1 - cmdCycle /\ hcDequeue = 0 /\ cmdEnqueue = Link
  BY DEF CmdBehind, Pending
<1>4. \/ hcCycle = cmdCycle /\ Pending = cmdEnqueue - hcDequeue /\ hcDequeue < cmdEnqueue
      \/ /\ hcCycle = 1 - cmdCycle /\ Pending = cmdEnqueue - hcDequeue + Link
         /\ ~(hcDequeue < cmdEnqueue)
  BY <1>1, <1>2, <1>3 DEF Bits
<1>5. Pending = Behind(hcDequeue, cmdEnqueue, Link) /\ Pending > 0
  BY <1>1, <1>4 DEF Behind
<1>6. cmdRing[hcDequeue].cmd = E + 1
  <2>1. Pending <= pushed /\ pushed + 1 - Pending = E + 1
    BY <1>1, <1>3
  <2> QED BY <1>2, <1>5, <2>1
<1>7. hcDequeue = SlotOf(E + 1)
  <2>1. pushed - (E + 1) = Pending - 1 /\ pushed # 0
    BY <1>1, <1>3, <1>5
  <2>2. cmdEnqueue = waitsFor + 1 \/ (cmdEnqueue = 0 /\ waitsFor = Link - 1)
    BY <1>2, <2>1
  <2>3. SlotOf(E + 1) = IF Pending - 1 <= waitsFor THEN waitsFor - (Pending - 1)
                        ELSE waitsFor - (Pending - 1) + Link
    BY <2>1 DEF SlotOf
  <2>4. CASE Pending = cmdEnqueue - hcDequeue /\ hcDequeue < cmdEnqueue
    BY <1>1, <2>2, <2>3, <2>4
  <2>5. CASE Pending = cmdEnqueue - hcDequeue + Link /\ ~(hcDequeue < cmdEnqueue)
    BY <1>1, <2>2, <2>3, <2>5
  <2> QED BY <1>4, <2>4, <2>5
<1> QED BY <1>4, <1>5, <1>6, <1>7

LEMMA ExecuteKeeps == ASSUME RingAssumption, RingInv, Execute PROVE RingInv'
<1> DEFINE c == cmdRing[hcDequeue].cmd
<1> DEFINE e == [trb |-> hcDequeue, cmd |-> c]
<1>1. /\ Link \in Nat \ {0} /\ cmdEnqueue \in 0 .. Link /\ pushed \in Nat /\ cmdCycle \in Bits
      /\ hcCycle \in Bits /\ executed \in Seq(Nat) /\ hcDequeue \in 0 .. Link - 1
      /\ answers \in Nat /\ CmdSlots = 0 .. Link
      /\ cmdRing \in [CmdSlots -> [cycle : Bits, cmd : Nat]]
  <2>1. hcDequeue \in 0 .. Link /\ hcDequeue # Link
    BY DEF RingInv, RingTypes, Execute
  <2>2. /\ Link \in Nat \ {0} /\ cmdEnqueue \in 0 .. Link /\ pushed \in Nat /\ cmdCycle \in Bits
        /\ hcCycle \in Bits /\ executed \in Seq(Nat) /\ answers \in Nat /\ CmdSlots = 0 .. Link
        /\ cmdRing \in [CmdSlots -> [cycle : Bits, cmd : Nat]]
    BY Sizes DEF RingInv, RingTypes
  <2>3. hcDequeue \in 0 .. Link - 1
    BY <2>1, <2>2
  <2> QED BY <2>2, <2>3
<1>2. /\ UNCHANGED <<cmdRing, cmdEnqueue, cmdCycle, waitsFor, pushed, overfull, evtDequeue, evtCycle,
                     erdp, answers, answered, hcCycle, ringPc>>
      /\ executed' = Append(executed, c) /\ Post(e) /\ hcDequeue' = hcDequeue + 1
      /\ NewCommand /\ hcDequeue # Link
  BY DEF Execute, command, event
<1>3. c \in Nat /\ e \in Event /\ e # NoEvent
  <2>1. cmdRing[hcDequeue] \in [cycle : Bits, cmd : Nat]
    BY <1>1
  <2>2. c \in Nat
    BY <2>1
  <2>3. hcDequeue # Link /\ hcDequeue \in Nat
    BY <1>1
  <2> QED BY <2>2, <2>3 DEF Event, NoEvent
<1> HIDE DEF e
<1>4. CmdFilled' /\ \A d : SlotOf(d)' = SlotOf(d)
  BY <1>2, CmdSame
<1>5. /\ EvtFilled' /\ EvtBehind' /\ evtRing' \in [EvtSlots -> [cycle : Bits, event : Event]]
      /\ hcEnqueue' \in EvtSlots /\ hcFlag' \in Bits /\ posted' \in Seq(Event)
      /\ Q' = Q + 1 /\ Unread' = Unread + 1 /\ Unread \in Nat /\ Q \in Nat
      /\ posted'[Q'] = e /\ \A i \in 1 .. Q : posted'[i] = posted[i]
  BY <1>2, <1>3, PostFills
<1>6. /\ executed' \in Seq(Nat) /\ E' = E + 1 /\ E \in Nat /\ executed'[E + 1] = c
      /\ \A i \in 1 .. E : executed'[i] = executed[i]
  <2>1. /\ Append(executed, c) \in Seq(Nat) /\ Len(Append(executed, c)) = Len(executed) + 1
        /\ \A i \in 1 .. Len(executed) : Append(executed, c)[i] = executed[i]
        /\ Append(executed, c)[Len(executed) + 1] = c
    BY <1>1, <1>3, AppendProperties
  <2> QED BY <1>1, <1>2, <2>1 DEF E
<1>7. RingTypes'
  <2>1. /\ UNCHANGED <<cmdRing, cmdEnqueue, cmdCycle, waitsFor, pushed, overfull, evtDequeue,
                       evtCycle, erdp, answers, answered, hcCycle, ringPc>>
        /\ hcDequeue' \in 0 .. Link
    BY <1>1, <1>2
  <2>2. /\ evtRing' \in [EvtSlots -> [cycle : Bits, event : Event]]
        /\ hcEnqueue' \in EvtSlots /\ hcFlag' \in Bits /\ posted' \in Seq(Event)
        /\ executed' \in Seq(Nat)
    BY <1>5, <1>6
  <2> QED BY <2>1, <2>2 DEF RingInv, RingTypes
<1>8. ASSUME ~overfull' PROVE CmdBehind' /\ InOrder'
  <2>1. CmdBehind /\ InOrder
    BY <1>2, <1>8 DEF RingInv
  <2>2. /\ c = E + 1 /\ Pending > 0 /\ hcDequeue = SlotOf(E + 1)
        /\ \/ hcCycle = cmdCycle /\ Pending = cmdEnqueue - hcDequeue
           \/ hcCycle = 1 - cmdCycle /\ Pending = cmdEnqueue - hcDequeue + Link
    BY <1>2, <2>1, NextIsNext
  <2>3. Pending = pushed - E /\ Pending' = Pending - 1
    BY <1>1, <1>2, <1>6 DEF Pending
  <2>4. CmdBehind'
    <3>1. \A i \in 1 .. E' : executed'[i] = i
      <4>1. \A i \in 1 .. E : executed[i] = i
        BY <2>1 DEF CmdBehind
      <4> QED BY <1>6, <2>2, <4>1
    <3>2. /\ answers' <= E' /\ E' <= pushed' /\ hcDequeue' <= E' /\ pushed' - answers' <= Link - 1
      BY <1>1, <1>2, <1>6, <2>1, <2>2, <2>3 DEF CmdBehind
    <3>3. \/ hcCycle' = cmdCycle' /\ Pending' = cmdEnqueue' - hcDequeue'
          \/ hcCycle' = 1 - cmdCycle' /\ Pending' = cmdEnqueue' - hcDequeue' + Link
      <4>1. cmdEnqueue' = cmdEnqueue /\ hcCycle' = hcCycle /\ cmdCycle' = cmdCycle
            /\ hcDequeue' = hcDequeue + 1 /\ cmdEnqueue \in Int /\ hcDequeue \in Int /\ Link \in Int
        BY <1>1, <1>2
      <4>2. Pending' = Pending - 1
        BY <2>3
      <4>3. CASE hcCycle = cmdCycle /\ Pending = cmdEnqueue - hcDequeue
        BY <4>1, <4>2, <4>3
      <4>4. CASE hcCycle = 1 - cmdCycle /\ Pending = cmdEnqueue - hcDequeue + Link
        BY <4>1, <4>2, <4>4
      <4> QED BY <2>2, <4>3, <4>4
    <3> QED BY <3>1, <3>2, <3>3 DEF CmdBehind
  <2>5. /\ Q' - Unread' + 1 = Q - Unread + 1
        /\ \A i \in Q' - Unread' + 1 .. Q' : i = Q' \/ i \in Q - Unread + 1 .. Q
        /\ \A i \in Q - Unread + 1 .. Q : posted'[i] = posted[i] /\ posted[i].cmd \in Nat
    <3>1. \A i \in Q - Unread + 1 .. Q : i \in 1 .. Q /\ posted[i] \in Event
      BY UnreadInQ
    <3>2. /\ Q' - Unread' + 1 = Q - Unread + 1
          /\ \A i \in Q' - Unread' + 1 .. Q' : i = Q' \/ i \in Q - Unread + 1 .. Q
      BY <1>5
    <3>3. \A i \in Q - Unread + 1 .. Q : posted'[i] = posted[i]
      BY <1>5, <3>1
    <3>4. \A i \in Q - Unread + 1 .. Q : posted[i].cmd \in Nat
      BY <3>1 DEF Event
    <3> QED BY <3>2, <3>3, <3>4
  <2>6. e.cmd = E + 1 /\ e.trb = SlotOf(E + 1)
    BY <2>2 DEF e
  <2>7. ASSUME NEW i \in Q' - Unread' + 1 .. Q', posted'[i] # NoEvent
        PROVE  answers < posted'[i].cmd /\ posted'[i].cmd <= E + 1
               /\ posted'[i].trb = SlotOf(posted'[i].cmd)
    <3>1. CASE i = Q'
      <4>1. answers < E + 1 /\ E + 1 <= E + 1
        BY <1>1, <1>6, <2>1 DEF CmdBehind
      <4> QED BY <1>5, <2>6, <3>1, <4>1
    <3>2. CASE i \in Q - Unread + 1 .. Q
      <4>1. posted'[i] = posted[i] /\ posted[i].cmd \in Nat
        BY <2>5, <3>2
      <4>2. answers < posted[i].cmd /\ posted[i].cmd <= E /\ posted[i].trb = SlotOf(posted[i].cmd)
        BY <2>1, <2>7, <3>2, <4>1 DEF InOrder
      <4>3. posted[i].cmd <= E + 1
        BY <1>6, <4>1, <4>2
      <4> QED BY <4>1, <4>2, <4>3
    <3> QED BY <2>5, <2>7, <3>1, <3>2
  <2>8. ASSUME NEW i \in Q' - Unread' + 1 .. Q', NEW j \in Q' - Unread' + 1 .. Q',
               i < j, posted'[i] # NoEvent, posted'[j] # NoEvent
        PROVE  posted'[i].cmd < posted'[j].cmd
    <3>1. i \in Q - Unread + 1 .. Q
      BY <1>5, <2>5, <2>8
    <3>2. CASE j = Q'
      <4>1. posted[i].cmd <= E /\ posted'[i] = posted[i] /\ posted[i].cmd \in Nat
        BY <2>1, <2>5, <2>8, <3>1 DEF InOrder
      <4>2. posted[i].cmd < E + 1
        BY <1>6, <4>1
      <4> QED BY <1>5, <2>6, <3>2, <4>1, <4>2
    <3>3. CASE j \in Q - Unread + 1 .. Q
      BY <2>1, <2>5, <2>8, <3>1, <3>3 DEF InOrder
    <3> QED BY <2>5, <3>2, <3>3
  <2>9. answered[1] = answered[2]
    BY <2>1 DEF InOrder
  <2>10. InOrder'
    <3>1. \A d : SlotOf(d)' = SlotOf(d)
      BY <1>4
    <3> QED BY <1>2, <1>6, <2>7, <2>8, <2>9 DEF InOrder, SlotOf
  <2> QED BY <2>4, <2>10
<1> QED BY <1>4, <1>5, <1>7, <1>8 DEF RingInv

LEMMA OtherEventKeeps == ASSUME RingAssumption, RingInv, OtherEvent PROVE RingInv'
<1>1. /\ UNCHANGED <<cmdRing, cmdEnqueue, cmdCycle, waitsFor, pushed, overfull, evtDequeue, evtCycle,
                     erdp, answers, answered, hcDequeue, hcCycle, executed, ringPc>>
      /\ Post(NoEvent)
  BY DEF OtherEvent, command, event
<1>2. CmdFilled' /\ \A c : SlotOf(c)' = SlotOf(c)
  BY <1>1, CmdSame
<1>3. /\ EvtFilled' /\ EvtBehind' /\ evtRing' \in [EvtSlots -> [cycle : Bits, event : Event]]
      /\ hcEnqueue' \in EvtSlots /\ hcFlag' \in Bits /\ posted' \in Seq(Event)
      /\ Q' = Q + 1 /\ Unread' = Unread + 1 /\ Unread \in Nat /\ Q \in Nat
      /\ posted'[Q'] = NoEvent /\ \A i \in 1 .. Q : posted'[i] = posted[i]
  BY <1>1, Sizes, PostFills
<1>4. RingTypes'
  BY <1>1, <1>3 DEF RingInv, RingTypes
<1>5. E' = E /\ Pending' = Pending
  BY <1>1 DEF E, Pending
<1>6. CmdBehind => CmdBehind'
  BY <1>1, <1>5 DEF CmdBehind
<1>7. ASSUME InOrder PROVE InOrder'
  <2>1. ASSUME NEW i \in Q' - Unread' + 1 .. Q', posted'[i] # NoEvent
        PROVE  i \in Q - Unread + 1 .. Q /\ posted'[i] = posted[i]
    <3>1. i \in Q - Unread + 1 .. Q
      BY <1>3, <2>1
    <3> QED BY <1>3, <3>1, UnreadInQ
  <2>2. \A i \in Q' - Unread' + 1 .. Q' :
          posted'[i] # NoEvent => /\ answers < posted'[i].cmd /\ posted'[i].cmd <= E
                                  /\ posted'[i].trb = SlotOf(posted'[i].cmd)
    BY <1>7, <2>1 DEF InOrder
  <2>3. \A i, j \in Q' - Unread' + 1 .. Q' :
          i < j /\ posted'[i] # NoEvent /\ posted'[j] # NoEvent => posted'[i].cmd < posted'[j].cmd
    BY <1>7, <2>1 DEF InOrder
  <2>4. answered[1] = answered[2]
    BY <1>7 DEF InOrder
  <2> QED BY <1>1, <1>5, <2>2, <2>3, <2>4 DEF InOrder, SlotOf
<1> QED BY <1>1, <1>2, <1>3, <1>4, <1>6, <1>7 DEF RingInv

-----------------------------------------------------------------------------
(* The driver's step on the event ring.                                    *)

(* The entry under the driver's index, when its cycle says that it is new, *)
(* is the oldest event that the driver has not read.                       *)
LEMMA OldestUnread ==
  ASSUME RingAssumption, RingInv, evtRing[evtDequeue].cycle = evtCycle
  PROVE  Unread > 0 /\ evtRing[evtDequeue].event = posted[Q + 1 - Unread]
<1>1. /\ EvtTrbs \in Nat /\ EvtSlots = 0 .. EvtTrbs - 1 /\ hcEnqueue \in EvtSlots /\ hcFlag \in Bits
      /\ evtDequeue \in EvtSlots /\ evtCycle \in Bits /\ EvtBehind
  BY Sizes DEF RingInv, RingTypes
<1>2. /\ evtRing[evtDequeue].cycle = IF evtDequeue < hcEnqueue THEN hcFlag ELSE 1 - hcFlag
      /\ Behind(evtDequeue, hcEnqueue, EvtTrbs) <= Q
           => evtRing[evtDequeue].event = posted[Q + 1 - Behind(evtDequeue, hcEnqueue, EvtTrbs)]
  BY <1>1 DEF RingInv, EvtFilled
<1>3. Unread = Behind(evtDequeue, hcEnqueue, EvtTrbs) /\ Unread > 0
  <2>1. CASE hcFlag = evtCycle
    <3>1. evtDequeue < hcEnqueue
      BY <1>1, <1>2, <2>1 DEF Bits
    <3> QED BY <1>1, <2>1, <3>1 DEF Behind, Unread
  <2>2. CASE hcFlag # evtCycle
    <3>1. hcEnqueue < evtDequeue
      BY <1>1, <2>2 DEF EvtBehind
    <3> QED BY <1>1, <2>2, <3>1 DEF Behind, Unread
  <2> QED BY <2>1, <2>2
<1> QED BY <1>1, <1>2, <1>3 DEF EvtBehind

LEMMA ConsumeReads ==
  ASSUME RingAssumption, RingInv, Consume
  PROVE  /\ EvtFilled' /\ EvtBehind' /\ Q' = Q /\ Unread' = Unread - 1
         /\ evtDequeue' \in EvtSlots /\ evtCycle' \in Bits /\ erdp' = evtDequeue'
<1>1. /\ EvtTrbs \in Nat /\ EvtTrbs > 1 /\ EvtSlots = 0 .. EvtTrbs - 1 /\ hcEnqueue \in EvtSlots
      /\ hcFlag \in Bits /\ evtDequeue \in EvtSlots /\ evtCycle \in Bits
  BY Sizes DEF RingInv, RingTypes
<1>2. /\ evtDequeue' = IF evtDequeue + 1 = EvtTrbs THEN 0 ELSE evtDequeue + 1
      /\ evtCycle' = IF evtDequeue' = 0 THEN 1 - evtCycle ELSE evtCycle
      /\ erdp' = evtDequeue'
      /\ UNCHANGED <<evtRing, hcEnqueue, hcFlag, posted>>
  BY DEF Consume, NextCycle, After, controller
<1>3. Q' = Q /\ Q \in Nat
  BY <1>2, UnreadInQ DEF Q
<1>4. EvtFilled'
  BY <1>2, <1>3 DEF EvtFilled, RingInv
<1>5. /\ hcFlag = evtCycle => evtDequeue <= hcEnqueue
      /\ hcFlag # evtCycle => hcEnqueue < evtDequeue
      /\ Unread <= Q /\ Unread > 0
  BY OldestUnread DEF RingInv, EvtBehind, Consume
<1>6. evtDequeue' \in EvtSlots /\ evtCycle' \in Bits
  BY <1>1, <1>2 DEF Bits
<1>7. /\ hcFlag = evtCycle' => evtDequeue' <= hcEnqueue
      /\ hcFlag # evtCycle' => hcEnqueue < evtDequeue'
      /\ Unread' = Unread - 1
  <2>1. /\ Unread = IF hcFlag = evtCycle THEN hcEnqueue - evtDequeue
                    ELSE hcEnqueue - evtDequeue + EvtTrbs
        /\ Unread' = IF hcFlag = evtCycle' THEN hcEnqueue - evtDequeue'
                     ELSE hcEnqueue - evtDequeue' + EvtTrbs
    BY <1>2 DEF Unread
  <2> QED BY <1>1, <1>2, <1>5, <2>1 DEF Bits
<1>8. EvtBehind'
  <2>1. Unread - 1 <= Q
    BY <1>5, UnreadInQ
  <2> QED BY <1>2, <1>3, <1>5, <1>7, <2>1 DEF EvtBehind
<1> QED BY <1>2, <1>3, <1>4, <1>6, <1>7, <1>8

LEMMA ConsumeKeeps == ASSUME RingAssumption, RingInv, Consume PROVE RingInv'
<1> DEFINE e == evtRing[evtDequeue].event
<1>1. /\ UNCHANGED <<cmdRing, cmdEnqueue, cmdCycle, waitsFor, pushed, overfull, evtRing, hcDequeue,
                     hcCycle, hcEnqueue, hcFlag, executed, posted>>
      /\ answers' = answers + (IF e = NoEvent THEN 0 ELSE 1)
      /\ \/ Awaited(e) /\ ringPc' = "idle" /\ answered' = <<e.cmd, pushed>>
         \/ ringPc' = ringPc /\ answered' = answered
      /\ ringPc = "wait" /\ evtRing[evtDequeue].cycle = evtCycle
  BY DEF Consume, command, controller
<1>2. /\ Link \in Nat \ {0} /\ pushed \in Nat /\ waitsFor \in 0 .. Link - 1 /\ answers \in Nat
      /\ answered \in Nat \X Nat /\ e \in Event /\ e.cmd \in Nat
  <2>1. evtRing[evtDequeue] \in [cycle : Bits, event : Event]
    BY DEF RingInv, RingTypes
  <2>2. e \in Event
    BY <2>1
  <2>3. e.cmd \in Nat
    BY <2>2 DEF Event
  <2> QED BY <2>2, <2>3, Sizes DEF RingInv, RingTypes
<1>3. CmdFilled' /\ \A c : SlotOf(c)' = SlotOf(c)
  BY <1>1, CmdSame
<1>4. /\ EvtFilled' /\ EvtBehind' /\ Q' = Q /\ Unread' = Unread - 1
      /\ evtDequeue' \in EvtSlots /\ evtCycle' \in Bits /\ erdp' = evtDequeue'
  BY ConsumeReads
<1>5. Unread > 0 /\ e = posted[Q + 1 - Unread] /\ Q \in Nat /\ Unread \in 0 .. Q
  BY <1>1, OldestUnread, UnreadInQ
<1> HIDE DEF e
<1>6. RingTypes'
  <2>1. answers' \in Nat /\ answered' \in Nat \X Nat
    BY <1>1, <1>2
  <2>2. ringPc' \in {"idle", "link", "wait", "halt"} /\ (ringPc' = "link" <=> ringPc = "link")
    BY <1>1
  <2> QED BY <1>1, <1>4, <2>1, <2>2 DEF RingInv, RingTypes
<1>7. E' = E /\ E \in Nat /\ Pending' = Pending
  BY <1>1 DEF E, Pending, RingInv, RingTypes
<1>8. ASSUME ~overfull' PROVE CmdBehind' /\ InOrder'
  <2>1. CmdBehind /\ InOrder
    BY <1>1, <1>8 DEF RingInv
  <2>2. e # NoEvent => answers < e.cmd /\ e.cmd <= E /\ e.trb = SlotOf(e.cmd)
    BY <1>5, <2>1 DEF InOrder
  <2>3. /\ answers <= E /\ E <= pushed /\ hcDequeue <= E /\ pushed - answers <= Link - 1
    BY <2>1 DEF CmdBehind
  <2>4. answers' <= E /\ pushed - answers' <= Link - 1
    BY <1>1, <1>2, <1>7, <2>2, <2>3
  <2>5. CmdBehind'
    BY <1>1, <1>7, <2>1, <2>3, <2>4 DEF CmdBehind
  <2>6. \A i \in Q' - Unread' + 1 .. Q' :
          /\ i \in Q - Unread + 1 .. Q /\ Q + 1 - Unread \in Q - Unread + 1 .. Q
          /\ Q + 1 - Unread < i /\ posted[i].cmd \in Nat
    <3>1. \A i \in Q' - Unread' + 1 .. Q' :
            /\ i \in Q - Unread + 1 .. Q /\ Q + 1 - Unread \in Q - Unread + 1 .. Q
            /\ Q + 1 - Unread < i
      BY <1>4, <1>5
    <3> QED BY <3>1, UnreadInQ DEF Event
  <2>7. ASSUME NEW i \in Q' - Unread' + 1 .. Q', posted[i] # NoEvent
        PROVE  /\ answers' < posted[i].cmd /\ posted[i].cmd <= E
               /\ posted[i].trb = SlotOf(posted[i].cmd)
    <3>1. answers < posted[i].cmd /\ posted[i].cmd <= E /\ posted[i].trb = SlotOf(posted[i].cmd)
      BY <2>1, <2>6, <2>7 DEF InOrder
    <3>2. e # NoEvent => e.cmd < posted[i].cmd
      BY <1>5, <2>1, <2>6, <2>7 DEF InOrder
    <3>3. posted[i].cmd \in Nat
      BY <2>6
    <3>4. answers' < posted[i].cmd
      BY <1>1, <1>2, <2>2, <3>1, <3>2, <3>3
    <3> QED BY <3>1, <3>4
  <2>8. \A i, j \in Q' - Unread' + 1 .. Q' :
          i < j /\ posted[i] # NoEvent /\ posted[j] # NoEvent => posted[i].cmd < posted[j].cmd
    BY <2>1, <2>6 DEF InOrder
  <2>9. answered'[1] = answered'[2]
    <3>1. CASE Awaited(e) /\ answered' = <<e.cmd, pushed>>
      <4>1. waitsFor = SlotOf(e.cmd) /\ answers < e.cmd /\ e.cmd <= E
        BY <2>2, <3>1 DEF Awaited
      <4>2. PICK d : d = pushed - e.cmd
        OBVIOUS
      <4>3. d \in Nat /\ d < Link
        BY <1>2, <1>7, <2>3, <4>1, <4>2
      <4>4. d = 0
        BY <1>2, <4>1, <4>2, <4>3 DEF SlotOf
      <4> QED BY <1>2, <3>1, <4>2, <4>4
    <3>2. CASE answered' = answered
      BY <2>1, <3>2 DEF InOrder
    <3> QED BY <1>1, <3>1, <3>2
  <2> QED BY <1>1, <1>3, <1>7, <2>5, <2>7, <2>8, <2>9 DEF InOrder, SlotOf
<1> QED BY <1>3, <1>4, <1>6, <1>8 DEF RingInv

-----------------------------------------------------------------------------
LEMMA NextRing == ASSUME RingAssumption, RingInv, [RingNext]_ringVars PROVE RingInv'
<1>1. CASE Push
  BY <1>1, PushKeeps
<1>2. CASE PushLink
  BY <1>2, PushLinkKeeps
<1>3. CASE Consume
  BY <1>3, ConsumeKeeps
<1>4. CASE Halt
  BY <1>4, WaitKeeps DEF Halt
<1>5. CASE Wake
  <2>1. ringPc = "halt" /\ ringPc' \in {"wait", "idle"} /\ UNCHANGED <<command, event, controller>>
    BY <1>5 DEF Wake
  <2>2. ringPc' \in {"idle", "link", "wait", "halt"} /\ (ringPc' = "link" <=> ringPc = "link")
    BY <2>1
  <2> QED BY <2>1, <2>2, WaitKeeps
<1>6. CASE FollowLink
  BY <1>6, FollowLinkKeeps
<1>7. CASE Execute
  BY <1>7, ExecuteKeeps
<1>8. CASE OtherEvent
  BY <1>8, OtherEventKeeps
<1>9. CASE UNCHANGED ringVars
  <2>1. UNCHANGED <<command, event, controller>> /\ ringPc' = ringPc
    BY <1>9 DEF ringVars
  <2>2. ringPc \in {"idle", "link", "wait", "halt"}
    BY DEF RingInv, RingTypes
  <2> QED BY <2>1, <2>2, WaitKeeps
<1> QED BY <1>1, <1>2, <1>3, <1>4, <1>5, <1>6, <1>7, <1>8, <1>9 DEF RingNext, RingDriver

LEMMA RingAlways == ASSUME RingAssumption PROVE RingSpec => []RingInv
<1>1. RingInit => RingInv
  BY InitRing
<1>2. RingInv /\ [RingNext]_ringVars => RingInv'
  BY NextRing
<1> QED BY <1>1, <1>2, PTL DEF RingSpec

(* When no new command is under the controller's index and the driver is   *)
(* not between an entry and the link, nothing is left: an index a lap back *)
(* would mean more commands without an answer than the ring has entries,   *)
(* and one at the link would have been told by its bit.                    *)
LEMMA NothingLeft ==
  ASSUME RingAssumption, RingInv, CmdBehind, ~NewCommand, ringPc # "link"
  PROVE  Len(executed) = pushed
<1>1. /\ Link \in Nat \ {0} /\ cmdEnqueue \in 0 .. Link - 1 /\ pushed \in Nat /\ cmdCycle \in Bits
      /\ hcCycle \in Bits /\ E \in Nat /\ hcDequeue \in 0 .. Link /\ answers \in Nat
  <2>1. /\ Link \in Nat \ {0} /\ cmdEnqueue \in 0 .. Link /\ pushed \in Nat /\ cmdCycle \in Bits
        /\ hcCycle \in Bits /\ E \in Nat /\ hcDequeue \in 0 .. Link /\ answers \in Nat
    BY Sizes DEF RingInv, RingTypes, E
  <2>2. cmdEnqueue # Link
    BY DEF RingInv, RingTypes
  <2> QED BY <2>1, <2>2
<1>2. /\ answers <= E /\ E <= pushed /\ hcDequeue <= E /\ pushed - answers <= Link - 1
      /\ Pending = pushed - E
      /\ \/ hcCycle = cmdCycle /\ Pending = cmdEnqueue - hcDequeue
         \/ hcCycle = 1 - cmdCycle /\ Pending = cmdEnqueue - hcDequeue + Link
  BY <1>1 DEF CmdBehind, Pending
<1>3. CASE hcDequeue = Link
  <2>1. hcCycle = 1 - cmdCycle /\ Pending = cmdEnqueue
    BY <1>1, <1>2, <1>3
  <2>2. cmdEnqueue = pushed
    BY <1>3, <2>1 DEF RingInv, CmdFilled, NewCommand
  <2> QED BY <1>1, <1>2, <1>3, <2>1, <2>2
<1>4. CASE hcDequeue # Link
  <2>1. cmdRing[hcDequeue].cycle = IF hcDequeue < cmdEnqueue THEN cmdCycle ELSE 1 - cmdCycle
    BY <1>1, <1>4 DEF RingInv, CmdFilled
  <2>2. cmdRing[hcDequeue].cycle # hcCycle
    BY DEF NewCommand
  <2>3. E = pushed
    BY <1>1, <1>2, <2>1, <2>2
  <2> QED BY <2>3 DEF E
<1> QED BY <1>3, <1>4

(* The controller executes the driver's commands in the order in which     *)
(* cmd_ring_push wrote them, each once, and leaves none behind.            *)
THEOREM CommandsRunInOrder == ASSUME RingAssumption PROVE RingSpec => []CommandsOnceInOrder
<1>1. RingInv => CommandsOnceInOrder
  <2> SUFFICES ASSUME RingInv, ~overfull PROVE CommandsOnceInOrder
    BY DEF CommandsOnceInOrder
  <2>1. CmdBehind
    BY DEF RingInv
  <2>2. DOMAIN executed = 1 .. E
    BY DEF RingInv, RingTypes, E
  <2>3. (~NewCommand /\ ringPc # "link") => Len(executed) = pushed
    BY <2>1, NothingLeft
  <2> QED BY <2>1, <2>2, <2>3 DEF CommandsOnceInOrder, CmdBehind, E
<1> QED BY <1>1, RingAlways, PTL

(* The event that ends poll_command_completion's wait is the answer to the *)
(* command it waits for, not to one that timed out before it.              *)
THEOREM AnswersComeHome == ASSUME RingAssumption PROVE RingSpec => []AnswersAreOwn
<1>1. RingInv => AnswersAreOwn
  BY DEF RingInv, InOrder, AnswersAreOwn
<1> QED BY <1>1, RingAlways, PTL

-----------------------------------------------------------------------------
(* The ports of xhci.c.                                                    *)

(* What is known in the middle of an enumeration: the port is seen and     *)
(* shows no slot, and the slot it was given is still unaddressed.          *)
Enumerating ==
  /\ pollPc \in {"reset", "enable", "pages", "address"}
       => portSlot[at] = NoSlot /\ lastCcs[at]
  /\ pollPc \in {"pages", "address"} => slot \in Slots /\ hcSlot[slot] = Enabled
  /\ pollPc = "descriptor" => slot \in Slots

PortsInv == SlotOfItsPort /\ Enumerating

LEMMA InitPorts == PortsAssumption /\ PortsInit => PortsInv
<1> SUFFICES ASSUME PortsAssumption, PortsInit PROVE PortsInv
    OBVIOUS
<1>1. PortsTypeOK
  BY DEF PortsAssumption, PortsInit, PortsTypeOK, RootPorts, Slots, Devices, NoDevice, NoSlot
<1>2. \A p \in RootPorts : portSlot[p] = NoSlot
  BY DEF PortsInit
<1> QED BY <1>1, <1>2 DEF PortsInit, PortsInv, SlotOfItsPort, Enumerating

LEMMA SlotNames ==
  /\ NoSlot \notin Slots /\ Enabled # Free
  /\ \A p, q : Addressed(p) # Free /\ Addressed(p) # Enabled
               /\ (Addressed(p) = Addressed(q) => p = q)
BY DEF NoSlot, Slots, Enabled, Free, Addressed

LEMMA NextAt == ASSUME PortsAssumption, PortsTypeOK, NextPort PROVE at' \in RootPorts
BY DEF PortsAssumption, PortsTypeOK, NextPort, RootPorts

(* The debounce count of an empty port goes through StableCount, and there *)
(* the port loses its slot.                                                *)
LEMMA PollKeeps ==
  ASSUME PortsAssumption, PortsInv, PollPort
  PROVE  PortsInv'
<1> DEFINE ccs == plugged[at] # NoDevice
           n   == Seen(ccs)
<1>1. PortsTypeOK
  BY DEF PortsInv, SlotOfItsPort
<1>2. /\ lastCcs' = [lastCcs EXCEPT ![at] = ccs] /\ stable' = [stable EXCEPT ![at] = n]
      /\ pollPc = "poll" /\ UNCHANGED <<plugged, plugs, hcSlot, valid, slot>>
      /\ \/ /\ IsStable(n) /\ ccs /\ portSlot[at] = NoSlot
            /\ pollPc' = "reset" /\ UNCHANGED <<at, portSlot>>
         \/ /\ IsStable(n) /\ ~ccs
            /\ portSlot' = [portSlot EXCEPT ![at] = SlotWhenGone]
            /\ NextPort /\ pollPc' = "poll"
         \/ /\ ~IsStable(n) \/ (ccs /\ portSlot[at] # NoSlot)
            /\ NextPort /\ pollPc' = "poll" /\ portSlot' = portSlot
  BY DEF PollPort, world
<1>3. /\ at \in RootPorts /\ stable[at] \in 0 .. CountCap /\ lastCcs[at] \in BOOLEAN
      /\ StableCount \in Nat /\ CountCap \in Nat /\ StableCount >= 1 /\ CountCap > StableCount
  BY <1>1 DEF PortsTypeOK, PortsAssumption
<1>4. n \in 0 .. CountCap /\ ccs \in BOOLEAN
  BY <1>3 DEF Seen, Counted
<1>5. \/ n = 1
      \/ ccs = lastCcs[at] /\ n = stable[at] + 1 
      \/ ccs = lastCcs[at] /\ n = stable[at]
  BY <1>3 DEF Seen, Counted
<1> HIDE DEF ccs, n
<1>6. at' \in RootPorts
  BY <1>1, <1>2, <1>3, NextAt
<1>7. portSlot' \in [RootPorts -> Slots \cup {NoSlot}]
  BY <1>1, <1>2 DEF PortsTypeOK, SlotWhenGone
<1>8. PortsTypeOK'
  <2>1. lastCcs' \in [RootPorts -> BOOLEAN] /\ stable' \in [RootPorts -> 0 .. CountCap]
    BY <1>1, <1>2, <1>4 DEF PortsTypeOK
  <2> QED BY <1>1, <1>2, <1>6, <1>7, <2>1 DEF PortsTypeOK
<1>9. ASSUME NEW p \in RootPorts, portSlot'[p] # NoSlot
      PROVE  hcSlot'[portSlot'[p]] = Addressed(p) /\ (lastCcs'[p] \/ stable'[p] < StableCount)
  <2>1. portSlot'[p] = portSlot[p]
    BY <1>1, <1>2, <1>3, <1>9 DEF PortsTypeOK, SlotWhenGone
  <2>2. hcSlot[portSlot[p]] = Addressed(p) /\ (lastCcs[p] \/ stable[p] < StableCount)
    BY <1>9, <2>1 DEF PortsInv, SlotOfItsPort
  <2>3. CASE p # at
    BY <1>1, <1>2, <2>1, <2>2, <2>3 DEF PortsTypeOK
  <2>4. CASE p = at
    <3>1. lastCcs'[p] = ccs /\ stable'[p] = n
      BY <1>1, <1>2, <2>4 DEF PortsTypeOK
    <3>2. ~ccs => n # StableCount
      BY <1>1, <1>2, <1>3, <1>9, <2>1, <2>4 DEF IsStable, PortsTypeOK, SlotWhenGone
    <3>3. ~ccs => n < StableCount
      BY <1>3, <1>4, <1>5, <2>2, <2>4, <3>2 DEF Seen, Counted
    <3> QED BY <1>2, <2>1, <2>2, <3>1, <3>3
  <2> QED BY <2>3, <2>4
<1>10. Enumerating'
  <2>1. CASE pollPc' = "poll"
    BY <2>1 DEF Enumerating
  <2>2. CASE /\ IsStable(n) /\ ccs /\ portSlot[at] = NoSlot
             /\ pollPc' = "reset" /\ UNCHANGED <<at, portSlot>>
    <3>1. lastCcs'[at] = ccs
      BY <1>1, <1>2, <1>3 DEF PortsTypeOK
    <3> QED BY <2>2, <3>1 DEF Enumerating
  <2> QED BY <1>2, <2>1, <2>2
<1> QED BY <1>8, <1>9, <1>10 DEF PortsInv, SlotOfItsPort

LEMMA NextPorts ==
  ASSUME PortsAssumption, PortsInv, [PortsNext]_portsVars
  PROVE  PortsInv'
<1>1. PortsTypeOK /\ Enumerating
  BY DEF PortsInv, SlotOfItsPort
<1>2. ASSUME UNCHANGED <<lastCcs, stable, portSlot, hcSlot>>, PortsTypeOK', Enumerating'
      PROVE  PortsInv'
  BY <1>2 DEF PortsInv, SlotOfItsPort
<1>3. ASSUME NEW p \in RootPorts, Plug(p) \/ Unplug(p) PROVE PortsInv'
  <2>1. UNCHANGED <<lastCcs, stable, portSlot, hcSlot, valid, pollPc, at, slot>>
    BY <1>3 DEF Plug, Unplug, poll
  <2>2. plugged' \in [RootPorts -> Devices \cup {NoDevice}] /\ plugs' \in 0 .. MaxPlugs
    BY <1>1, <1>3 DEF Plug, Unplug, PortsTypeOK, Devices, PortsAssumption
  <2>3. PortsTypeOK' /\ Enumerating'
    BY <1>1, <2>1, <2>2 DEF PortsTypeOK, Enumerating
  <2> QED BY <1>2, <2>1, <2>3
<1>4. ASSUME ResetPort \/ AllocatePages PROVE PortsInv'
  <2>1. UNCHANGED <<plugged, plugs, lastCcs, stable, portSlot, hcSlot, valid, slot>>
    BY <1>4 DEF ResetPort, AllocatePages, world, poll
  <2>2. /\ at' \in RootPorts
        /\ \/ pollPc = "reset" /\ pollPc' = "enable" /\ at' = at
           \/ pollPc = "pages" /\ pollPc' = "address" /\ at' = at
           \/ pollPc' = "poll"
    BY <1>1, <1>4, NextAt DEF ResetPort, AllocatePages, Abandon, PortsTypeOK
  <2>3. PortsTypeOK' /\ Enumerating'
    BY <1>1, <2>1, <2>2 DEF PortsTypeOK, Enumerating
  <2> QED BY <1>2, <2>1, <2>3
<1>5. CASE EnableSlot
  <2>1. CASE Abandon /\ UNCHANGED <<hcSlot, slot>>
    <3>1. UNCHANGED <<plugged, plugs, lastCcs, stable, portSlot, hcSlot, valid, slot>>
      BY <1>5, <2>1 DEF EnableSlot, world, poll
    <3>2. at' \in RootPorts /\ pollPc' = "poll"
      BY <1>1, <2>1, NextAt DEF Abandon
    <3>3. PortsTypeOK' /\ Enumerating'
      BY <1>1, <3>1, <3>2 DEF PortsTypeOK, Enumerating
    <3> QED BY <1>2, <3>1, <3>3
  <2>2. ASSUME NEW s \in Slots, hcSlot[s] = Free, hcSlot' = [hcSlot EXCEPT ![s] = Enabled],
               \/ slot' = s /\ pollPc' = "pages" /\ UNCHANGED at
               \/ AfterTimeout /\ UNCHANGED slot
        PROVE  PortsInv'
    <3>1. pollPc = "enable" /\ UNCHANGED <<plugged, plugs, lastCcs, stable, portSlot, valid>>
      BY <1>5 DEF EnableSlot, world, poll
    <3>2. /\ at' \in RootPorts /\ slot' \in Slots \cup {NoSlot}
          /\ (slot' = s /\ pollPc' = "pages" /\ at' = at) \/ pollPc' = "poll"
      BY <1>1, <2>2, NextAt DEF AfterTimeout, Abandon, PortsTypeOK
    <3>3. hcSlot' \in [Slots -> {Free, Enabled} \cup {Addressed(p) : p \in RootPorts}]
      BY <1>1, <2>2 DEF PortsTypeOK
    <3>4. PortsTypeOK'
      BY <1>1, <3>1, <3>2, <3>3 DEF PortsTypeOK
    <3>5. hcSlot'[s] = Enabled
      BY <1>1, <2>2 DEF PortsTypeOK
    <3>6. Enumerating'
      BY <1>1, <3>1, <3>2, <3>5 DEF Enumerating
    <3>7. ASSUME NEW p \in RootPorts, portSlot[p] # NoSlot
          PROVE  hcSlot'[portSlot[p]] = Addressed(p)
      <4>1. hcSlot[portSlot[p]] = Addressed(p)
        BY <3>7 DEF PortsInv, SlotOfItsPort
      <4>2. portSlot[p] # s
        BY <2>2, <4>1, SlotNames
      <4>3. portSlot[p] \in Slots
        BY <1>1, <3>7 DEF PortsTypeOK
      <4> QED BY <1>1, <2>2, <4>1, <4>2, <4>3 DEF PortsTypeOK
    <3> QED BY <3>1, <3>4, <3>6, <3>7 DEF PortsInv, SlotOfItsPort
  <2> QED BY <1>5, <2>1, <2>2 DEF EnableSlot
<1>6. CASE AddressDevice
  <2>1. /\ pollPc = "address" /\ slot \in Slots /\ hcSlot[slot] = Enabled
        /\ portSlot[at] = NoSlot /\ lastCcs[at] /\ at \in RootPorts
        /\ UNCHANGED <<plugged, plugs, lastCcs, stable, slot>>
    BY <1>1, <1>6 DEF AddressDevice, Enumerating, PortsTypeOK, world, poll
  <2>2. CASE /\ Abandon /\ UNCHANGED <<hcSlot, valid>>
             /\ portSlot' = [portSlot EXCEPT ![at] = SlotOnError]
    <3>1. portSlot' = portSlot /\ UNCHANGED <<hcSlot, valid>>
      BY <1>1, <2>2 DEF SlotOnError, PortsTypeOK
    <3>2. at' \in RootPorts /\ pollPc' = "poll"
      BY <1>1, <2>2, NextAt DEF Abandon
    <3>3. PortsTypeOK' /\ Enumerating'
      BY <1>1, <2>1, <3>1, <3>2 DEF PortsTypeOK, Enumerating
    <3> QED BY <1>2, <2>1, <3>1, <3>3
  <2>3. CASE /\ hcSlot' = [hcSlot EXCEPT ![slot] = Addressed(at)]
             /\ \/ /\ pollPc' = "descriptor" /\ UNCHANGED at
                   /\ portSlot' = [portSlot EXCEPT ![at] = slot]
                   /\ valid' = [valid EXCEPT ![slot] = FALSE]
                \/ Abandon /\ UNCHANGED <<portSlot, valid>>
    <3>1. /\ hcSlot' \in [Slots -> {Free, Enabled} \cup {Addressed(p) : p \in RootPorts}]
          /\ hcSlot'[slot] = Addressed(at)
          /\ \A s \in Slots : s # slot => hcSlot'[s] = hcSlot[s]
      BY <1>1, <2>1, <2>3 DEF PortsTypeOK
    <3>2. at' \in RootPorts /\ pollPc' \in {"poll", "descriptor"}
      BY <1>1, <2>1, <2>3, NextAt DEF Abandon
    <3>3. /\ portSlot' \in [RootPorts -> Slots \cup {NoSlot}] /\ valid' \in [Slots -> BOOLEAN]
          /\ \A p \in RootPorts : portSlot'[p] # portSlot[p] => p = at /\ portSlot'[p] = slot
      BY <1>1, <2>1, <2>3 DEF PortsTypeOK
    <3>4. PortsTypeOK'
      BY <1>1, <2>1, <3>1, <3>2, <3>3 DEF PortsTypeOK
    <3>5. Enumerating'
      BY <2>1, <3>2 DEF Enumerating
    <3>6. ASSUME NEW p \in RootPorts, portSlot'[p] # NoSlot
          PROVE  hcSlot'[portSlot'[p]] = Addressed(p) /\ (lastCcs[p] \/ stable[p] < StableCount)
      <4>1. CASE p = at
        BY <2>1, <3>1, <3>3, <3>6, <4>1
      <4>2. CASE p # at
        <5>1. portSlot'[p] = portSlot[p]
          BY <3>3, <4>2
        <5>2. hcSlot[portSlot[p]] = Addressed(p) /\ (lastCcs[p] \/ stable[p] < StableCount)
          BY <3>6, <5>1 DEF PortsInv, SlotOfItsPort
        <5>3. portSlot[p] \in Slots /\ portSlot[p] # slot
          BY <1>1, <2>1, <3>6, <5>1, <5>2, SlotNames DEF PortsTypeOK
        <5> QED BY <3>1, <5>1, <5>2, <5>3
      <4> QED BY <4>1, <4>2
    <3> QED BY <2>1, <3>4, <3>5, <3>6 DEF PortsInv, SlotOfItsPort
  <2> QED BY <1>6, <2>2, <2>3 DEF AddressDevice
<1>7. CASE GetDescriptor
  <2>1. UNCHANGED <<plugged, plugs, lastCcs, stable, portSlot, hcSlot, slot>>
    BY <1>7 DEF GetDescriptor, world, poll
  <2>2. at' \in RootPorts /\ pollPc' = "poll" /\ valid' \in [Slots -> BOOLEAN]
    BY <1>1, <1>7, NextAt DEF GetDescriptor, Abandon, PortsTypeOK
  <2>3. PortsTypeOK' /\ Enumerating'
    BY <1>1, <2>1, <2>2 DEF PortsTypeOK, Enumerating
  <2> QED BY <1>2, <2>1, <2>3
<1>8. CASE UNCHANGED portsVars
  <2>1. UNCHANGED <<plugged, plugs, lastCcs, stable, portSlot, hcSlot, valid, pollPc, at, slot>>
    BY <1>8 DEF portsVars, world, poll
  <2>2. PortsTypeOK' /\ Enumerating'
    BY <1>1, <2>1 DEF PortsTypeOK, Enumerating
  <2> QED BY <1>2, <2>1, <2>2
<1> QED BY <1>3, <1>4, <1>5, <1>6, <1>7, <1>8, PollKeeps DEF PortsNext, PollDriver

(* A slot stays with the port it was addressed through, and no port seen   *)
(* empty keeps one, whichever command of an enumeration fails or times out *)
(* while devices come and go (xhci_poll_ports, enumerate_new_device).      *)
THEOREM SlotsStayWithTheirPort ==
  ASSUME PortsAssumption
  PROVE  PortsSpec => []SlotOfItsPort
<1>1. PortsInit => PortsInv
  BY InitPorts
<1>2. PortsInv /\ [PortsNext]_portsVars => PortsInv'
  BY NextPorts
<1>3. PortsInv => SlotOfItsPort
  BY DEF PortsInv
<1> QED BY <1>1, <1>2, <1>3, PTL DEF PortsSpec

-----------------------------------------------------------------------------
(* The mouse: mouse.c.                                                     *)

Steps == {"test", "clear", "clamp", "limit", "buttons", "scroll", "zero", "handle",
          "draw", "previous", "done"}

(* The first bullet is the order of the steps.                             *)
MouseTypes == MouseTypeOK /\ updatePc \in Steps /\ lost \in Nat

(* What the handler has not seen of the report under way.                  *)
NewReport(r) == \E dx \in {-1, 0, 1}, ticks \in {0, 1} : r = Report(device, dx, ticks)

Aligned ==
  /\ toSend = <<>> => packet = <<>> /\ left = device
  /\ toSend # <<>> => NewReport(packet \o toSend)

(* The presses that the handler has seen, and the clicks that were told or *)
(* will be.                                                                *)
Unseen == IF toSend # <<>> /\ device /\ ~left THEN 1 ELSE 0
Reading == {"scroll", "zero", "handle"}
Owed == CASE updatePc \in Reading                     -> IF click THEN 1 ELSE 0
          [] updatePc \in {"draw", "previous"}        -> 0
          [] updatePc \notin Reading \cup {"draw", "previous"} -> IF left /\ ~prev THEN 1 ELSE 0

ClicksPaid == clicks + Owed + Unseen <= presses

(* The same for the ticks of the wheel.                                    *)
Coming == IF toSend # <<>> /\ Imps2 THEN toSend[Len(toSend)] ELSE 0
Held == IF updatePc = "handle" THEN delta ELSE 0

TicksPaid == /\ scrolled + scroll + Held + Coming <= turned
             /\ updatePc = "zero" => delta <= scroll

MInv == MouseTypes /\ OffScreenOnlyWhilePending
        /\ (lost = 0 => Aligned /\ ClicksPaid /\ TicksPaid)

-----------------------------------------------------------------------------
LEMMA ReportFacts ==
  ASSUME MouseAssumption, NEW b \in BOOLEAN, NEW dx \in {-1, 0, 1}, NEW t \in {0, 1}
  PROVE  LET r == Report(b, dx, t)
         IN  /\ r \in Seq(Byte) /\ Len(r) = PacketLimit
             /\ Bit(r[1], 1) = b /\ Bit(r[1], 8)
             /\ Imps2 => r[4] = t
<1> DEFINE head == 8 + (IF b THEN 1 ELSE 0) + (IF dx < 0 THEN 16 ELSE 0)
<1>1. head \in Byte /\ dx % 256 \in Byte /\ 0 \in Byte /\ t \in Byte
  BY DEF Byte
<1>2. Bit(head, 1) = b /\ Bit(head, 8)
  BY DEF Bit
<1>3. CASE Imps2
  <2>1. Report(b, dx, t) = <<head, dx % 256, 0>> \o <<t>>
    BY <1>3 DEF Report
  <2> HIDE DEF head
  <2>2. <<head, dx % 256, 0>> \in Seq(Byte) /\ <<t>> \in Seq(Byte)
    BY <1>1
  <2> DEFINE r == <<head, dx % 256, 0>> \o <<t>>
  <2>3. r \in Seq(Byte) /\ Len(r) = 4 /\ r[1] = head /\ r[4] = t
    BY <2>2, ConcatProperties
  <2> QED BY <1>2, <1>3, <2>1, <2>3 DEF PacketLimit
<1>4. CASE ~Imps2
  <2>1. Report(b, dx, t) = <<head, dx % 256, 0>>
    BY <1>4 DEF Report
  <2> HIDE DEF head
  <2> QED BY <1>1, <1>2, <1>4, <2>1 DEF PacketLimit
<1> QED BY <1>3, <1>4, MouseAssumption DEF MouseAssumption

(* What taking one byte of t into s leaves of the two together.            *)
LEMMA OneByte ==
  ASSUME NEW s \in Seq(Byte), NEW t \in Seq(Byte), t # <<>>
  PROVE  LET p == Append(s, Head(t))
             r == s \o t
         IN  /\ p \in Seq(Byte) /\ Len(p) = Len(s) + 1
             /\ Tail(t) \in Seq(Byte) /\ Len(Tail(t)) = Len(t) - 1
             /\ Len(r) = Len(s) + Len(t) /\ Len(s) \in Nat /\ Len(t) \in Nat
             /\ p \o Tail(t) = r /\ (Tail(t) = <<>> => p = r)
             /\ t[Len(t)] = r[Len(r)]
             /\ Tail(t) # <<>> => Tail(t)[Len(Tail(t))] = t[Len(t)]
<1> DEFINE h == <<Head(t)>>
           p == Append(s, Head(t))
<1>1. /\ Head(t) \in Byte /\ Tail(t) \in Seq(Byte) /\ Len(Tail(t)) = Len(t) - 1
      /\ \A i \in 1 .. Len(Tail(t)) : Tail(t)[i] = t[i + 1]
  BY HeadTailProperties
<1>2. h \in Seq(Byte) /\ Len(h) = 1 /\ h[1] = Head(t) /\ Head(t) = t[1]
  BY <1>1
<1>3. Len(s) \in Nat /\ Len(t) \in Nat /\ Len(t) # 0
  BY EmptySeq
<1>4. h \o Tail(t) = t
  <2>1. /\ h \o Tail(t) \in Seq(Byte) /\ Len(h \o Tail(t)) = Len(h) + Len(Tail(t))
        /\ \A i \in 1 .. Len(h) + Len(Tail(t)) :
             (h \o Tail(t))[i] = IF i <= Len(h) THEN h[i] ELSE Tail(t)[i - Len(h)]
    <3>1. h \in Seq(Byte) /\ Tail(t) \in Seq(Byte)
      BY <1>1, <1>2
    <3> HIDE DEF h
    <3> QED BY <3>1, ConcatProperties, Zenon
  <2>2. Len(h \o Tail(t)) = Len(t)
    BY <1>1, <1>2, <1>3, <2>1
  <2>3. ASSUME NEW i \in 1 .. Len(t) PROVE (h \o Tail(t))[i] = t[i]
    BY <1>1, <1>2, <1>3, <2>1
  <2> QED BY <2>1, <2>2, <2>3, SeqEqual
<1>5. p = s \o h
  BY <1>1, AppendIsConcat
<1>6. p \o Tail(t) = s \o t
  <2>1. (s \o h) \o Tail(t) = s \o (h \o Tail(t))
    BY <1>1, <1>2, ConcatAssociative
  <2> QED BY <1>4, <1>5, <2>1
<1>7. p \in Seq(Byte) /\ Len(p) = Len(s) + 1
  BY <1>1, AppendProperties
<1>8. Tail(t) = <<>> => p = s \o t
  BY <1>6, <1>7, ConcatEmptySeq
<1>9. /\ Len(s \o t) = Len(s) + Len(t)
      /\ (s \o t)[Len(s) + Len(t)] = t[Len(t)]
  <2>1. /\ Len(s \o t) = Len(s) + Len(t)
        /\ \A i \in 1 .. Len(s) + Len(t) :
             (s \o t)[i] = IF i <= Len(s) THEN s[i] ELSE t[i - Len(s)]
    BY ConcatProperties
  <2> QED BY <1>3, <2>1
<1>10. Tail(t) # <<>> => Tail(t)[Len(Tail(t))] = t[Len(t)]
  <2>1. Tail(t) # <<>> => Len(Tail(t)) # 0
    BY <1>1, EmptySeq
  <2> QED BY <1>1, <1>3, <2>1
<1> HIDE DEF p
<1> QED BY <1>1, <1>3, <1>6, <1>7, <1>8, <1>9, <1>10 DEF p

LEMMA InitMouse == MouseAssumption /\ MouseInit => MInv
<1> SUFFICES ASSUME MouseAssumption, MouseInit PROVE MInv
    OBVIOUS
<1>1. MouseTypes
  <2>1. <<>> \in Seq(Byte) /\ Len(<<>>) = 0
    BY EmptySeq
  <2>2. PacketLimit \in {3, 4} /\ MaxX \in Nat
    BY DEF PacketLimit, MouseAssumption
  <2>3. toSend \in Seq(Byte) /\ packet \in Seq(Byte) /\ Len(packet) < PacketLimit
    BY <2>1, <2>2 DEF MouseInit
  <2>4. x \in Nat /\ cursor \in Nat /\ updatePc \in Steps
    BY <2>2 DEF MouseInit, Steps
  <2>5. /\ device \in BOOLEAN /\ left \in BOOLEAN /\ updated \in BOOLEAN
        /\ click \in BOOLEAN /\ prev \in BOOLEAN
    BY DEF MouseInit
  <2>6. /\ {scroll, delta} \subseteq Int /\ {presses, turned, clicks} \subseteq Nat
        /\ scrolled \in Int /\ lost \in Nat
    BY DEF MouseInit
  <2> QED BY <2>3, <2>4, <2>5, <2>6 DEF MouseTypes, MouseTypeOK
<1>2. Aligned /\ ClicksPaid /\ TicksPaid
  <2>1. Unseen = 0 /\ Coming = 0 /\ Held = 0
    BY DEF MouseInit, Unseen, Coming, Held
  <2>2. Owed = 0
    BY DEF MouseInit, Owed, Reading
  <2>3. Aligned
    BY DEF MouseInit, Aligned
  <2>4. ClicksPaid
    BY <2>1, <2>2 DEF MouseInit, ClicksPaid
  <2>5. TicksPaid
    BY <2>1 DEF MouseInit, TicksPaid
  <2> QED BY <2>3, <2>4, <2>5
<1> QED BY <1>1, <1>2 DEF MInv, MouseInit, OffScreenOnlyWhilePending, MouseTypes, MouseAssumption

(* mouse_handler takes the bytes in order, so that a whole packet is the   *)
(* report of the device.                                                   *)
LEMMA IrqKeeps ==
  ASSUME MouseAssumption, MInv, Irq
  PROVE  MInv'
<1> DEFINE p == Append(packet, Head(toSend))
           r == packet \o toSend
<1>1. /\ toSend # <<>> /\ toSend \in Seq(Byte) /\ packet \in Seq(Byte)
      /\ Len(packet) < PacketLimit /\ PacketLimit \in {3, 4} /\ (Imps2 <=> PacketLimit = 4)
      /\ Imps2 \in BOOLEAN
  BY DEF Irq, MInv, MouseTypes, MouseTypeOK, PacketLimit, MouseAssumption
<1>2. /\ p \in Seq(Byte) /\ Len(p) = Len(packet) + 1
      /\ Tail(toSend) \in Seq(Byte) /\ Len(Tail(toSend)) = Len(toSend) - 1
      /\ Len(r) = Len(packet) + Len(toSend) /\ Len(packet) \in Nat /\ Len(toSend) \in Nat
      /\ p \o Tail(toSend) = r /\ (Tail(toSend) = <<>> => p = r)
      /\ toSend[Len(toSend)] = r[Len(r)]
      /\ Tail(toSend) # <<>> => Tail(toSend)[Len(Tail(toSend))] = toSend[Len(toSend)]
  BY <1>1, OneByte
<1>3. Tail(toSend) = <<>> <=> Len(toSend) = 1
  <2>1. Len(<<>>) = 0 /\ \A q \in Seq(Byte) : q # <<>> => Len(q) \in Nat \ {0}
    BY EmptySeq
  <2> HIDE DEF p, r
  <2>2. Tail(toSend) \in Seq(Byte) /\ Len(Tail(toSend)) = Len(toSend) - 1 /\ Len(toSend) \in Nat
    BY <1>2
  <2>3. Tail(toSend) = <<>> => Len(Tail(toSend)) = 0
    BY <2>1
  <2>4. Tail(toSend) # <<>> => Len(Tail(toSend)) \in Nat \ {0}
    BY <2>1, <2>2
  <2> QED BY <2>2, <2>3, <2>4
<1>4. ASSUME Aligned
      PROVE  /\ Len(r) = PacketLimit /\ Bit(r[1], 1) = device /\ Bit(r[1], 8)
             /\ Imps2 => r[4] \in {0, 1}
  <2>1. PICK dx \in {-1, 0, 1}, ticks \in {0, 1} : r = Report(device, dx, ticks)
    BY <1>1, <1>4 DEF Aligned, NewReport
  <2>2. device \in BOOLEAN
    BY DEF MInv, MouseTypes, MouseTypeOK
  <2>3. LET q == Report(device, dx, ticks)
        IN  /\ Len(q) = PacketLimit /\ Bit(q[1], 1) = device /\ Bit(q[1], 8)
            /\ Imps2 => q[4] = ticks
    BY <2>2, ReportFacts
  <2> HIDE DEF r
  <2> QED BY <2>1, <2>3
<1>5. /\ toSend' = Tail(toSend)
      /\ UNCHANGED <<device, sent, lost, presses, turned, updatePc, click, delta, prev, cursor,
                     clicks, scrolled>>
  BY DEF Irq, update
<1>6. CASE /\ Len(p) < PacketLimit /\ packet' = p
           /\ UNCHANGED <<left, x, scroll, updated>>
  <2> HIDE DEF p, r
  <2>1. MouseTypes' /\ OffScreenOnlyWhilePending'
    BY <1>1, <1>2, <1>5, <1>6 DEF MInv, MouseTypes, MouseTypeOK, OffScreenOnlyWhilePending, PacketLimit
  <2>2. ASSUME lost = 0 PROVE Aligned' /\ ClicksPaid' /\ TicksPaid'
    <3>1. Aligned /\ ClicksPaid /\ TicksPaid
      BY <2>2 DEF MInv
    <3>2. toSend' # <<>>
      BY <1>2, <1>3, <1>4, <1>5, <1>6, <3>1
    <3>3. NewReport(r) /\ packet' \o toSend' = r
      BY <1>1, <1>2, <1>5, <1>6, <3>1 DEF Aligned, r
    <3>4. Aligned'
      BY <1>5, <3>2, <3>3 DEF Aligned, NewReport
    <3>5. Coming' = Coming
      BY <1>1, <1>2, <1>5, <3>2 DEF Coming
    <3>6. Unseen' = Unseen
      BY <1>1, <1>5, <1>6, <3>2 DEF Unseen
    <3>7. ClicksPaid' /\ TicksPaid'
      BY <1>5, <1>6, <3>1, <3>5, <3>6 DEF ClicksPaid, TicksPaid, Owed, Held
    <3> QED BY <3>4, <3>7
  <2> QED BY <1>5, <2>1, <2>2 DEF MInv
<1>7. CASE /\ Len(p) >= PacketLimit /\ packet' = <<>>
           /\ ~Bit(p[1], 8) /\ UNCHANGED <<left, x, scroll, updated>>
  <2> HIDE DEF p, r
  <2>1. MouseTypes' /\ OffScreenOnlyWhilePending'
    BY <1>1, <1>2, <1>5, <1>7 DEF MInv, MouseTypes, MouseTypeOK, OffScreenOnlyWhilePending, PacketLimit
  <2>2. ASSUME lost = 0 PROVE FALSE
    <3>1. Aligned
      BY <2>2 DEF MInv
    <3> QED BY <1>1, <1>2, <1>3, <1>4, <1>7, <3>1
  <2> QED BY <1>5, <2>1, <2>2 DEF MInv
<1>8. CASE /\ Len(p) >= PacketLimit /\ packet' = <<>>
           /\ left' = Bit(p[1], 1) /\ x' = ClampLow(x + Moved(p))
           /\ scroll' = scroll + Ticks(p) /\ updated' = (updated \/ IsUpdate(p))
  <2> HIDE DEF p, r
  <2>1. p[2] \in Int /\ (Imps2 => p[4] \in Int)
    <3>1. Len(p) \in Nat /\ 2 \in 1 .. Len(p) /\ (Imps2 => 4 \in 1 .. Len(p))
      BY <1>1, <1>2, <1>8
    <3>2. \A i \in 1 .. Len(p) : p[i] \in Byte
      BY <1>2
    <3>3. p[2] \in Byte
      BY <3>1, <3>2
    <3>4. Imps2 => p[4] \in Byte
      BY <3>1, <3>2
    <3> QED BY <3>3, <3>4 DEF Byte
  <2>2. x' \in Nat /\ scroll' \in Int /\ left' \in BOOLEAN /\ updated' = TRUE
    <3>1. Moved(p) \in Int /\ Ticks(p) \in Int
      BY <1>1, <2>1 DEF Moved, Ticks, Wheel
    <3>2. x \in Nat /\ scroll \in Int /\ updated \in BOOLEAN
      BY DEF MInv, MouseTypes, MouseTypeOK
    <3>3. x' \in Nat /\ scroll' \in Int
      BY <1>8, <3>1, <3>2 DEF ClampLow
    <3>4. left' \in BOOLEAN
      BY <1>8 DEF Bit
    <3>5. updated' = TRUE
      BY <1>8, <3>2 DEF IsUpdate
    <3> QED BY <3>3, <3>4, <3>5
  <2>3. MouseTypes' /\ OffScreenOnlyWhilePending'
    BY <1>1, <1>2, <1>5, <1>8, <2>2
       DEF MInv, MouseTypes, MouseTypeOK, OffScreenOnlyWhilePending, PacketLimit
  <2>4. ASSUME lost = 0 PROVE Aligned' /\ ClicksPaid' /\ TicksPaid'
    <3>1. Aligned /\ ClicksPaid /\ TicksPaid
      BY <2>4 DEF MInv
    <3>2. toSend' = <<>> /\ p = r
      BY SMTT(60), <1>1, <1>2, <1>3, <1>4, <1>5, <1>8, <3>1
    <3>3. left' = device
      BY <1>4, <1>8, <3>1, <3>2
    <3>4. Aligned'
      BY <1>5, <1>8, <3>2, <3>3 DEF Aligned
    <3>5. Ticks(p) = Coming
      <4>1. Imps2 => p[4] \in {0, 1} /\ Coming = p[4]
        BY <1>1, <1>2, <1>4, <3>1, <3>2 DEF Coming
      <4>2. ~Imps2 => Coming = 0
        BY DEF Coming
      <4> QED BY <1>1, <4>1, <4>2 DEF Ticks, Wheel
    <3>6. Coming' = 0 /\ Unseen' = 0
      BY <3>2 DEF Coming, Unseen
    <3>7. /\ {scroll, delta, scrolled, Coming, turned} \subseteq Int
          /\ {clicks, presses} \subseteq Int /\ left \in BOOLEAN /\ device \in BOOLEAN
          /\ prev \in BOOLEAN
      <4>1. Ticks(p) \in Int
        BY <1>1, <2>1 DEF Ticks, Wheel
      <4> QED BY <3>5, <4>1 DEF MInv, MouseTypes, MouseTypeOK
    <3>8. TicksPaid'
      <4>1. Coming >= 0
        BY <1>1, <1>2, <1>4, <3>1 DEF Coming
      <4>2. scroll' = scroll + Coming /\ UNCHANGED <<updatePc, delta, scrolled, turned>>
        BY <1>5, <1>8, <3>5
      <4> QED BY <3>1, <3>6, <3>7, <4>1, <4>2 DEF TicksPaid, Held
    <3>9. ClicksPaid'
      <4>1. Unseen = IF device /\ ~left THEN 1 ELSE 0
        BY <1>1 DEF Unseen
      <4> QED BY <1>5, <3>1, <3>3, <3>6, <3>7, <4>1 DEF ClicksPaid, Owed
    <3> QED BY <3>4, <3>8, <3>9
  <2> QED BY <1>5, <2>3, <2>4 DEF MInv
<1> QED BY <1>6, <1>7, <1>8 DEF Irq

(* The device queues a report when the last one has gone.                  *)
LEMMA MoveKeeps ==
  ASSUME MouseAssumption, MInv, NEW b \in BOOLEAN, NEW dx \in {-1, 0, 1}, NEW t \in {0, 1},
         Move(b, dx, t)
  PROVE  MInv'
<1> DEFINE r == Report(b, dx, t)
<1>1. r \in Seq(Byte) /\ Len(r) = PacketLimit /\ (Imps2 => r[4] = t)
  BY ReportFacts
<1>2. PacketLimit \in {3, 4} /\ (Imps2 <=> PacketLimit = 4) /\ Imps2 \in BOOLEAN
  BY DEF PacketLimit, MouseAssumption
<1>3. r # <<>>
  BY <1>1, <1>2, EmptySeq
<1> HIDE DEF r
<1>4. /\ toSend = <<>> /\ toSend' = r /\ device' = b
      /\ presses' = presses + (IF b /\ ~device THEN 1 ELSE 0) /\ turned' = turned + t
      /\ UNCHANGED <<lost, packet, left, x, scroll, updated, updatePc, click, delta, prev, cursor,
                     clicks, scrolled>>
  BY DEF Move, shared, update, r
<1>5. MouseTypes' /\ OffScreenOnlyWhilePending'
  BY <1>1, <1>4 DEF MInv, MouseTypes, MouseTypeOK, OffScreenOnlyWhilePending
<1>6. ASSUME lost = 0 PROVE Aligned' /\ ClicksPaid' /\ TicksPaid'
  <2>1. Aligned /\ ClicksPaid /\ TicksPaid
    BY <1>6 DEF MInv
  <2>2. packet = <<>> /\ left = device
    BY <1>4, <2>1 DEF Aligned
  <2>3. <<>> \o r = r
    BY <1>1, ConcatEmptySeq
  <2>4. packet' \o toSend' = Report(b, dx, t)
    BY <1>4, <2>2, <2>3 DEF r
  <2>5. Aligned'
    BY <1>3, <1>4, <2>4 DEF Aligned, NewReport
  <2>6. /\ Coming = 0 /\ Unseen = 0 /\ Coming' = (IF Imps2 THEN t ELSE 0)
        /\ Unseen' = (IF b /\ ~left THEN 1 ELSE 0)
    BY <1>1, <1>2, <1>3, <1>4 DEF Coming, Unseen
  <2>7. /\ {scroll, delta, scrolled, turned} \subseteq Int
        /\ {clicks, presses} \subseteq Int
    BY DEF MInv, MouseTypes, MouseTypeOK
  <2>8. Held' = Held /\ Owed' = Owed /\ Held \in Int /\ Owed \in {0, 1}
    BY <1>4, <2>7 DEF Held, Owed
  <2>9. ClicksPaid'
    BY <1>4, <2>1, <2>2, <2>6, <2>7, <2>8 DEF ClicksPaid
  <2>10. TicksPaid'
    BY <1>4, <2>1, <2>6, <2>7, <2>8 DEF TicksPaid
  <2> QED BY <2>5, <2>9, <2>10
<1> QED BY <1>4, <1>5, <1>6 DEF MInv

LEMMA ComingIsNat == MInv => Coming \in Nat
<1> SUFFICES ASSUME MInv, toSend # <<>> PROVE toSend[Len(toSend)] \in Nat
    BY DEF Coming
<1>1. toSend \in Seq(Byte)
  BY DEF MInv, MouseTypes, MouseTypeOK
<1>2. Len(toSend) \in Nat \ {0}
  BY <1>1, EmptySeq
<1>3. \A i \in 1 .. Len(toSend) : toSend[i] \in Byte
  BY <1>1
<1>4. Len(toSend) \in 1 .. Len(toSend)
  BY <1>2
<1>5. toSend[Len(toSend)] \in Byte
  BY <1>3, <1>4, Zenon
<1>6. \A b \in Byte : b \in Nat
  BY DEF Byte
<1> QED BY <1>5, <1>6, Zenon

(* What mouse_update does between the interrupts.                          *)
LEMMA UpdateKeeps ==
  ASSUME MouseAssumption, MInv, Update \/ Redraw
  PROVE  MInv'
<1>1. /\ UNCHANGED <<toSend, device, presses, turned, lost, packet, left>>
  BY DEF Update, Test, Clear, TestLimit, Clamp, ReadButtons, ReadScroll, ZeroScroll, Handle, Draw,
         SavePrevious, UpdateReturns, Redraw, wire, shared
<1>2. /\ {scroll, delta, scrolled, turned, clicks, presses} \subseteq Int
      /\ x \in Nat /\ cursor \in Nat /\ MaxX \in Nat /\ clicks \in Nat
      /\ {left, updated, click, prev} \subseteq BOOLEAN
  BY DEF MInv, MouseTypes, MouseTypeOK, MouseAssumption
<1>3. /\ updatePc' \in Steps /\ x' \in Nat /\ cursor' \in Nat /\ clicks' \in Nat
      /\ {updated', click', prev'} \subseteq BOOLEAN /\ {scroll', delta', scrolled'} \subseteq Int
  <2>1. CASE Test \/ Clear \/ TestLimit \/ Clamp \/ ReadButtons
    BY <1>2, <2>1 DEF Test, Clear, TestLimit, Clamp, ReadButtons, At, Clears, Steps, shared
  <2>2. CASE ReadScroll \/ ZeroScroll \/ Handle
    BY <1>2, <2>2 DEF ReadScroll, ZeroScroll, ScrollReset, Handle, At, Steps, shared
  <2>3. CASE Draw \/ SavePrevious \/ UpdateReturns \/ Redraw
    BY <1>1, <1>2, <2>3 DEF Draw, SavePrevious, NextPrev, UpdateReturns, Redraw, At, Clears,
                                 Steps, shared
  <2> QED BY <2>1, <2>2, <2>3 DEF Update
<1>4. MouseTypes'
  BY <1>1, <1>3 DEF MInv, MouseTypes, MouseTypeOK
<1>5. OffScreenOnlyWhilePending'
  <2>1. /\ x > MaxX => updated \/ updatePc \in {"clear", "clamp", "limit"}
        /\ cursor > MaxX /\ updatePc \in {"test", "previous", "done"} => updated
    BY DEF MInv, OffScreenOnlyWhilePending
  <2>2. CASE Test \/ TestLimit \/ ReadButtons
    BY <1>2, <1>4, <2>1, <2>2 DEF Test, TestLimit, ReadButtons, At, shared, OffScreenOnlyWhilePending,
         MouseTypes
  <2>5. CASE Clear
    BY <1>2, <1>4, <2>1, <2>5 DEF Clear, At, OffScreenOnlyWhilePending, MouseTypes
  <2>6. CASE Clamp
    <3>1. x' <= MaxX
      BY <1>2, <2>6 DEF Clamp
    <3> QED BY <1>2, <1>4, <2>6, <3>1 DEF Clamp, At, OffScreenOnlyWhilePending, MouseTypes
  <2>3. CASE ReadScroll \/ ZeroScroll \/ Handle
    BY <1>2, <1>4, <2>1, <2>3 DEF ReadScroll, ZeroScroll, Handle, At, shared,
         OffScreenOnlyWhilePending, MouseTypes
  <2>4. CASE Draw \/ SavePrevious \/ UpdateReturns \/ Redraw
    BY <1>2, <1>4, <2>1, <2>4 DEF Draw, SavePrevious, UpdateReturns, Redraw, At, Clears,
                                      ClearedAt,
         shared, OffScreenOnlyWhilePending, MouseTypes
  <2> QED BY <2>2, <2>3, <2>4, <2>5, <2>6 DEF Update
<1>6. ASSUME lost = 0 PROVE Aligned' /\ ClicksPaid' /\ TicksPaid'
  <2>1. Aligned /\ ClicksPaid /\ TicksPaid
    BY <1>6 DEF MInv
  <2>2. Aligned'
    BY <1>1, <2>1 DEF Aligned, NewReport
  <2>3. Coming' = Coming /\ Unseen' = Unseen
    BY <1>1 DEF Coming, Unseen
  <2>4. Unseen \in {0, 1} /\ clicks + Owed + Unseen <= presses /\ updatePc \in Steps
    BY <2>1 DEF Unseen, ClicksPaid, MInv, MouseTypes
  <2>5. ClicksPaid'
    <3>1. CASE Test \/ Clear \/ TestLimit \/ Clamp \/ UpdateReturns \/ Redraw
      <4>1. Owed' = Owed /\ clicks' = clicks
        BY <1>1, <3>1 DEF Test, Clear, TestLimit, Clamp, UpdateReturns, Redraw, At, Owed, Reading, shared
      <4> QED BY <1>1, <2>3, <2>4, <4>1 DEF ClicksPaid
    <3>2. CASE ReadButtons
      <4>1. Owed' = Owed /\ clicks' = clicks
        BY <1>1, <1>2, <3>2 DEF ReadButtons, At, Owed, Reading, shared
      <4> QED BY <1>1, <2>3, <2>4, <4>1 DEF ClicksPaid
    <3>3. CASE ReadScroll \/ ZeroScroll
      <4>1. Owed' = Owed /\ clicks' = clicks
        BY <1>1, <3>3 DEF ReadScroll, ZeroScroll, At, Owed, Reading, shared
      <4> QED BY <1>1, <2>3, <2>4, <4>1 DEF ClicksPaid
    <3>4. CASE Handle
      <4>1. Owed' = 0 /\ clicks' = clicks + Owed
        BY <1>2, <3>4 DEF Handle, At, Owed, Reading
      <4> QED BY <1>1, <1>2, <2>3, <2>4, <4>1 DEF ClicksPaid
    <3>5. CASE Draw \/ SavePrevious
      <4>1. Owed' = 0 /\ clicks' = clicks /\ Owed = 0
        BY <1>1, <1>2, <3>5 DEF Draw, SavePrevious, NextPrev, At, Owed, Reading
      <4> QED BY <1>1, <1>2, <2>3, <2>4, <4>1 DEF ClicksPaid
    <3> QED BY <3>1, <3>2, <3>3, <3>4, <3>5 DEF Update
  <2>6. /\ scrolled + scroll + Held + Coming <= turned
        /\ updatePc = "zero" => delta <= scroll
        /\ Coming \in Int /\ Held \in Int
    BY <1>2, <2>1, ComingIsNat DEF TicksPaid, Held
  <2>7. TicksPaid'
    <3>1. CASE ZeroScroll
      BY <1>1, <1>2, <2>3, <2>6, <3>1 DEF ZeroScroll, ScrollReset, At, Held, TicksPaid
    <3>2. CASE Handle
      BY <1>1, <1>2, <2>3, <2>6, <3>2 DEF Handle, At, Held, TicksPaid, shared
    <3>3. CASE ReadScroll
      BY <1>1, <1>2, <2>3, <2>6, <3>3 DEF ReadScroll, At, Held, TicksPaid, shared
    <3>4. CASE Test \/ Clear \/ TestLimit \/ Clamp \/ ReadButtons
      BY <1>1, <1>2, <2>3, <2>6, <3>4
         DEF Test, Clear, TestLimit, Clamp, ReadButtons, At, Held, TicksPaid, shared
    <3>5. CASE Draw \/ SavePrevious \/ UpdateReturns \/ Redraw
      BY <1>1, <1>2, <2>3, <2>6, <3>5
         DEF Draw, SavePrevious, UpdateReturns, Redraw, At, Held, TicksPaid, shared
    <3> QED BY <3>1, <3>2, <3>3, <3>4, <3>5 DEF Update
  <2> QED BY <2>2, <2>5, <2>7
<1> QED BY <1>1, <1>4, <1>5, <1>6 DEF MInv

LEMMA NextMouse ==
  ASSUME MouseAssumption, MInv, [MouseNext]_mouseVars
  PROVE  MInv'
<1>1. ASSUME NEW button \in BOOLEAN, NEW dx \in {-1, 0, 1}, NEW ticks \in {0, 1},
             Move(button, dx, ticks)
      PROVE  MInv'
  BY <1>1, MoveKeeps
<1>2. CASE LoseByte
  <2>1. /\ lost' = lost + 1 /\ lost \in Nat
        /\ UNCHANGED <<device, presses, turned, packet, left, x, scroll, updated, updatePc, click,
                       delta, prev, cursor, clicks, scrolled>>
    BY <1>2 DEF LoseByte, shared, update, MInv, MouseTypes
  <2>2. toSend' \in Seq(Byte)
    BY <1>2, HeadTailProperties DEF LoseByte, MInv, MouseTypes, MouseTypeOK
  <2>3. MouseTypes' /\ OffScreenOnlyWhilePending'
    BY <2>1, <2>2 DEF MInv, MouseTypes, MouseTypeOK, OffScreenOnlyWhilePending, PacketLimit
  <2> QED BY <2>1, <2>3 DEF MInv
<1>3. CASE Irq
  BY <1>3, IrqKeeps
<1>4. CASE Update \/ Redraw
  BY <1>4, UpdateKeeps
<1>5. CASE UNCHANGED mouseVars
  <2>1. UNCHANGED <<toSend, device, lost, presses, turned, packet, left, x, scroll, updated, updatePc,
                    click, delta, prev, cursor, clicks, scrolled>>
    BY <1>5 DEF mouseVars, wire, shared, update
  <2>2. MouseTypes' /\ OffScreenOnlyWhilePending'
    BY <2>1 DEF MInv, MouseTypes, MouseTypeOK, OffScreenOnlyWhilePending, PacketLimit
  <2>3. Aligned => Aligned'
    BY <2>1 DEF Aligned, NewReport
  <2>4. ClicksPaid => ClicksPaid'
    BY <2>1 DEF ClicksPaid, Owed, Unseen
  <2>5. TicksPaid => TicksPaid'
    BY <2>1 DEF TicksPaid, Coming, Held
  <2> QED BY <2>1, <2>2, <2>3, <2>4, <2>5 DEF MInv
<1> QED BY <1>1, <1>2, <1>3, <1>4, <1>5 DEF MouseNext

LEMMA MouseKeepsMInv ==
  ASSUME MouseAssumption
  PROVE  MouseSpec => []MInv
<1>1. MouseInit => MInv
  BY InitMouse
<1>2. MInv /\ [MouseNext]_mouseVars => MInv'
  BY NextMouse
<1> QED BY <1>1, <1>2, PTL DEF MouseSpec

(* Without a lost byte the desktop is told of no click that the user did   *)
(* not make, whatever interrupts mouse_update between reading the button   *)
(* for the click and saving it.                                            *)
THEOREM ClicksAreReal ==
  ASSUME MouseAssumption
  PROVE  MouseSpec => []NoPhantomClick
<1>1. MInv => NoPhantomClick
  BY SMTT(60) DEF MInv, NoPhantomClick, ClicksPaid, Owed, Unseen, MouseTypes, MouseTypeOK
<1> QED BY <1>1, MouseKeepsMInv, PTL

(* No tick of the wheel is counted twice, though mouse_update reads and    *)
(* resets the count in two steps.                                          *)
THEOREM TicksAreReal ==
  ASSUME MouseAssumption
  PROVE  MouseSpec => []ScrollNotInvented
<1>1. MInv => ScrollNotInvented
  <2> SUFFICES ASSUME MInv, lost = 0
               PROVE  scrolled + scroll + Held <= turned
    BY DEF ScrollNotInvented, Held
  <2>1. TicksPaid /\ Aligned
    BY DEF MInv
  <2>2. {scroll, delta, scrolled, turned} \subseteq Int
    BY DEF MInv, MouseTypes, MouseTypeOK
  <2>3. Coming \in Nat
    BY ComingIsNat
  <2> QED BY <2>1, <2>2, <2>3 DEF TicksPaid, Held
<1> QED BY <1>1, MouseKeepsMInv, PTL

(* The state or the cursor is past the edge of the screen only until the   *)
(* pending update is handled: mouse_update clears the flag before it reads *)
(* the state.                                                              *)
THEOREM OffScreenIsPending ==
  ASSUME MouseAssumption
  PROVE  MouseSpec => []OffScreenOnlyWhilePending
<1>1. MInv => OffScreenOnlyWhilePending
  BY DEF MInv
<1> QED BY <1>1, MouseKeepsMInv, PTL
=============================================================================
