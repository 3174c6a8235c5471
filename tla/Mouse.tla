-------------------------------- MODULE Mouse --------------------------------
(***************************************************************************)
(* The PS/2 mouse (mouse.c): mouse_handler, an interrupt, assembles packets*)
(* byte by byte and updates the state; mouse_update, called by the main    *)
(* loop with interrupts enabled, turns the state into clicks, scrolling and*)
(* a cursor on the screen.  There is no lock between them.  One axis and   *)
(* one button are modelled: y is treated like x, right like left.          *)
(***************************************************************************)
EXTENDS Integers, Sequences

CONSTANTS MaxX,        \* width - CURSOR_WIDTH
          Imps2,       \* is_imps2: packets have a fourth byte, the wheel's
          MaxPackets,  \* bound on the reports of the device
          MaxLost      \* bound on the bytes that never reach the handler

ASSUME MouseAssumption ==
  /\ MaxX \in Nat \ {0} /\ Imps2 \in BOOLEAN
  /\ MaxPackets \in Nat /\ MaxLost \in Nat

VARIABLES toSend,      \* the bytes of a report the device has not sent yet
          device,      \* the button as the device last reported it
          packet,      \* mouse_packet[0 .. mouse_cycle - 1]
          left, x, scroll,          \* g_mouse_state
          updated,                  \* g_mouse_updated
          updatePc, click, delta,   \* mouse_update: where it is, its locals
          prev, cursor,             \* previous_left_button, cursor_x
          sent, lost, presses, turned,  \* history: what the device did
          clicks, scrolled              \* history: what the desktop was told

wire   == <<toSend, device, sent, lost, presses, turned>>
shared == <<packet, left, x, scroll, updated>>
update == <<updatePc, click, delta, prev, cursor, clicks, scrolled>>
mouseVars == <<wire, shared, update>>

Byte == 0 .. 255

MouseInit ==
  /\ toSend = << >> /\ device = FALSE
  /\ packet = << >> /\ left = FALSE /\ x = MaxX /\ scroll = 0 /\ updated = FALSE
  /\ updatePc = "test" /\ click = FALSE /\ delta = 0 /\ prev = FALSE /\ cursor = MaxX
  /\ sent = 0 /\ lost = 0 /\ presses = 0 /\ turned = 0 /\ clicks = 0 /\ scrolled = 0

-----------------------------------------------------------------------------
(* The device: a report is a head with bit 3 set, the button in bit 0 and  *)
(* the sign of the movement in bit 4, the two movements and the wheel.     *)

Report(button, dx, ticks) ==
  LET head == 8 + (IF button THEN 1 ELSE 0) + (IF dx < 0 THEN 16 ELSE 0)
  IN  <<head, dx % 256, 0>> \o (IF Imps2 THEN <<ticks>> ELSE << >>)

Move(button, dx, ticks) ==
  /\ toSend = << >> /\ sent < MaxPackets /\ sent' = sent + 1
  /\ toSend' = Report(button, dx, ticks)
  /\ device' = button
  /\ presses' = presses + (IF button /\ ~device THEN 1 ELSE 0)
  /\ turned' = turned + ticks
  /\ UNCHANGED <<lost, shared, update>>

(* The controller drops a byte that comes before the last one was read.    *)
LoseByte ==
  /\ toSend # << >> /\ lost < MaxLost
  /\ toSend' = Tail(toSend) /\ lost' = lost + 1
  /\ UNCHANGED <<device, sent, presses, turned, shared, update>>

-----------------------------------------------------------------------------
(* mouse_handler; interrupts are disabled while it runs.                   *)

Bit(byte, mask) == (byte \div mask) % 2 = 1
Moved(p) == p[2] - (IF Bit(p[1], 16) THEN 256 ELSE 0)
Wheel(p) == LET w == p[4] % 16 IN IF w >= 8 THEN w - 16 ELSE w
Ticks(p) == IF Imps2 THEN Wheel(p) ELSE 0

PacketLimit == IF Imps2 THEN 4 ELSE 3

ClampLow(v) == IF v < 0 THEN 0 ELSE v

IsUpdate_Moved(p) == Moved(p) # 0            \* mutant: only a movement counts
IsUpdate(p) == TRUE

Irq ==
  /\ toSend # << >> /\ toSend' = Tail(toSend)
  /\ LET p == Append(packet, Head(toSend)) IN
     \/ /\ Len(p) < PacketLimit /\ packet' = p
        /\ UNCHANGED <<left, x, scroll, updated>>
     \/ /\ Len(p) >= PacketLimit /\ ~Bit(p[1], 8)
        /\ packet' = << >>
        /\ UNCHANGED <<left, x, scroll, updated>>
     \/ /\ Len(p) >= PacketLimit /\ Bit(p[1], 8)
        /\ packet' = << >>
        /\ left' = Bit(p[1], 1)
        /\ x' = ClampLow(x + Moved(p))
        /\ scroll' = scroll + Ticks(p)
        /\ updated' = (updated \/ IsUpdate(p))
  /\ UNCHANGED <<device, sent, lost, presses, turned, update>>

-----------------------------------------------------------------------------
(* mouse_update: its reads and writes of the shared state in the order of  *)
(* the source; an interrupt may come between any two.                      *)

At(here, there) == updatePc = here /\ updatePc' = there

Test ==
  /\ At("test", "clear") /\ updated
  /\ UNCHANGED <<wire, shared, click, delta, prev, cursor, clicks, scrolled>>

(* The flag is cleared before the state is read.                           *)
ClearedAt_End == "done"                      \* mutant: cleared after the work
ClearedAt == "clear"
Clears == updated' = IF updatePc = ClearedAt THEN FALSE ELSE updated

Clear ==
  /\ At("clear", "clamp") /\ Clears
  /\ UNCHANGED <<wire, packet, left, x, scroll, click, delta, prev, cursor, clicks, scrolled>>

(* A movement between the test and the write of the limit is lost.         *)
TestLimit ==
  /\ \/ At("clamp", "limit") /\ x > MaxX
     \/ At("clamp", "buttons") /\ ~(x > MaxX)
  /\ UNCHANGED <<wire, shared, click, delta, prev, cursor, clicks, scrolled>>

Clamp ==
  /\ At("limit", "buttons")
  /\ x' = MaxX
  /\ UNCHANGED <<wire, packet, left, scroll, updated, click, delta, prev, cursor, clicks, scrolled>>

ReadButtons ==
  /\ At("buttons", "scroll")
  /\ click' = (left /\ ~prev)
  /\ UNCHANGED <<wire, shared, delta, prev, cursor, clicks, scrolled>>

ReadScroll ==
  /\ At("scroll", "zero")
  /\ delta' = scroll
  /\ UNCHANGED <<wire, shared, click, prev, cursor, clicks, scrolled>>

ScrollReset_Kept == scroll                   \* mutant: scroll is not reset
ScrollReset == 0

ZeroScroll ==
  /\ At("zero", "handle")
  /\ scroll' = ScrollReset
  /\ UNCHANGED <<wire, packet, left, x, updated, click, delta, prev, cursor, clicks, scrolled>>

(* desktop_handle_click, desktop_handle_pointer and desktop_handle_scroll. *)
Handle ==
  /\ At("handle", "draw")
  /\ clicks' = clicks + (IF click THEN 1 ELSE 0)
  /\ scrolled' = scrolled + delta
  /\ UNCHANGED <<wire, shared, click, delta, prev, cursor>>

Draw ==
  /\ At("draw", "previous")
  /\ cursor' = x
  /\ UNCHANGED <<wire, shared, click, delta, prev, clicks, scrolled>>

NextPrev_Kept == prev                        \* mutant: the buttons are not saved
NextPrev == left

SavePrevious ==
  /\ At("previous", "done")
  /\ prev' = NextPrev
  /\ UNCHANGED <<wire, shared, click, delta, cursor, clicks, scrolled>>

UpdateReturns ==
  /\ At("done", "test") /\ Clears
  /\ UNCHANGED <<wire, packet, left, x, scroll, click, delta, prev, cursor, clicks, scrolled>>

Update ==
  \/ Test \/ Clear \/ TestLimit \/ Clamp \/ ReadButtons
  \/ ReadScroll \/ ZeroScroll \/ Handle \/ Draw \/ SavePrevious \/ UpdateReturns

(* The main loop draws the desktop again for a key: the cursor too.        *)
Redraw ==
  /\ updatePc = "test" /\ cursor' = x
  /\ UNCHANGED <<wire, shared, updatePc, click, delta, prev, clicks, scrolled>>

MouseNext ==
  \/ \E button \in BOOLEAN, dx \in {-1, 0, 1}, ticks \in {0, 1} : Move(button, dx, ticks)
  \/ LoseByte \/ Irq \/ Update \/ Redraw

(* The timer wakes the main loop from hlt 1000 times a second, so it polls *)
(* for ever; the device owes nothing.                                      *)
MouseSpec == MouseInit /\ [][MouseNext]_mouseVars /\ WF_mouseVars(Update)

-----------------------------------------------------------------------------
(* The types, checked as a part of OffScreenOnlyWhilePending.              *)
MouseTypeOK ==
  /\ toSend \in Seq(Byte) /\ packet \in Seq(Byte) /\ Len(packet) < PacketLimit
  /\ device \in BOOLEAN /\ left \in BOOLEAN /\ updated \in BOOLEAN
  /\ click \in BOOLEAN /\ prev \in BOOLEAN
  /\ x \in Nat /\ cursor \in Nat /\ {scroll, delta} \subseteq Int
  /\ {presses, turned, clicks} \subseteq Nat /\ scrolled \in Int

(* No click comes of nothing: the desktop is told of at most one click for *)
(* every press of the button.                                              *)
NoPhantomClick == lost = 0 => clicks <= presses

(* An interrupt between reading the wheel and resetting it may lose a tick,*)
(* but a tick is never counted twice.                                      *)
ScrollNotInvented ==
  lost = 0 => scrolled + scroll + (IF updatePc = "handle" THEN delta ELSE 0) <= turned

(* A movement that comes between the clamp and the drawing puts the state, *)
(* or the cursor, past the edge of the screen, only until the pending      *)
(* update is handled.                                                      *)
OffScreenOnlyWhilePending ==
  /\ MouseTypeOK
  /\ x > MaxX => updated \/ updatePc \in {"clear", "clamp", "limit"}
  /\ cursor > MaxX /\ updatePc \in {"test", "previous", "done"} => updated

(* When the mouse falls silent (it does: its reports are bounded) the last *)
(* state is the one on the screen and no change is left unhandled.         *)
Settles == <>[](updatePc = "test" /\ ~updated /\ cursor = x /\ prev = left)
=============================================================================
