------------------------------ MODULE Desktop ------------------------------
(***************************************************************************)
(* The loop of kernel_main: mouse_update hands clicks, drags and the wheel *)
(* to every window (desktop.c), then the keys of the keyboard buffer go to *)
(* the shell (maxbash.c).  The mouse and the keyboard interrupt it         *)
(* anywhere; mouse_update reads the button and the position where the      *)
(* source reads them.  The file manager and the editor, which hold their   *)
(* windows in the same way, are in FileApps; Mouse has the packets.        *)
(***************************************************************************)
EXTENDS KeyboardRing, Windows

CONSTANTS Names, Shell,        \* the windows, and the one of the shell
          Place,               \* where each window is at first
          Opener,              \* the column of its button in the task bar
          PowerColumn,         \* the column of the power button
          CommandMax,          \* COMMAND_MAX
          HistoryMax,          \* HISTORY_MAX
          ClearWord,           \* the characters of "clear"
          Enter, Backspace,    \* these two keys
          Printable,           \* the keys with a character in 32 .. 126
          Wheel                \* what the wheel may have turned

ASSUME ShellAssumption == Shell \in Names

VARIABLES at,                  \* where the loop is
          mouse, left, updated,\* the state mouse_handler keeps
          click, prev,         \* left_click and previous_left_button
          command,             \* command, command_length
          lines, scroll        \* history_count, scroll_offset

hand   == <<mouse, left, updated>>
update == <<click, prev>>
shell  == <<command, lines, scroll>>
desktopvars == <<vars, win, at, hand, update, shell>>

Cells == [x : 0 .. ScreenW, y : 0 .. ScreenH]   \* the last of each is off screen

DesktopInit ==
  /\ Init
  /\ win = [n \in Names |-> Closed(Place[n])]
  /\ at = "mouse"
  /\ mouse = [x |-> ScreenW \div 2, y |-> ScreenH \div 2]
  /\ left = FALSE /\ updated = FALSE /\ click = FALSE /\ prev = FALSE
  /\ command = <<>> /\ lines = 0 /\ scroll = 0

-----------------------------------------------------------------------------
(* Interrupts.                                                             *)

Packet(p, button) ==
  /\ mouse' = p /\ left' = button /\ updated' = TRUE
  /\ UNCHANGED <<vars, win, at, update, shell>>

Key ==
  /\ ShiftKey \/ CapsKey \/ \E k \in Keys : Press(k)
  /\ UNCHANGED <<win, at, hand, update, shell>>

-----------------------------------------------------------------------------
(* mouse_update.                                                           *)

Goes(here, there) == at = here /\ at' = there

NothingNew ==
  /\ Goes("mouse", "keys")
  /\ ~updated
  /\ UNCHANGED <<vars, win, hand, update, shell>>

Begin ==
  /\ Goes("mouse", "click")
  /\ updated
  /\ updated' = FALSE
  /\ mouse' = [x |-> Between(mouse.x, 0, ScreenW - 1),
               y |-> Between(mouse.y, 0, ScreenH - 1)]
  /\ click' = (left /\ ~prev)
  /\ UNCHANGED <<vars, win, left, prev, shell>>

OnBar(column) == mouse.y <= BarRow /\ mouse.x = column

NotClicked ==
  /\ Goes("click", "pointer")
  /\ ~click
  /\ UNCHANGED <<vars, win, hand, update, shell>>

OpenFromBar(n) ==
  /\ Goes("click", "pointer")
  /\ click /\ OnBar(Opener[n])
  /\ win' = [win EXCEPT ![n] = Opened(@)]
  /\ UNCHANGED <<vars, hand, update, shell>>

(* power_shutdown does not return.                                         *)
PowerOff ==
  /\ Goes("click", "off")
  /\ click /\ OnBar(PowerColumn)
  /\ UNCHANGED <<vars, win, hand, update, shell>>

(* Every window is given the click, also one under another.                *)
ClickWindows ==
  /\ Goes("click", "pointer")
  /\ click /\ ~OnBar(PowerColumn) /\ \A n \in Names : ~OnBar(Opener[n])
  /\ win' = [n \in Names |-> Clicked(win[n], mouse)]
  /\ UNCHANGED <<vars, hand, update, shell>>

MaxScroll == IF lines > 1 THEN lines - 1 ELSE 0

Scrolled(d) == IF ~win[Shell].open \/ d = 0 THEN scroll
               ELSE Between(scroll + d, 0, MaxScroll)

(* desktop_handle_pointer and desktop_handle_scroll; the position and the  *)
(* button are read again.                                                  *)
Pointer(d) ==
  /\ Goes("pointer", "save")
  /\ win' = [n \in Names |-> Dragged(win[n], mouse, left, click)]
  /\ scroll' = Scrolled(d)
  /\ UNCHANGED <<vars, hand, update, command, lines>>

(* The buttons are read once more.                                         *)
SavePrevious ==
  /\ Goes("save", "keys")
  /\ prev' = left
  /\ UNCHANGED <<vars, win, hand, click, shell>>

MouseUpdate ==
  \/ NothingNew \/ Begin \/ NotClicked \/ PowerOff \/ ClickWindows
  \/ (\E n \in Names : OpenFromBar(n)) \/ (\E d \in Wheel : Pointer(d)) \/ SavePrevious

-----------------------------------------------------------------------------
(* The keys.                                                               *)

GetChar ==
  /\ at = "keys"
  /\ Get
  /\ at' = IF pc = "advance" THEN "key" ELSE at
  /\ UNCHANGED <<win, hand, update, shell>>

(* hlt, until the next interrupt; then the loop begins again.              *)
NoChars ==
  /\ Goes("keys", "mouse")
  /\ pc = "main" /\ ~NotEmpty
  /\ UNCHANGED <<vars, win, hand, update, shell>>

IsClear == /\ Len(command) >= Len(ClearWord)
           /\ SubSeq(command, 1, Len(ClearWord)) = ClearWord

(* history_add: at the limit the oldest line goes.                         *)
WithLine(n) == IF n < HistoryMax THEN n + 1 ELSE n

(* Any command but clear prints one line.                                  *)
LinesAfter == IF command = <<>> THEN WithLine(lines) ELSE WithLine(WithLine(lines))

ScrollAfterClear_Kept == scroll                                  \* mutant
ScrollAfterClear == 0

EnterLine ==
  /\ command' = <<>>
  /\ IF IsClear THEN lines' = 0 /\ scroll' = ScrollAfterClear
                ELSE lines' = LinesAfter /\ UNCHANGED scroll

EraseLast ==
  /\ command' = IF command = <<>> THEN <<>> ELSE SubSeq(command, 1, Len(command) - 1)
  /\ UNCHANGED <<lines, scroll>>

Fits == Len(command) + 1 < CommandMax

TypeChar(c) ==
  /\ command' = IF c[1] \in Printable /\ Fits THEN Append(command, c) ELSE command
  /\ UNCHANGED <<lines, scroll>>

(* maxbash_app_handle_key: the shell takes keys while its window is open,  *)
(* minimized or not.                                                       *)
HandleKey ==
  /\ Goes("key", "keys")
  /\ CASE ~win[Shell].open         -> UNCHANGED shell
       [] win[Shell].open /\ returned[1] = Enter     -> EnterLine
       [] win[Shell].open /\ returned[1] = Backspace -> EraseLast
       [] win[Shell].open /\ returned[1] \notin {Enter, Backspace} -> TypeChar(returned)
  /\ UNCHANGED <<vars, win, hand, update>>

-----------------------------------------------------------------------------
Loop == MouseUpdate \/ GetChar \/ NoChars \/ HandleKey

DesktopNext ==
  \/ \E p \in Cells, button \in BOOLEAN : Packet(p, button)
  \/ Key
  \/ Loop

(* The timer ends every hlt, so the loop goes on for ever; the user owes   *)
(* nothing.                                                                *)
DesktopSpec == DesktopInit /\ [][DesktopNext]_desktopvars /\ WF_desktopvars(Loop)

-----------------------------------------------------------------------------
Inside(r) == /\ 0 <= r.x /\ r.x + r.w <= ScreenW
             /\ BarRow <= r.y /\ r.y + r.h <= ScreenH

(* Dragging, maximizing, minimizing and closing in any order never lose a  *)
(* window: a maximized one fills the screen below the bar and comes back   *)
(* to where it was, any other keeps its size and lies inside the screen,   *)
(* even when the mouse is past the edge.                                   *)
WindowsOnDesktop ==
  \A n \in Names :
    LET W == win[n]
        r == IF Maximized(W) THEN W.saved ELSE W.r
    IN  /\ Maximized(W) => W.r = Fullscreen
        /\ Inside(r) /\ r.w = Place[n].w /\ r.h = Place[n].h

(* mouse_update reads the button three times, and an interrupt may change  *)
(* it in between.  Still, once everything that arrived has been handled, a *)
(* window that can move follows the mouse only while the button is down.   *)
DragNeedsButton ==
  \A n \in Names :
    at = "mouse" /\ ~updated /\ Movable(win[n]) /\ win[n].grip # NoGrip => left

(* The wheel never turns the whole history of the shell away, whatever     *)
(* commands, among them clear, come between two turns.                     *)
ScrollShowsALine == scroll = 0 \/ scroll < lines
=============================================================================
