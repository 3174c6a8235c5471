------------------------------ MODULE Windows ------------------------------
(***************************************************************************)
(* The windows of window.c, as operators on the record of one window.  The *)
(* screen is a small grid: BarRow is the last row of the task bar, a header*)
(* has two rows, and the second one ends in the buttons.                   *)
(***************************************************************************)
EXTENDS Integers

CONSTANTS ScreenW, ScreenH, BarRow

VARIABLE win        \* the windows, by name

Fullscreen == [x |-> 0, y |-> BarRow + 1, w |-> ScreenW, h |-> ScreenH - BarRow - 1]
NoRect     == [x |-> 0, y |-> 0, w |-> 0, h |-> 0]
NoGrip     == [x |-> -1, y |-> -1]

(* A closed window.  saved is what maximizing keeps, NoRect when it is not *)
(* maximized; grip is the drag offset, NoGrip when it is not dragged.      *)
Closed(r) == [r |-> r, saved |-> NoRect, open |-> FALSE, min |-> FALSE, grip |-> NoGrip]

Maximized(W) == W.saved # NoRect
Movable(W)   == W.open /\ ~W.min /\ ~Maximized(W)

HeaderRows == 2
ButtonRow  == 1

(* window_is_close_clicked and its like: the k-th button from the right.   *)
(* They ask whether the window is open, not whether it is minimized.       *)
OnButton(W, k, p) ==
  W.open /\ p.x = W.r.x + W.r.w - k /\ p.y = W.r.y + ButtonRow

OnClose(W, p)    == OnButton(W, 1, p)
OnMaximize(W, p) == OnButton(W, 2, p)
OnMinimize(W, p) == OnButton(W, 3, p)

OnHeader(W, p) ==
  /\ p.x \in W.r.x .. W.r.x + W.r.w - 1
  /\ p.y \in W.r.y .. W.r.y + HeaderRows - 1
  /\ ~OnClose(W, p) /\ ~OnMaximize(W, p) /\ ~OnMinimize(W, p)

Toggled(W) == IF Maximized(W) THEN [W EXCEPT !.r = W.saved, !.saved = NoRect]
              ELSE [W EXCEPT !.r = Fullscreen, !.saved = W.r]

(* What info_app_handle_click and maxbash_app_handle_click do.             *)
Clicked(W, p) ==
  CASE OnClose(W, p)    -> [W EXCEPT !.open = FALSE, !.min = FALSE]
    [] OnMinimize(W, p) -> [W EXCEPT !.min = TRUE]
    [] OnMaximize(W, p) -> Toggled(W)
    [] OTHER            -> W

(* window_open_or_restore.                                                 *)
Opened(W) == [W EXCEPT !.open = TRUE, !.min = FALSE]

Between(v, low, high) == IF (IF v < low THEN low ELSE v) > high THEN high
                         ELSE IF v < low THEN low ELSE v

Moved_Corner(W, p) ==                  \* mutant: only the corner stays inside
  [W EXCEPT !.r.x = Between(p.x - W.grip.x, 0, ScreenW - 1),
            !.r.y = Between(p.y - W.grip.y, BarRow, ScreenH - 1)]
Moved(W, p) ==
  [W EXCEPT !.r.x = Between(p.x - W.grip.x, 0, ScreenW - W.r.w),
            !.r.y = Between(p.y - W.grip.y, BarRow, ScreenH - W.r.h)]

Released_Stays(W) == W                 \* mutant
Released(W) == [W EXCEPT !.grip = NoGrip]

(* window_handle_drag.                                                     *)
Dragged(W, p, down, pressed) ==
  CASE ~Movable(W)                -> W
    [] Movable(W) /\ pressed /\ OnHeader(W, p) ->
         [W EXCEPT !.grip = [x |-> p.x - W.r.x, y |-> p.y - W.r.y]]
    [] Movable(W) /\ ~(pressed /\ OnHeader(W, p)) ->
         IF ~down THEN Released(W)
         ELSE IF W.grip # NoGrip THEN Moved(W, p) ELSE W
=============================================================================
