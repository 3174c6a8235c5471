--------------------------- MODULE DesktopProofs ---------------------------
(***************************************************************************)
(* Proofs about KeyboardRing for every size of the ring and every set of   *)
(* keys: it is a bounded queue (the safety part of RefinesFifo).  Proofs   *)
(* about Desktop for every screen, every set of windows that fit it and    *)
(* every ring: windows stay on the screen, the wheel leaves a line of the  *)
(* shell in sight, and the keyboard buffer is still a queue when the main  *)
(* loop empties it between mouse updates.                                  *)
(***************************************************************************)
EXTENDS Desktop, SequenceTheorems, TLAPS

-----------------------------------------------------------------------------
(* The keyboard ring, for every size of it and every set of keys.          *)

IInv == TypeOK /\ ReadStaysValid

(* Succ wraps at the end of the ring.                                      *)
LEMMA SuccFacts ==
  ASSUME NEW i \in Slots
  PROVE  /\ Succ(i) = IF i + 1 < BufferSize THEN i + 1 ELSE 0
         /\ Succ(i) \in Slots
<1>1. CASE i + 1 < BufferSize
  BY <1>1, SizeAssumption DEF Succ, Slots
<1>2. CASE ~(i + 1 < BufferSize)
  <2>1. i + 1 = BufferSize
    BY <1>2, SizeAssumption DEF Slots
  <2>2. Succ(i) = 0
    BY <2>1, SizeAssumption DEF Succ
  <2> QED BY <2>1, <2>2, SizeAssumption DEF Slots
<1> QED BY <1>1, <1>2

LEMMA InitIInv == Init => IInv
<1> SUFFICES ASSUME Init PROVE IInv
    OBVIOUS
<1>1. 0 \in Slots
  BY SizeAssumption DEF Slots
<1>2. buffer \in [Slots -> Chars \cup {NoChar}]
  BY DEF Init
<1> QED BY <1>1, <1>2 DEF Init, IInv, TypeOK, ReadStaysValid

LEMMA NextIInv == IInv /\ [Next]_vars => IInv'
<1> SUFFICES ASSUME IInv, [Next]_vars PROVE IInv'
    OBVIOUS
<1> USE DEF IInv
<1>1. CASE ShiftKey \/ CapsKey
  <2>1. shift' \in BOOLEAN /\ caps' \in BOOLEAN
    BY <1>1 DEF ShiftKey, CapsKey, TypeOK
  <2>2. UNCHANGED <<buffer, head, tail, pc, char, returned>>
    BY <1>1 DEF ShiftKey, CapsKey, ring, call
  <2> QED BY <2>1, <2>2 DEF TypeOK, ReadStaysValid, NotEmpty
<1>2. ASSUME NEW k \in Keys, Press(k) PROVE IInv'
  <2>1. /\ head # tail => head' # tail
        /\ buffer' = [buffer EXCEPT ![head] = <<k, shift # caps>>]
        /\ head' = Succ(head) /\ head' # tail
        /\ UNCHANGED <<shift, caps, tail, pc, char, returned>>
    BY <1>2 DEF Press, HasRoom, Slot, mods, call
  <2>2. <<k, shift # caps>> \in Chars
    <3>1. (shift # caps) \in BOOLEAN
      OBVIOUS
    <3> QED BY <3>1 DEF Chars
  <2>3. buffer' \in [Slots -> Chars \cup {NoChar}] /\ head' \in Slots
    BY <2>1, <2>2, SuccFacts DEF TypeOK
  <2>4. TypeOK'
    BY <2>1, <2>3 DEF TypeOK
  <2>5. ReadStaysValid'
    BY <2>1 DEF TypeOK, ReadStaysValid, NotEmpty
  <2> QED BY <2>4, <2>5
<1>3. CASE GetTest
  <2>1. pc' = "read" /\ head # tail
        /\ UNCHANGED <<buffer, head, shift, caps, tail, char, returned>>
    BY <1>3 DEF GetTest, NotEmpty, ring, mods
  <2> QED BY <2>1 DEF TypeOK, ReadStaysValid, NotEmpty
<1>4. CASE GetRead
  <2>1. pc = "read" /\ pc' = "advance" /\ char' = buffer[tail]
        /\ UNCHANGED <<buffer, head, shift, caps, tail, returned>>
    BY <1>4 DEF GetRead, ring, mods
  <2> QED BY <2>1 DEF TypeOK, ReadStaysValid, NotEmpty
<1>5. CASE GetAdvance
  <2>1. pc' = "main" /\ tail' = Succ(tail) /\ returned' = char
        /\ UNCHANGED <<buffer, head, shift, caps, char>>
    BY <1>5 DEF GetAdvance, ring, mods
  <2>2. tail' \in Slots
    BY <2>1, SuccFacts DEF TypeOK
  <2> QED BY <2>1, <2>2 DEF TypeOK, ReadStaysValid
<1>6. CASE UNCHANGED vars
  <2>1. UNCHANGED <<buffer, head, shift, caps, tail, pc, char, returned>>
    BY <1>6 DEF vars, ring, mods, call
  <2> QED BY <2>1 DEF TypeOK, ReadStaysValid, NotEmpty
<1> QED BY <1>1, <1>2, <1>3, <1>4, <1>5, <1>6 DEF Next, Get

THEOREM SpecIInv == Spec => []IInv
BY InitIInv, NextIInv, PTL DEF Spec

(* Type correctness of the keyboard buffer.                                *)
THEOREM TypeCorrect == Spec => []TypeOK
BY SpecIInv, PTL DEF IInv

(* What keyboard_get_char has tested and read stays valid until it moves   *)
(* buffer_tail, although the interrupt handler may run in between.         *)
THEOREM ReadAlwaysValid == Spec => []ReadStaysValid
BY SpecIInv, PTL DEF IInv

-----------------------------------------------------------------------------
(* The refinement.                                                         *)

(* The queue is as long as the ring is filled, and its elements are slots. *)
LEMMA QueueFacts ==
  ASSUME IInv
  PROVE  /\ Count \in 0 .. BufferSize - 1
         /\ \A i \in 1 .. Count : At(i) \in Slots /\ At(i) # head
         /\ Count < BufferSize - 1 => At(Count + 1) = head
         /\ Queue \in Seq(Chars \cup {NoChar})
         /\ Len(Queue) = Count
<1>1. head \in Slots /\ tail \in Slots
  BY DEF IInv, TypeOK
<1>2. Count \in 0 .. BufferSize - 1
  BY <1>1, SizeAssumption DEF Count, Slots
<1>3. \A i \in 1 .. Count : At(i) \in Slots /\ At(i) # head
  BY <1>1, SizeAssumption DEF Count, Slots, At
<1>4. At(Count + 1) = head
  BY <1>1, SizeAssumption DEF Count, Slots, At
<1>5. \A i \in 1 .. Count : buffer[At(i)] \in Chars \cup {NoChar}
  BY <1>3 DEF IInv, TypeOK
<1>6. Queue \in Seq(Chars \cup {NoChar}) /\ Len(Queue) = Count
  BY <1>2, <1>5 DEF Queue
<1> QED BY <1>2, <1>3, <1>4, <1>6

(* A key press is a push of the queue, or a stutter when it is dropped.    *)
LEMMA PressPushes ==
  ASSUME IInv, NEW k \in Keys, Press(k)
  PROVE  \E x \in Chars : Fifo!Push(x)
<1> DEFINE x == <<k, shift # caps>>
<1>1. /\ buffer' = [buffer EXCEPT ![head] = x]
      /\ head' = Succ(head) /\ head' # tail
      /\ tail' = tail /\ returned' = returned
  BY DEF Press, HasRoom, Slot, mods, call
<1>2. x \in Chars
  <2>1. (shift # caps) \in BOOLEAN
    OBVIOUS
  <2> QED BY <2>1 DEF Chars
<1>3. head \in Slots /\ tail \in Slots /\ buffer \in [Slots -> Chars \cup {NoChar}]
  BY DEF IInv, TypeOK
<1>4. Succ(head) = IF head + 1 < BufferSize THEN head + 1 ELSE 0
  BY <1>3, SuccFacts
<1>5. Count' = Count + 1 /\ Count < BufferSize - 1
  BY <1>1, <1>3, <1>4, SizeAssumption DEF Count, Slots
<1>6. \A i \in 1 .. Count + 1 : At(i)' = At(i)
  BY <1>1 DEF At
<1>7. Queue' = [i \in 1 .. Count + 1 |-> buffer'[At(i)]]
  BY <1>5, <1>6 DEF Queue
<1>8. \A i \in 1 .. Count : buffer'[At(i)] = Queue[i]
  BY <1>1, <1>3, QueueFacts DEF Queue
<1>9. buffer'[At(Count + 1)] = x
  BY <1>1, <1>3, <1>5, QueueFacts
<1>10. Append(Queue, x) = [i \in 1 .. Count + 1 |-> IF i = Count + 1 THEN x ELSE Queue[i]]
  BY QueueFacts
<1>11. Queue' = Append(Queue, x)
  <2>1. \A i \in 1 .. Count + 1 :
          buffer'[At(i)] = IF i = Count + 1 THEN x ELSE Queue[i]
    BY <1>8, <1>9, QueueFacts
  <2> QED BY <2>1, <1>7, <1>10
<1>12. Len(Queue) < BufferSize - 1
  BY <1>5, QueueFacts
<1> QED BY <1>1, <1>2, <1>11, <1>12 DEF Fifo!Push

(* Tail, element by element.                                                *)
LEMMA TailElements ==
  ASSUME NEW S, NEW s \in Seq(S), s # <<>>
  PROVE  Tail(s) = [i \in 1 .. Len(s) - 1 |-> s[i + 1]]
<1> DEFINE f == [i \in 1 .. Len(s) - 1 |-> s[i + 1]]
<1>1. Len(s) \in Nat \ {0}
  BY EmptySeq
<1>2. f \in Seq(S)
  BY <1>1
<1>3. Len(f) = Len(s) - 1
  BY <1>1
<1>4. /\ Tail(s) \in Seq(S) /\ Len(Tail(s)) = Len(s) - 1
      /\ \A i \in 1 .. Len(Tail(s)) : Tail(s)[i] = s[i + 1]
  BY HeadTailProperties
<1>5. \A i \in 1 .. Len(f) : f[i] = s[i + 1]
  BY <1>3
<1> HIDE DEF f
<1>6. Tail(s) = f
  BY <1>2, <1>3, <1>4, <1>5, SeqEqual
<1> QED BY <1>6 DEF f

(* The return of keyboard_get_char is a pop of the queue.                  *)
LEMMA AdvancePops ==
  ASSUME IInv, GetAdvance
  PROVE  Fifo!Pop
<1>1. /\ pc = "advance" /\ tail' = Succ(tail) /\ returned' = char
      /\ head' = head /\ buffer' = buffer
  BY DEF GetAdvance, ring
<1>2. head \in Slots /\ tail \in Slots /\ buffer \in [Slots -> Chars \cup {NoChar}]
  BY DEF IInv, TypeOK
<1>3. char = buffer[tail] /\ head # tail
  BY <1>1 DEF IInv, ReadStaysValid, NotEmpty
<1>4. Succ(tail) = IF tail + 1 < BufferSize THEN tail + 1 ELSE 0
  BY <1>2, SuccFacts
<1>5. Count \in 1 .. BufferSize - 1 /\ Count' = Count - 1 /\ At(1) = tail
  BY <1>1, <1>2, <1>3, <1>4, SizeAssumption DEF Count, Slots, At
<1>6. \A i \in 1 .. Count - 1 : At(i)' = At(i + 1)
  BY <1>1, <1>2, <1>4, <1>5, SizeAssumption DEF At, Slots
<1>7. Queue[1] = char /\ Queue # <<>>
  BY <1>3, <1>5, QueueFacts DEF Queue
<1>8. Queue' = [i \in 1 .. Count - 1 |-> buffer[At(i + 1)]]
  BY <1>1, <1>5, <1>6 DEF Queue
<1>9. \A i \in 1 .. Count - 1 : Queue[i + 1] = buffer[At(i + 1)]
  BY <1>5 DEF Queue
<1>10. Tail(Queue) = [i \in 1 .. Count - 1 |-> Queue[i + 1]]
  <2>1. Queue \in Seq(Chars \cup {NoChar}) /\ Len(Queue) = Count
    BY QueueFacts
  <2> QED BY <2>1, <1>7, TailElements
<1>11. Queue' = Tail(Queue)
  BY <1>8, <1>9, <1>10
<1>12. Head(Queue) = char
  BY <1>7, QueueFacts
<1> QED BY <1>1, <1>7, <1>11, <1>12 DEF Fifo!Pop

LEMMA StepRefines ==
  ASSUME IInv, [Next]_vars
  PROVE  [Fifo!Next]_<<Queue, returned>>
<1>1. ASSUME NEW k \in Keys, Press(k) PROVE Fifo!Next
  BY <1>1, PressPushes DEF Fifo!Next
<1>2. CASE GetAdvance
  BY <1>2, AdvancePops DEF Fifo!Next
<1>3. CASE ShiftKey \/ CapsKey \/ GetTest \/ GetRead \/ UNCHANGED vars
  <2>1. UNCHANGED <<buffer, head, tail, returned>>
    BY <1>3 DEF ShiftKey, CapsKey, GetTest, GetRead, vars, ring, call
  <2> QED BY <2>1 DEF Queue, Count, At
<1> QED BY <1>1, <1>2, <1>3 DEF Next, Get

LEMMA InitRefines == Init => Fifo!Init
<1> SUFFICES ASSUME Init PROVE Fifo!Init
    OBVIOUS
<1>1. Count = 0
  BY DEF Init, Count
<1>2. Queue = <<>>
  BY <1>1 DEF Queue
<1> QED BY <1>2 DEF Init, Fifo!Init

(* Every behaviour of the ring is one of the bounded queue: no accepted    *)
(* character is lost, duplicated or reordered by an interrupt that comes   *)
(* in the middle of keyboard_get_char.                                     *)
THEOREM RingImplementsFifo == Spec => Fifo!Init /\ [][Fifo!Next]_<<Queue, returned>>
<1>1. IInv /\ [Next]_vars => [Fifo!Next]_<<Queue, returned>>
  BY StepRefines
<1> QED BY InitRefines, SpecIInv, <1>1, PTL DEF Spec

-----------------------------------------------------------------------------
Rect == [x : Int, y : Int, w : Int, h : Int]
WinType == [r : Rect, saved : Rect, open : BOOLEAN, min : BOOLEAN,
            grip : [x : Int, y : Int]]

(* The screen has room below the task bar, and each window fits there.     *)
Fitting ==
  /\ ScreenW \in Nat /\ ScreenH \in Nat /\ BarRow \in Nat /\ BarRow < ScreenH
  /\ \A n \in Names : /\ Place[n] \in Rect /\ Inside(Place[n])
                      /\ Place[n].w > 0 /\ Place[n].h > 0

(* A window W that was first at the place p, as WindowsOnDesktop wants it. *)
Kept(W, p) ==
  LET r == IF Maximized(W) THEN W.saved ELSE W.r
  IN  /\ Maximized(W) => W.r = Fullscreen
      /\ Inside(r) /\ r.w = p.w /\ r.h = p.h

WindowsKept ==
  /\ win \in [Names -> WinType]
  /\ \A n \in Names : Kept(win[n], Place[n])

MouseType == mouse \in [x : Int, y : Int]

-----------------------------------------------------------------------------
(* Windows.                                                                *)

(* A value forced between two bounds.                                      *)
LEMMA BetweenFacts ==
  ASSUME NEW v \in Int, NEW low \in Int, NEW high \in Int, low <= high
  PROVE  Between(v, low, high) \in Int /\ Between(v, low, high) \in low .. high
BY DEF Between

(* What opens, closes, minimizes, maximizes or restores a window.          *)
LEMMA ClickKeeps ==
  ASSUME Fitting, NEW n \in Names, NEW W \in WinType, Kept(W, Place[n]), NEW p
  PROVE  /\ Opened(W) \in WinType /\ Kept(Opened(W), Place[n])
         /\ Clicked(W, p) \in WinType /\ Kept(Clicked(W, p), Place[n])
<1>1. Fullscreen \in Rect /\ NoRect \in Rect
  BY DEF Fitting, Rect, Fullscreen, NoRect
<1>2. /\ Opened(W) \in WinType /\ Opened(W).r = W.r /\ Opened(W).saved = W.saved
  BY DEF Opened, WinType
<1>3. Kept(Opened(W), Place[n])
  BY <1>2 DEF Kept, Maximized
<1>4. ASSUME NEW V, V \in {[W EXCEPT !.open = FALSE, !.min = FALSE],
                           [W EXCEPT !.min = TRUE], W}
      PROVE  V \in WinType /\ Kept(V, Place[n])
  <2>1. V \in WinType /\ V.r = W.r /\ V.saved = W.saved
    BY <1>4 DEF WinType
  <2> QED BY <2>1 DEF Kept, Maximized
<1>5. Toggled(W) \in WinType /\ Kept(Toggled(W), Place[n])
  <2>1. CASE Maximized(W)
    <3>1. /\ Toggled(W) \in WinType
          /\ Toggled(W).r = W.saved /\ Toggled(W).saved = NoRect
      BY <1>1, <2>1 DEF Toggled, WinType
    <3> QED BY <2>1, <3>1 DEF Kept, Maximized
  <2>2. CASE ~Maximized(W)
    <3>1. /\ Toggled(W) \in WinType
          /\ Toggled(W).r = Fullscreen /\ Toggled(W).saved = W.r
      BY <1>1, <2>2 DEF Toggled, WinType
    <3>2. W.r # NoRect
      BY <2>2 DEF Kept, NoRect, Fitting
    <3> QED BY <2>2, <3>1, <3>2 DEF Kept, Maximized
  <2> QED BY <2>1, <2>2
<1>6. Clicked(W, p) \in {[W EXCEPT !.open = FALSE, !.min = FALSE],
                         [W EXCEPT !.min = TRUE], W, Toggled(W)}
  BY DEF Clicked
<1> QED BY <1>2, <1>3, <1>4, <1>5, <1>6

(* window_handle_drag: the clamping uses the size of the window itself.    *)
LEMMA DragKeeps ==
  ASSUME Fitting, NEW n \in Names, NEW W \in WinType, Kept(W, Place[n]),
         NEW p \in [x : Int, y : Int], NEW down, NEW pressed
  PROVE  Dragged(W, p, down, pressed) \in WinType
         /\ Kept(Dragged(W, p, down, pressed), Place[n])
<1>1. CASE Dragged(W, p, down, pressed) = W
  BY <1>1
<1>2. ASSUME NEW g \in [x : Int, y : Int],
             Dragged(W, p, down, pressed) = [W EXCEPT !.grip = g]
      PROVE  Dragged(W, p, down, pressed) \in WinType
             /\ Kept(Dragged(W, p, down, pressed), Place[n])
  <2> DEFINE V == [W EXCEPT !.grip = g]
  <2>1. V \in WinType /\ V.r = W.r /\ V.saved = W.saved
    BY DEF WinType
  <2>2. Kept(V, Place[n])
    BY <2>1 DEF Kept, Maximized
  <2> QED BY <1>2, <2>1, <2>2
<1>3. CASE Movable(W) /\ Dragged(W, p, down, pressed) = Moved(W, p)
  <2> DEFINE nx == Between(p.x - W.grip.x, 0, ScreenW - W.r.w)
             ny == Between(p.y - W.grip.y, BarRow, ScreenH - W.r.h)
  <2>1. /\ W.r \in Rect /\ W.grip \in [x : Int, y : Int]
        /\ ~Maximized(W) /\ Inside(W.r)
        /\ W.r.w = Place[n].w /\ W.r.h = Place[n].h
    BY <1>3 DEF Movable, Kept, WinType
  <2>2. nx \in Int /\ nx \in 0 .. ScreenW - W.r.w
    <3>1. /\ p.x - W.grip.x \in Int /\ ScreenW - W.r.w \in Int /\ 0 \in Int
          /\ 0 <= ScreenW - W.r.w
      BY <2>1 DEF Inside, Rect, Fitting
    <3> QED BY <3>1, BetweenFacts, Zenon
  <2>3. ny \in Int /\ ny \in BarRow .. ScreenH - W.r.h
    <3>1. /\ p.y - W.grip.y \in Int /\ ScreenH - W.r.h \in Int /\ BarRow \in Int
          /\ BarRow <= ScreenH - W.r.h
      BY <2>1 DEF Inside, Rect, Fitting
    <3> QED BY <3>1, BetweenFacts, Zenon
  <2>4. Moved(W, p) = [W EXCEPT !.r = [W.r EXCEPT !.x = nx, !.y = ny]]
    BY <2>1 DEF Moved, WinType, Rect
  <2>5. /\ Moved(W, p) \in WinType /\ Moved(W, p).saved = W.saved
        /\ Moved(W, p).r.x = nx /\ Moved(W, p).r.y = ny
        /\ Moved(W, p).r.w = W.r.w /\ Moved(W, p).r.h = W.r.h
    <3>1. PICK r : r = [W.r EXCEPT !.x = nx, !.y = ny]
      OBVIOUS
    <3> HIDE DEF nx, ny
    <3>2. r \in Rect /\ r.x = nx /\ r.y = ny /\ r.w = W.r.w /\ r.h = W.r.h
      BY <2>1, <2>2, <2>3, <3>1 DEF Rect
    <3>3. Moved(W, p) = [W EXCEPT !.r = r]
      BY <2>4, <3>1
    <3> QED BY <3>2, <3>3 DEF WinType
  <2>6. Inside(Moved(W, p).r)
    <3> HIDE DEF nx, ny
    <3>1. W.r.w \in Int /\ W.r.h \in Int /\ ScreenW \in Int /\ ScreenH \in Int /\ BarRow \in Int
      BY <2>1 DEF Rect, Fitting
    <3>2. 0 <= nx /\ nx + W.r.w <= ScreenW
      BY <2>2, <3>1
    <3>3. BarRow <= ny /\ ny + W.r.h <= ScreenH
      BY <2>3, <3>1
    <3> QED BY <2>5, <3>2, <3>3 DEF Inside
  <2>7. Kept(Moved(W, p), Place[n])
    BY <2>1, <2>5, <2>6 DEF Kept, Maximized
  <2> QED BY <1>3, <2>5, <2>7
<1>4. \/ Dragged(W, p, down, pressed) = W
      \/ Dragged(W, p, down, pressed)
           = [W EXCEPT !.grip = [x |-> p.x - W.r.x, y |-> p.y - W.r.y]]
      \/ Dragged(W, p, down, pressed) = [W EXCEPT !.grip = NoGrip]
      \/ Movable(W) /\ Dragged(W, p, down, pressed) = Moved(W, p)
  BY DEF Dragged, Released
<1>5. /\ [x |-> p.x - W.r.x, y |-> p.y - W.r.y] \in [x : Int, y : Int]
      /\ NoGrip \in [x : Int, y : Int]
  BY DEF WinType, Rect, NoGrip
<1> QED BY <1>1, <1>2, <1>3, <1>4, <1>5

-----------------------------------------------------------------------------
(* The loop of kernel_main and the interrupts.                             *)

WIInv == MouseType /\ WindowsKept

LEMMA InitWindows == Fitting /\ DesktopInit => WIInv
<1> SUFFICES ASSUME Fitting, DesktopInit PROVE WIInv
    OBVIOUS
<1>1. MouseType
  BY DEF DesktopInit, MouseType, Fitting
<1>2. ASSUME NEW n \in Names
      PROVE  Closed(Place[n]) \in WinType /\ Kept(Closed(Place[n]), Place[n])
  <2>1. NoRect \in Rect /\ NoGrip \in [x : Int, y : Int]
    BY DEF NoRect, Rect, NoGrip
  <2>2. Place[n] \in Rect /\ Inside(Place[n])
    BY DEF Fitting
  <2> QED BY <2>1, <2>2 DEF Closed, WinType, Kept, Maximized
<1>3. \A n \in Names : win[n] = Closed(Place[n])
  BY DEF DesktopInit
<1>4. win = [n \in Names |-> Closed(Place[n])]
  BY DEF DesktopInit
<1> QED BY <1>1, <1>2, <1>3, <1>4 DEF WIInv, WindowsKept

LEMMA NextWindows == Fitting /\ WIInv /\ [DesktopNext]_desktopvars => WIInv'
<1> SUFFICES ASSUME Fitting, WIInv, [DesktopNext]_desktopvars PROVE WIInv'
    OBVIOUS
<1> USE DEF WIInv
<1>1. ASSUME NEW p \in Cells, NEW button \in BOOLEAN, Packet(p, button) PROVE WIInv'
  BY <1>1 DEF Packet, Cells, MouseType, WindowsKept, Fitting
<1>2. CASE Begin
  <2>1. /\ mouse.x \in Int /\ mouse.y \in Int
        /\ ScreenW - 1 \in Int /\ ScreenH - 1 \in Int
    BY DEF MouseType, Fitting
  <2>2. /\ Between(mouse.x, 0, ScreenW - 1) \in Int
        /\ Between(mouse.y, 0, ScreenH - 1) \in Int
    BY <2>1 DEF Between
  <2> QED BY <1>2, <2>2 DEF Begin, MouseType, WindowsKept
<1>3. ASSUME NEW n \in Names, OpenFromBar(n) PROVE WIInv'
  <2>1. win' = [win EXCEPT ![n] = Opened(win[n])] /\ mouse' = mouse
    BY <1>3 DEF OpenFromBar, hand
  <2>2. Opened(win[n]) \in WinType /\ Kept(Opened(win[n]), Place[n])
    BY ClickKeeps DEF WindowsKept
  <2> QED BY <2>1, <2>2 DEF MouseType, WindowsKept
<1>4. CASE ClickWindows
  <2>1. win' = [n \in Names |-> Clicked(win[n], mouse)] /\ mouse' = mouse
    BY <1>4 DEF ClickWindows, hand
  <2>2. \A n \in Names : /\ Clicked(win[n], mouse) \in WinType
                         /\ Kept(Clicked(win[n], mouse), Place[n])
    BY ClickKeeps DEF WindowsKept
  <2> QED BY <2>1, <2>2 DEF MouseType, WindowsKept
<1>5. ASSUME NEW d \in Wheel, Pointer(d) PROVE WIInv'
  <2>1. win' = [n \in Names |-> Dragged(win[n], mouse, left, click)] /\ mouse' = mouse
    BY <1>5 DEF Pointer, hand
  <2>2. \A n \in Names : /\ Dragged(win[n], mouse, left, click) \in WinType
                         /\ Kept(Dragged(win[n], mouse, left, click), Place[n])
    BY DragKeeps DEF WindowsKept, MouseType
  <2> QED BY <2>1, <2>2 DEF MouseType, WindowsKept
<1>6. CASE UNCHANGED <<win, mouse>>
  BY <1>6 DEF MouseType, WindowsKept
<1>7. CASE NothingNew \/ NotClicked \/ PowerOff \/ SavePrevious
  BY <1>7, <1>6 DEF NothingNew, NotClicked, PowerOff, SavePrevious, hand
<1>8. CASE Key \/ GetChar \/ NoChars \/ HandleKey \/ UNCHANGED desktopvars
  BY <1>8, <1>6 DEF Key, GetChar, NoChars, HandleKey, desktopvars, hand
<1> QED BY <1>1, <1>2, <1>3, <1>4, <1>5, <1>7, <1>8 DEF DesktopNext, Loop, MouseUpdate

(* On every screen, whatever is dragged, maximized, minimized and closed   *)
(* and wherever mouse interrupts fall in the loop, no window leaves the    *)
(* screen or loses its size (window_handle_drag, window_toggle_maximize).  *)
THEOREM WindowsStayOnDesktop ==
  ASSUME Fitting
  PROVE  DesktopSpec => []WindowsOnDesktop
<1>1. WIInv => WindowsOnDesktop
  BY DEF WIInv, WindowsKept, Kept, WindowsOnDesktop
<1>2. WIInv /\ [DesktopNext]_desktopvars => WIInv'
  BY NextWindows
<1>3. DesktopInit => WIInv
  BY InitWindows
<1> QED BY <1>1, <1>2, <1>3, PTL DEF DesktopSpec

-----------------------------------------------------------------------------
(* Dragging.                                                               *)

(* Where the loop is when no drag is under way.                            *)
Settled == {"save", "keys", "key", "mouse"}

(* A window that can move and is dragged.                                  *)
Held(W) == Movable(W) /\ W.grip # NoGrip

(* The button is read for the click before it is read for the drag.  While *)
(* no packet came since, a click is still a button that is down, and from  *)
(* the drag on no window is held with the button up.                       *)
ButtonKnown ==
  ~updated => /\ at \in {"click", "pointer"} /\ click => left
              /\ at \in Settled => \A n \in Names : Held(win[n]) => left

DragIInv == WIInv /\ ButtonKnown

(* With the button up and no click, window_handle_drag lets the window go. *)
LEMMA DragReleases ==
  ASSUME NEW W \in WinType, NEW p, NEW down, NEW pressed, pressed => down,
         Held(Dragged(W, p, down, pressed))
  PROVE  down
<1> SUFFICES ASSUME ~down PROVE FALSE
    OBVIOUS
<1>1. Dragged(W, p, down, pressed) \in {W, Released(W)} /\ (Movable(W) => Dragged(W, p, down, pressed) = Released(W))
  BY DEF Dragged
<1>2. Released(W).grip = NoGrip
  BY DEF Released, WinType
<1>3. Movable(W)
  BY <1>1, <1>2 DEF Held
<1> QED BY <1>1, <1>2, <1>3 DEF Held

LEMMA NextDrag ==
  ASSUME Fitting, DragIInv, [DesktopNext]_desktopvars
  PROVE  ButtonKnown'
<1>1. \A n \in Names : win[n] \in WinType
  BY DEF DragIInv, WIInv, WindowsKept
<1>2. ASSUME NEW p \in Cells, NEW button \in BOOLEAN, Packet(p, button) PROVE ButtonKnown'
  BY <1>2 DEF Packet, ButtonKnown
<1>3. CASE Begin
  BY <1>3 DEF Begin, Goes, ButtonKnown, Settled
<1>4. CASE NotClicked \/ ClickWindows \/ \E n \in Names : OpenFromBar(n)
  <2>1. at = "click" /\ at' = "pointer" /\ UNCHANGED <<updated, click, left>>
    BY <1>4 DEF NotClicked, ClickWindows, OpenFromBar, Goes, hand, update
  <2> QED BY <2>1 DEF DragIInv, ButtonKnown, Settled
<1>5. ASSUME NEW d \in Wheel, Pointer(d) PROVE ButtonKnown'
  <2>1. /\ at = "pointer" /\ at' = "save" /\ UNCHANGED <<updated, left>>
        /\ \A n \in Names : win'[n] = Dragged(win[n], mouse, left, click)
    BY <1>5 DEF Pointer, Goes, hand
  <2>2. ASSUME ~updated, NEW n \in Names, Held(win'[n]) PROVE left
    <3>1. click => left
      BY <2>1, <2>2 DEF DragIInv, ButtonKnown
    <3> QED BY <1>1, <2>1, <2>2, <3>1, DragReleases
  <2> QED BY <2>1, <2>2 DEF ButtonKnown, Settled, Held, Movable, Maximized
<1>6. CASE NothingNew \/ SavePrevious \/ GetChar \/ NoChars \/ HandleKey
  <2>1. /\ at \in Settled /\ at' \in Settled
        /\ UNCHANGED <<win, updated, left>>
    BY <1>6 DEF NothingNew, SavePrevious, GetChar, NoChars, HandleKey, Goes, hand,
                   Settled
  <2> QED BY <2>1 DEF DragIInv, ButtonKnown, Settled, Held, Movable, Maximized
<1>7. CASE Key \/ UNCHANGED desktopvars
  <2>1. UNCHANGED <<win, at, updated, left, click>>
    BY <1>7 DEF Key, desktopvars, hand, update
  <2> QED BY <2>1 DEF DragIInv, ButtonKnown, Held, Movable, Maximized
<1>8. CASE PowerOff
  <2>1. at = "click" /\ at' = "off" /\ UNCHANGED <<win, updated, left, click>>
    BY <1>8 DEF PowerOff, Goes, hand, update
  <2> QED BY <2>1 DEF ButtonKnown, Settled
<1> QED BY <1>2, <1>3, <1>4, <1>5, <1>6, <1>7, <1>8 DEF DesktopNext, Loop, MouseUpdate

(* Wherever the mouse interrupts mouse_update between its three readings   *)
(* of the button, a window that can move is dragged only while the button  *)
(* is down, once everything that arrived was handled (window_handle_drag). *)
THEOREM NoDragWithoutButton ==
  ASSUME Fitting
  PROVE  DesktopSpec => []DragNeedsButton
<1>1. DesktopInit => ButtonKnown
  BY DEF DesktopInit, ButtonKnown, Held, Movable, Closed
<1>2. DesktopInit => DragIInv
  BY <1>1, InitWindows DEF DragIInv
<1>3. DragIInv /\ [DesktopNext]_desktopvars => DragIInv'
  BY NextWindows, NextDrag DEF DragIInv
<1>4. DragIInv => DragNeedsButton
  BY DEF DragIInv, ButtonKnown, Settled, Held, DragNeedsButton
<1> QED BY <1>2, <1>3, <1>4, PTL DEF DesktopSpec

-----------------------------------------------------------------------------
(* The history of the shell.                                               *)

SIInv == lines \in Nat /\ scroll \in Nat /\ ScrollShowsALine

LEMMA NextScroll == Wheel \subseteq Int /\ SIInv /\ [DesktopNext]_desktopvars => SIInv'
<1> SUFFICES ASSUME Wheel \subseteq Int, SIInv, [DesktopNext]_desktopvars PROVE SIInv'
    OBVIOUS
<1>1. ASSUME NEW d \in Wheel, Pointer(d) PROVE SIInv'
  <2>1. lines' = lines /\ scroll' = Scrolled(d) /\ d \in Int
    BY <1>1 DEF Pointer
  <2> QED BY <2>1 DEF SIInv, ScrollShowsALine, Scrolled, MaxScroll, Between
<1>2. CASE UNCHANGED <<lines, scroll>>
  BY <1>2 DEF SIInv, ScrollShowsALine
<1>3. CASE HandleKey
  <2>1. CASE EnterLine
    BY <2>1 DEF EnterLine, ScrollAfterClear, LinesAfter, WithLine, SIInv, ScrollShowsALine
  <2>2. UNCHANGED <<lines, scroll>> \/ EnterLine
    BY <1>3 DEF HandleKey, EraseLast, TypeChar, shell
  <2> QED BY <2>1, <2>2, <1>2
<1>4. CASE \E p \in Cells, button \in BOOLEAN : Packet(p, button)
  BY <1>4, <1>2 DEF Packet, shell
<1>5. CASE Key \/ GetChar \/ NoChars \/ UNCHANGED desktopvars
  BY <1>5, <1>2 DEF Key, GetChar, NoChars, desktopvars, shell
<1>6. CASE \/ NothingNew \/ Begin \/ NotClicked \/ PowerOff \/ ClickWindows
           \/ (\E n \in Names : OpenFromBar(n)) \/ SavePrevious
  BY <1>6, <1>2 DEF NothingNew, Begin, NotClicked, PowerOff, ClickWindows, OpenFromBar,
                    SavePrevious, shell
<1> QED BY <1>1, <1>3, <1>4, <1>5, <1>6 DEF DesktopNext, Loop, MouseUpdate

(* However far the wheel turns and whatever is typed between two turns, a  *)
(* line of the history is in sight (maxbash_app_handle_scroll and _key).   *)
THEOREM ALineInSight ==
  ASSUME Wheel \subseteq Int
  PROVE  DesktopSpec => []ScrollShowsALine
<1>1. DesktopInit => SIInv
  BY DEF DesktopInit, SIInv, ScrollShowsALine
<1>2. SIInv => ScrollShowsALine
  BY DEF SIInv
<1>3. SIInv /\ [DesktopNext]_desktopvars => SIInv'
  BY NextScroll
<1> QED BY <1>1, <1>2, <1>3, PTL DEF DesktopSpec

-----------------------------------------------------------------------------
(* The keyboard buffer in the loop.                                        *)

LEMMA LoopUsesRing == [DesktopNext]_desktopvars => [Next]_vars
<1> SUFFICES ASSUME [DesktopNext]_desktopvars PROVE [Next]_vars
    OBVIOUS
<1>1. CASE Key \/ GetChar
  BY <1>1 DEF Key, GetChar, Next
<1>2. CASE \/ \E p \in Cells, button \in BOOLEAN : Packet(p, button)
           \/ NoChars \/ HandleKey \/ UNCHANGED desktopvars
  BY <1>2 DEF Packet, NoChars, HandleKey, desktopvars
<1>3. CASE MouseUpdate
  BY <1>3 DEF MouseUpdate, NothingNew, Begin, NotClicked, PowerOff, ClickWindows,
              OpenFromBar, Pointer, SavePrevious
<1> QED BY <1>1, <1>2, <1>3 DEF DesktopNext, Loop

(* The main loop, which calls keyboard_get_char between mouse updates,     *)
(* takes the characters as from a bounded queue.                           *)
THEOREM LoopReadsAQueue == DesktopSpec => Fifo!Init /\ [][Fifo!Next]_<<Queue, returned>>
<1>1. DesktopInit => Init
  BY DEF DesktopInit
<1>2. IInv /\ [Next]_vars => IInv'
  BY NextIInv
<1>3. IInv /\ [Next]_vars => [Fifo!Next]_<<Queue, returned>>
  BY StepRefines
<1> QED BY <1>1, <1>2, <1>3, LoopUsesRing, InitIInv, InitRefines, PTL DEF DesktopSpec
=============================================================================
