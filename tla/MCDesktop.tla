---------------------------- MODULE MCDesktop -----------------------------
(***************************************************************************)
(* Desktop for TLC.  What the user does is bounded: a behaviour is one of  *)
(* the Sessions, which say how many mouse packets and keys it may have     *)
(* (any number when Unbounded), which keys, whether shift and caps lock are*)
(* used, and where the mouse points.                                       *)
(***************************************************************************)
EXTENDS Desktop

VARIABLE session

Unbounded == -1

MCPlace  == [n \in Names |-> [x |-> IF n = Shell THEN 0 ELSE 1, y |-> BarRow, w |-> 3, h |-> 2]]
MCOpener == [n \in Names |-> IF n = Shell THEN 1 ELSE 0]
MCClear  == <<<<"c", FALSE>>>>
MCWheel  == {-1, 0, 2}

Button(n) == [x |-> Opener[n], y |-> 0]

Sessions ==
  {[packets |-> Unbounded, keys |-> 0, used |-> {}, shifts |-> FALSE,
    cells |-> Cells \ {Button(n) : n \in Names \ {Shell}}],
   [packets |-> 0, keys |-> Unbounded, used |-> {"c"}, shifts |-> TRUE, cells |-> {}],
   [packets |-> 3, keys |-> 5, used |-> Keys, shifts |-> FALSE, cells |-> {Button(Shell)}],
   [packets |-> 4, keys |-> 0, used |-> {}, shifts |-> FALSE,
    cells |-> [x : 0 .. ScreenW - 1, y : {0, 1}]]}

Spent(n) == IF n = Unbounded THEN n ELSE n - 1

MCInit == DesktopInit /\ session \in Sessions

MCPacket == /\ session.packets # 0
            /\ session' = [session EXCEPT !.packets = Spent(@)]
            /\ \E p \in session.cells, button \in BOOLEAN : Packet(p, button)

MCKey == /\ session.keys # 0
         /\ session' = [session EXCEPT !.keys = Spent(@)]
         /\ Key
         /\ \/ \E k \in session.used : Press(k)
            \/ session.shifts /\ (ShiftKey \/ CapsKey)

MCNext == MCPacket \/ MCKey \/ (Loop /\ UNCHANGED session)

MCSpec == MCInit /\ [][MCNext]_<<desktopvars, session>> /\ WF_desktopvars(Loop)
=============================================================================
