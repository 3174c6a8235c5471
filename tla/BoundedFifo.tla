---------------------------- MODULE BoundedFifo ----------------------------
(***************************************************************************)
(* What an interrupt handler and the main loop expect of the buffer between*)
(* them: a first-in first-out queue of bounded capacity.  An item that     *)
(* arrives when the queue is full is dropped; every item that was accepted *)
(* is delivered, once, in the order of arrival.                            *)
(***************************************************************************)
EXTENDS Naturals, Sequences

CONSTANTS Items, Capacity, NoItem

VARIABLES queue,   \* the items accepted and not delivered, oldest first
          out      \* the last item delivered

Init == queue = <<>> /\ out = NoItem

Push(x) == /\ Len(queue) < Capacity
           /\ queue' = Append(queue, x)
           /\ UNCHANGED out

Pop == /\ queue # <<>>
       /\ out' = Head(queue)
       /\ queue' = Tail(queue)

Next == (\E x \in Items : Push(x)) \/ Pop

Spec == Init /\ [][Next]_<<queue, out>> /\ WF_<<queue, out>>(Pop)
=============================================================================
