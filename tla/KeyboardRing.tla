---------------------------- MODULE KeyboardRing ----------------------------
(***************************************************************************)
(* The keyboard buffer (keyboard.c): keyboard_handler, which runs at any   *)
(* moment as an interrupt, fills a ring that keyboard_get_char, called by  *)
(* the main loop with interrupts enabled, empties.  There is no lock: the  *)
(* handler writes only buffer_head and the caller only buffer_tail.        *)
(***************************************************************************)
EXTENDS Naturals, Sequences

CONSTANTS BufferSize,   \* BUFFER_SIZE
          Keys,         \* the keys that have a character
          NoChar        \* a slot never written

ASSUME SizeAssumption == BufferSize \in Nat /\ BufferSize > 1

Slots == 0 .. BufferSize - 1
Chars == Keys \X BOOLEAN          \* a key, in lower or upper case

ASSUME NoCharAssumption == NoChar \notin Chars

VARIABLES buffer,     \* kbd_buffer
          head, tail, \* buffer_head, buffer_tail
          shift, caps,\* shift_pressed, caps_lock_active
          pc,         \* where keyboard_get_char is
          char,       \* *out_char
          returned    \* the character of the last call that returned true

ring == <<buffer, head>>
mods == <<shift, caps>>
call == <<tail, pc, char, returned>>
vars == <<ring, mods, call>>

TypeOK ==
  /\ buffer \in [Slots -> Chars \cup {NoChar}]
  /\ head \in Slots /\ tail \in Slots
  /\ shift \in BOOLEAN /\ caps \in BOOLEAN
  /\ pc \in {"main", "read", "advance"}
  /\ char \in Chars \cup {NoChar}
  /\ returned \in Chars \cup {NoChar}

Init ==
  /\ buffer = [i \in Slots |-> NoChar]
  /\ head = 0 /\ tail = 0
  /\ shift = FALSE /\ caps = FALSE
  /\ pc = "main" /\ char = NoChar /\ returned = NoChar

Succ(i) == (i + 1) % BufferSize

-----------------------------------------------------------------------------
(* keyboard_handler; interrupts are disabled while it runs.                *)

ShiftKey ==
  /\ shift' \in BOOLEAN
  /\ UNCHANGED <<ring, caps, call>>

CapsKey ==
  /\ caps' = ~caps
  /\ UNCHANGED <<ring, shift, call>>

HasRoom == Succ(head) # tail

Slot_Next == Succ(head)                          \* mutant: stores after advancing
Slot == head

(* buffer_push, when the ring is not full; otherwise the key is dropped.   *)
Press(k) ==
  /\ HasRoom
  /\ buffer' = [buffer EXCEPT ![Slot] = <<k, shift # caps>>]
  /\ head' = Succ(head)
  /\ UNCHANGED <<mods, call>>

-----------------------------------------------------------------------------
(* keyboard_get_char: three reads or writes of shared variables, and an    *)
(* interrupt may come between any two.                                     *)

NotEmpty == head # tail

GetTest ==
  /\ pc = "main" /\ NotEmpty
  /\ pc' = "read"
  /\ UNCHANGED <<ring, mods, tail, char, returned>>

GetRead ==
  /\ pc = "read"
  /\ char' = buffer[tail]
  /\ pc' = "advance"
  /\ UNCHANGED <<ring, mods, tail, returned>>

GetAdvance ==
  /\ pc = "advance"
  /\ tail' = Succ(tail)
  /\ returned' = char
  /\ pc' = "main"
  /\ UNCHANGED <<ring, mods, char>>

Get == GetTest \/ GetRead \/ GetAdvance

Next == ShiftKey \/ CapsKey \/ (\E k \in Keys : Press(k)) \/ Get

(* The main loop polls the keyboard for ever; keys are pressed or not.     *)
Spec == Init /\ [][Next]_vars /\ WF_vars(Get)

-----------------------------------------------------------------------------
(* The queue the ring stands for.                                          *)

Count == IF tail <= head THEN head - tail ELSE head + BufferSize - tail
At(i) == IF tail + i - 1 < BufferSize THEN tail + i - 1
                                      ELSE tail + i - 1 - BufferSize
Queue == [i \in 1 .. Count |-> buffer[At(i)]]

Fifo == INSTANCE BoundedFifo WITH
          Items <- Chars, Capacity <- BufferSize - 1, NoItem <- NoChar,
          queue <- Queue, out <- returned

(* The ring is a bounded queue of BUFFER_SIZE - 1 characters: whatever     *)
(* interrupts come in the middle of keyboard_get_char, each accepted       *)
(* character is delivered, once and in order.                              *)
RefinesFifo == Fifo!Spec

(* The character read before the tail moves is still the oldest one when it*)
(* moves, and a call that found the ring not empty still finds it so.      *)
ReadStaysValid ==
  /\ pc # "main" => NotEmpty
  /\ pc = "advance" => char = buffer[tail]
=============================================================================
