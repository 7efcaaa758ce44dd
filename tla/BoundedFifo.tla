---------------------------- MODULE BoundedFifo ----------------------------
(***************************************************************************)
(* What std::ring_buffer promises to an interrupt that fills it and a       *)
(* thread that empties it: a queue of at most Capacity entries, which come  *)
(* out in the order they went in, each once.  An entry that finds the queue *)
(* full is dropped, and nothing else ever is.                               *)
(***************************************************************************)
EXTENDS Integers, Sequences

CONSTANTS
  Data,       \* what is queued
  Zero,       \* the value of an entry nobody wrote
  Capacity

VARIABLES
  queue,      \* oldest first
  taken       \* the entry that was taken last

vars == <<queue, taken>>

Init == queue = <<>> /\ taken = Zero

Put(d) ==
  /\ queue' = IF Len(queue) < Capacity THEN Append(queue, d) ELSE queue
  /\ UNCHANGED taken

Take ==
  /\ queue # <<>>
  /\ taken' = Head(queue)
  /\ queue' = Tail(queue)

Next == (\E d \in Data : Put(d)) \/ Take

Spec == Init /\ [][Next]_vars

(* The reader comes back as long as there is something to read. *)
FairSpec == Spec /\ WF_vars(Take)
=============================================================================
