----------------------------- MODULE RingBuffer -----------------------------
(***************************************************************************)
(* std::ring_buffer between an interrupt handler and the thread that drains *)
(* it: shared/include/std/ring_buffer.hpp as kernel/src/drivers/ps2 uses it *)
(* for keys and mouse packets and network/nidm.cpp for received frames.     *)
(*                                                                          *)
(* insert() runs inside the interrupt, where nothing preempts it.  get()    *)
(* runs in a thread, and the interrupt may come between any two of its      *)
(* instructions: after the test for emptiness, in the middle of the copy of *)
(* an entry (larger than a machine word: two halves stand for its words),   *)
(* and before the new tail is stored.                                       *)
(***************************************************************************)
EXTENDS Integers, Sequences

CONSTANTS
  Data,     \* entries the device can produce
  Zero,     \* the entry of zeros of static storage
  N         \* buffer_size

ASSUME BufferAssumption ==
  /\ N \in Nat \ {0}
  /\ Zero \in Data

BufferSlots == 0 .. N - 1

VARIABLES
  buffer,
  head,       \* where the next entry goes
  tail,       \* the oldest entry
  reader,         \* what the draining thread does
  first,      \* the half of the entry it has copied first
  second,     \* and the other one
  handled     \* the entry it handled last

ringVars == <<buffer, head, tail, reader, first, second, handled>>

RingInit ==
  /\ buffer = [i \in BufferSlots |-> Zero]
  /\ head = 0
  /\ tail = 0
  /\ reader = "poll"
  /\ first = Zero
  /\ second = Zero
  /\ handled = Zero

(* Mutant: a full buffer overwrites its oldest entry. *)
InsertAlways(d) ==
  /\ buffer' = [buffer EXCEPT ![head] = d]
  /\ head' = (head + 1) % N
  /\ UNCHANGED <<tail, reader, first, second, handled>>

(* insert(), from the interrupt of the device; its result is ignored. *)
Insert(d) ==
  LET next == (head + 1) % N IN
  /\ IF next = tail
       THEN UNCHANGED <<buffer, head>>
       ELSE buffer' = [buffer EXCEPT ![head] = d] /\ head' = next
  /\ UNCHANGED <<tail, reader, first, second, handled>>

(* get(): an empty buffer sends the thread to vthread_yield and back. *)
GetTests ==
  /\ reader = "poll"
  /\ head # tail
  /\ reader' = "copy"
  /\ UNCHANGED <<buffer, head, tail, first, second, handled>>

GetCopiesFirst ==
  /\ reader = "copy"
  /\ first' = buffer[tail]
  /\ reader' = "copying"
  /\ UNCHANGED <<buffer, head, tail, second, handled>>

GetCopiesSecond ==
  /\ reader = "copying"
  /\ second' = buffer[tail]
  /\ reader' = "copied"
  /\ UNCHANGED <<buffer, head, tail, first, handled>>

(* Mutant: the entry that was copied stays the oldest. *)
GetKeepsIt ==
  /\ reader = "copied"
  /\ handled' = first
  /\ reader' = "poll"
  /\ UNCHANGED <<buffer, head, tail, first, second>>

(* tail moves on; fire_event or ethernet_receive get the copy. *)
GetAdvances ==
  /\ reader = "copied"
  /\ tail' = (tail + 1) % N
  /\ handled' = first
  /\ reader' = "poll"
  /\ UNCHANGED <<buffer, head, first, second>>

Get == GetTests \/ GetCopiesFirst \/ GetCopiesSecond \/ GetAdvances

RingNext == (\E d \in Data : Insert(d)) \/ Get

RingSpec == RingInit /\ [][RingNext]_ringVars

(* The draining threads loop for ever and every thread is scheduled again   *)
(* and again (VThread, EveryThreadRuns).                                    *)
RingFairness == WF_ringVars(Get)

-----------------------------------------------------------------------------
(* Properties                                                               *)

(* Every variable has the values the code can give it. *)
RingTypeOK ==
  /\ buffer \in [BufferSlots -> Data]
  /\ head \in BufferSlots
  /\ tail \in BufferSlots
  /\ reader \in {"poll", "copy", "copying", "copied"}
  /\ first \in Data
  /\ second \in Data
  /\ handled \in Data

(* size(), and the entries from the oldest to the newest *)
Size == (head + N - tail) % N

Contents == [i \in 1 .. Size |-> buffer[(tail + i - 1) % N]]

(* The two halves of a copied entry belong together, although the interrupt *)
(* may fill the buffer while they are copied: it never writes the slot that *)
(* is being read.                                                           *)
NeverTorn == reader = "copied" => first = second

(* The ring is a bounded first-in first-out queue of one entry less than    *)
(* its slots: it drops an entry only when that many wait, never loses,      *)
(* repeats or reorders one, and hands each over at last.                    *)
Fifo == INSTANCE BoundedFifo WITH
          queue <- Contents, taken <- handled, Capacity <- N - 1

IsBoundedFifo == Fifo!FairSpec
=============================================================================
