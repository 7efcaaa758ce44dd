------------------------------- MODULE KMutex -------------------------------
(***************************************************************************)
(* The kernel mutex: kernel/src/utils/mutex.cpp and the part of             *)
(* crash_handler.cpp that releases the mutexes of a dying thread.           *)
(*                                                                          *)
(* A mutex masks interrupts for as long as the thread is inside any, so a   *)
(* critical section is left only by contending for another mutex.  What     *)
(* lies between two moments at which the CPU may change hands is one        *)
(* action.  The scheduler is VThread's: here it switches to any thread      *)
(* that still runs.                                                         *)
(*                                                                          *)
(* Mutexes are numbered in the order in which the kernel nests them (a      *)
(* keyboard event, a device queue, the page bitmap), and mutex_lock_guard   *)
(* unlocks them in the opposite one.                                        *)
(***************************************************************************)
EXTENDS Integers

CONSTANTS
  MaxThread,   \* threads 0 .. MaxThread; 0 is the main thread
  MaxMutex,    \* mutexes 1 .. MaxMutex
  ArraySize    \* MUTEX_ARRAY_SIZE

(* The kernel has far fewer mutexes than the array's 128 slots. *)
ASSUME SizeAssumption ==
  /\ MaxThread \in Nat
  /\ MaxMutex \in Nat
  /\ ArraySize \in Nat
  /\ ArraySize >= MaxMutex

Main    == 0
Threads == 0 .. MaxThread
Mutexes == 1 .. MaxMutex
Slots   == 1 .. ArraySize
Invalid == -1                 \* VTHREAD_HANDLE_INVALID
NoMutex == 0                  \* nullptr

Place == {"run", "exchange", "remove", "release", "clear"}
Life  == {"live", "crashing", "gone", "killed"}

VARIABLES
  locked,   \* mutex_t::locked
  handle,   \* mutex_t::handle
  array,    \* global_mutex_array
  depth,    \* tls->irq_disable_depth
  saved,    \* IF in tls->saved_irq_flags
  irq,      \* IF of the thread: live if it is current, else in its frame
  holds,    \* the critical sections the thread is in
  target,   \* p_mutex of the call it is in
  pc,       \* where its code is
  life,     \* what became of it
  current,  \* the thread that executes
  fatal     \* the main thread crashed

vars == <<locked, handle, array, depth, saved, irq, holds, target, pc, life,
          current, fatal>>

mutex == <<locked, handle, array>>
flags == <<depth, saved, irq>>
sched == <<life, current, fatal>>

Init ==
  /\ locked = [m \in Mutexes |-> FALSE]
  /\ handle = [m \in Mutexes |-> Invalid]
  /\ array = [i \in Slots |-> NoMutex]
  /\ depth = [t \in Threads |-> 0]
  /\ saved = [t \in Threads |-> TRUE]
  /\ irq = [t \in Threads |-> TRUE]
  /\ holds = [t \in Threads |-> {}]
  /\ target = [t \in Threads |-> NoMutex]
  /\ pc = [t \in Threads |-> "run"]
  /\ life = [t \in Threads |-> "live"]
  /\ current = Main
  /\ fatal = FALSE

-----------------------------------------------------------------------------
(* The scheduler's choice, and the calls that reach it.                     *)

Runnable == {t \in Threads : life[t] \in {"live", "crashing"}}

Switch == ~fatal /\ current' \in Runnable

At(t, place) == ~fatal /\ current = t /\ pc[t] = place

Tick ==
  /\ irq[current]
  /\ Switch
  /\ UNCHANGED <<mutex, flags, holds, target, pc, life, fatal>>

Yield(t) ==
  /\ At(t, "run")
  /\ holds[t] = {}
  /\ Switch
  /\ UNCHANGED <<mutex, flags, holds, target, pc, life, fatal>>

-----------------------------------------------------------------------------
(* mutex_lock                                                               *)

(* Mutant: a nested lock saves the flags again. *)
MutexLockSavesAgain(t, m) ==
  /\ At(t, "run")
  /\ life[t] = "live"
  /\ \A h \in holds[t] : h < m
  /\ saved' = [saved EXCEPT ![t] = irq[t]]
  /\ irq' = [irq EXCEPT ![t] = FALSE]
  /\ depth' = [depth EXCEPT ![t] = @ + 1]
  /\ target' = [target EXCEPT ![t] = m]
  /\ pc' = [pc EXCEPT ![t] = "exchange"]
  /\ UNCHANGED <<mutex, holds, sched>>

MutexLock(t, m) ==
  /\ At(t, "run")
  /\ life[t] = "live"
  /\ \A h \in holds[t] : h < m
  /\ IF depth[t] = 0
       THEN /\ saved' = [saved EXCEPT ![t] = irq[t]]
            /\ irq' = [irq EXCEPT ![t] = FALSE]
       ELSE UNCHANGED <<saved, irq>>
  /\ depth' = [depth EXCEPT ![t] = @ + 1]
  /\ target' = [target EXCEPT ![t] = m]
  /\ pc' = [pc EXCEPT ![t] = "exchange"]
  /\ UNCHANGED <<mutex, holds, sched>>

(* append_to_mutex_array: the first free slot, none if the array is full. *)
AppendToArray(m) ==
  LET free == {i \in Slots : array[i] = NoMutex} IN
  IF free = {} THEN array
               ELSE [array EXCEPT ![CHOOSE i \in free : \A j \in free : i <= j] = m]

Contend(t) ==
  /\ At(t, "exchange")
  /\ locked[target[t]]
  /\ Switch
  /\ UNCHANGED <<mutex, flags, holds, target, pc, life, fatal>>

(* Mutant: the result of the exchange is not looked at. *)
AcquireUntested(t) ==
  LET m == target[t] IN
  /\ At(t, "exchange")
  /\ locked' = [locked EXCEPT ![m] = TRUE]
  /\ handle' = [handle EXCEPT ![m] = t]
  /\ array' = AppendToArray(m)
  /\ holds' = [holds EXCEPT ![t] = @ \cup {m}]
  /\ pc' = [pc EXCEPT ![t] = "run"]
  /\ UNCHANGED <<flags, target, sched>>

Acquire(t) ==
  LET m == target[t] IN
  /\ At(t, "exchange")
  /\ ~locked[m]
  /\ locked' = [locked EXCEPT ![m] = TRUE]
  /\ handle' = [handle EXCEPT ![m] = t]
  /\ array' = AppendToArray(m)
  /\ holds' = [holds EXCEPT ![t] = @ \cup {m}]
  /\ pc' = [pc EXCEPT ![t] = "run"]
  /\ UNCHANGED <<flags, target, sched>>

-----------------------------------------------------------------------------
(* mutex_unlock: the flags come back before the mutex is free.              *)

StartUnlock(t, m) ==
  /\ handle' = [handle EXCEPT ![m] = Invalid]
  /\ depth' = [depth EXCEPT ![t] = @ - 1]
  /\ irq' = [irq EXCEPT ![t] = IF depth[t] = 1 THEN saved[t] ELSE @]
  /\ holds' = [holds EXCEPT ![t] = @ \ {m}]
  /\ target' = [target EXCEPT ![t] = m]
  /\ pc' = [pc EXCEPT ![t] = "remove"]
  /\ UNCHANGED <<locked, array, saved, sched>>

MutexUnlock(t, m) ==
  /\ At(t, "run")
  /\ m \in holds[t]
  /\ \A h \in holds[t] : h <= m
  /\ StartUnlock(t, m)

(* remove_from_mutex_array: the first slot that holds it. *)
RemoveFromArray(t) ==
  LET found == {i \in Slots : array[i] = target[t]} IN
  /\ At(t, "remove")
  /\ array' = IF found = {} THEN array
              ELSE [array EXCEPT ![CHOOSE i \in found : \A j \in found : i <= j] = NoMutex]
  /\ pc' = [pc EXCEPT ![t] = "release"]
  /\ UNCHANGED <<locked, handle, flags, holds, target, sched>>

Release(t) ==
  /\ At(t, "release")
  /\ locked' = [locked EXCEPT ![target[t]] = FALSE]
  /\ pc' = [pc EXCEPT ![t] = IF life[t] = "crashing" THEN "clear" ELSE "run"]
  /\ UNCHANGED <<handle, array, flags, holds, target, sched>>

-----------------------------------------------------------------------------
(* kernel_crash_handler, and vthread_terminate(handle) of another thread    *)

Crash(t) ==
  /\ At(t, "run")
  /\ IF t = Main
       THEN fatal' = TRUE /\ UNCHANGED <<irq, life, pc>>
       ELSE /\ irq' = [irq EXCEPT ![t] = FALSE]
            /\ life' = [life EXCEPT ![t] = "crashing"]
            /\ pc' = [pc EXCEPT ![t] = "clear"]
            /\ UNCHANGED fatal
  /\ UNCHANGED <<mutex, depth, saved, holds, target, current>>

OwnedByAnyone(t) == {i \in Slots : array[i] # NoMutex}   \* mutant: no owner test

OwnedButLast(t) ==                           \* mutant: the loop ends a slot early
  {i \in Slots : i < ArraySize /\ array[i] # NoMutex /\ handle[array[i]] = t}

(* mutex_clear_all_thread_references_and_release.  No slot is filled with a *)
(* mutex of this thread meanwhile, so its loop meets them in slot order.    *)
Owned(t) == {i \in Slots : array[i] # NoMutex /\ handle[array[i]] = t}

ClearNext(t) ==
  /\ At(t, "clear")
  /\ \E i \in Owned(t) : (\A j \in Owned(t) : i <= j) /\ StartUnlock(t, array[i])

(* Mutant: the thread goes before its mutexes are released. *)
TerminateAtOnce(t) ==
  /\ At(t, "clear")
  /\ life' = [life EXCEPT ![t] = "gone"]
  /\ current' \in Runnable \ {t}
  /\ UNCHANGED <<mutex, flags, holds, target, pc, fatal>>

(* vthread_terminate: the scheduler reaps the thread on its way. *)
Terminate(t) ==
  /\ At(t, "clear")
  /\ Owned(t) = {}
  /\ life' = [life EXCEPT ![t] = "gone"]
  /\ current' \in Runnable \ {t}
  /\ UNCHANGED <<mutex, flags, holds, target, pc, fatal>>

(* Nothing releases the mutexes of a thread that another one stops. *)
Kill(t, victim) ==
  /\ At(t, "run")
  /\ victim \notin {t, Main}
  /\ life[victim] = "live"
  /\ life' = [life EXCEPT ![victim] = "killed"]
  /\ UNCHANGED <<mutex, flags, holds, target, pc, current, fatal>>

-----------------------------------------------------------------------------
(* What the code of a thread does once it is inside mutex_lock,             *)
(* mutex_unlock or the crash handler.                                       *)
Inside(t) ==
  \/ Acquire(t)
  \/ RemoveFromArray(t)
  \/ Release(t)
  \/ ClearNext(t)
  \/ Terminate(t)

Step(t) ==
  \/ Inside(t)
  \/ Contend(t)
  \/ Yield(t)
  \/ \E m \in Mutexes : MutexLock(t, m) \/ MutexUnlock(t, m)
  \/ Crash(t)
  \/ \E victim \in Threads : Kill(t, victim)

Next == Tick \/ \E t \in Threads : Step(t)

Spec == Init /\ [][Next]_vars

(* Each thread is dispatched again and again (VThread, EveryThreadRuns) and *)
(* executes something before the next interrupt; and no critical section of *)
(* src/ is left open for ever.                                              *)
KMutexFairness ==
  \A t \in Threads :
    /\ SF_vars(Next /\ current # t /\ current' = t)
    /\ SF_vars(Inside(t))
    /\ \A m \in Mutexes : SF_vars(MutexUnlock(t, m))

-----------------------------------------------------------------------------
(* Properties                                                               *)

(* Every variable has the values the code can give it. *)
TypeOK ==
  /\ locked \in [Mutexes -> BOOLEAN]
  /\ handle \in [Mutexes -> Threads \cup {Invalid}]
  /\ array \in [Slots -> Mutexes \cup {NoMutex}]
  /\ depth \in [Threads -> Nat]
  /\ saved \in [Threads -> BOOLEAN]
  /\ irq \in [Threads -> BOOLEAN]
  /\ holds \in [Threads -> SUBSET Mutexes]
  /\ target \in [Threads -> Mutexes \cup {NoMutex}]
  /\ pc \in [Threads -> Place]
  /\ life \in [Threads -> Life]
  /\ current \in Threads
  /\ fatal \in BOOLEAN

(* What keeps a mutex locked: a critical section, or the end of its unlock. *)
Claims(t, m) ==
  \/ m \in holds[t]
  \/ pc[t] \in {"remove", "release"} /\ target[t] = m

(* No two threads are in the critical section of one mutex, although        *)
(* interrupts come back on while the mutex is still locked, a contender     *)
(* gives the CPU away inside its outer critical sections, and a crash       *)
(* unlocks mutexes out of order.                                            *)
MutualExclusion ==
  \A t, u \in Threads : t # u => holds[t] \cap holds[u] = {}

(* debug_trap("wrong thread tried mutex unlock") is never reached: whoever  *)
(* holds a mutex is written in it, and no late write of a former holder     *)
(* wipes that out.                                                          *)
UnlockedByItsOwner ==
  \A t \in Threads : \A m \in holds[t] : handle[m] = t

(* Nested locks, contention and switches never lose the interrupt flag: a   *)
(* thread has interrupts masked exactly while it is in mutex_lock or in a   *)
(* critical section, and gets them back with its last mutex.                *)
MaskedExactlyInside ==
  \A t \in Threads :
    life[t] = "live" => (irq[t] <=> holds[t] = {} /\ pc[t] # "exchange")

(* What the header says of the mutex, "w/o disabling interrupts"            *)
(* (include/utils/mutex.hpp:3-4): who waits for one or holds one can be     *)
(* interrupted.  mutex_lock clears the flag (mutex.cpp:50-51).              *)
HeldWithInterruptsOn ==
  \A t \in Threads :
    life[t] = "live" /\ (holds[t] # {} \/ pc[t] = "exchange") => irq[t]

(* A thread that crashed leaves no mutex locked behind it: every locked     *)
(* mutex is claimed by a thread that can still unlock it, or that was       *)
(* stopped by another.                                                      *)
NoMutexOrphaned ==
  \A m \in Mutexes :
    locked[m] => \E t \in Threads : Claims(t, m) /\ life[t] # "gone"

(* The innermost mutex, the one every allocation may need, never stays      *)
(* locked: no crash leaves it behind and no circle of threads waits around  *)
(* it.  Only stopping a thread by its handle can do that.  An outer mutex   *)
(* has no such promise: its holder may lose the race for an inner one again *)
(* and again, because mutex_lock keeps no queue.                            *)
InnermostComesFree ==
  locked[MaxMutex]
    ~> ~locked[MaxMutex] \/ fatal \/ \E t \in Threads : life[t] = "killed"
=============================================================================
