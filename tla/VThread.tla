------------------------------- MODULE VThread -------------------------------
(***************************************************************************)
(* The virtual-thread scheduler: kernel/src/virtual_thread.cpp, with the    *)
(* timer interrupt of drivers/pit.cpp that drives it and the thread-killing *)
(* path of crash_handler.cpp.                                               *)
(*                                                                          *)
(* One CPU.  `cpu' says what it executes: the code of thread `current', the *)
(* scheduler's loop inside an interrupt (one iteration per action; nothing  *)
(* else runs there, the gate clears IF), or nothing any more.  Between two  *)
(* actions of a thread the timer may fire, so each action is a piece of     *)
(* thread code in which a preemption changes nothing.                       *)
(*                                                                          *)
(* sleep_until_ms - now is kept as the remaining ticks, floored at 0: the   *)
(* code only ever compares the two.                                         *)
(***************************************************************************)
EXTENDS Integers, Sequences, SequencesExt

CONSTANTS
  MaxHandle,   \* bound: vhtread_next_handle stops being called after it
  MaxSleep,    \* bound: longest vthread_sleep, in ticks
  MaxCalls     \* bound: calls by handle (terminate, set_critical, wait)

ASSUME BoundsAssumption ==
  /\ MaxHandle \in Nat
  /\ MaxSleep \in Nat
  /\ MaxCalls \in Nat

Main    == 0                  \* VTHREAD_MAIN_THREAD_HANDLE
Handles == 0 .. MaxHandle

VThreadState == {"UNKNOWN", "STARTING", "RUNNING", "SLEEPING", "STOPPING"}

(* Where a thread's own code is.  "gone": no code left to run. *)
Place == {"gone", "entry", "promotion", "body", "count", "add", "find",
          "compare", "write", "sleep", "yield", "asleep", "main_sleep", "end"}

CallKind == {"terminate", "set_critical", "wait"}

VARIABLES
  table,      \* g_threads: handles in array order
  capacity,   \* of that array; it is reallocated when it grows
  state,      \* vt_state
  critical,   \* is_critical
  sleepLeft,  \* sleep_until_ms - clock_get_time_since_boot()
  counter,    \* global_vthread_handle_counter
  current,    \* handle in *global_current_thread
  cpu,        \* what the CPU executes
  cursor,     \* the scheduler's next_thread, as a position in table
  pc,         \* per thread, its Place
  local,      \* per thread, the locals of the call it is in
  calls       \* calls by handle still allowed

vars == <<table, capacity, state, critical, sleepLeft, counter, current,
          cpu, cursor, pc, local, calls>>

record  == <<table, capacity, state, critical, sleepLeft>>
context == <<pc, local, calls, counter>>
sched   == <<cpu, cursor, current>>

(* An iterator over the map's array: what it looks for, the slot it is at,  *)
(* and the array (named by its capacity) it points into.                    *)
NoCall == [kind |-> "wait", handle |-> Main, slot |-> 0, array |-> 0]

Locals == [kind : CallKind, handle : Handles, slot : Nat, array : Nat]

Halted == cpu \in {"fatal", "hung"}

Init ==
  /\ table = <<Main>>
  /\ capacity = 2
  /\ state = [h \in Handles |-> IF h = Main THEN "RUNNING" ELSE "UNKNOWN"]
  /\ critical = [h \in Handles |-> h = Main]
  /\ sleepLeft = [h \in Handles |-> 0]
  /\ counter = 1
  /\ current = Main
  /\ cpu = "thread"
  /\ cursor = 1
  /\ pc = [h \in Handles |-> IF h = Main THEN "body" ELSE "gone"]
  /\ local = [h \in Handles |-> NoCall]
  /\ calls = MaxCalls

-----------------------------------------------------------------------------
(* The scheduler: vthread_schedule, in the timer interrupt or in int 129.   *)

PositionOf(h) == CHOOSE i \in 1 .. Len(table) : table[i] = h

(* Mutant: the last entry is never reached. *)
NextPositionShort(i) == IF i < Len(table) - 1 THEN i + 1 ELSE 1

(* vthread_get_next_thead: the entry after position i, or the first one. *)
NextPosition(i) == IF i < Len(table) THEN i + 1 ELSE 1

(* Entry of vthread_schedule: with one thread it returns to it at once. *)
Schedule ==
  IF Len(table) <= 1
    THEN UNCHANGED sched
    ELSE /\ cpu' = "scan"
         /\ cursor' = NextPosition(PositionOf(current))
         /\ UNCHANGED current

Scanned == table[cursor]

(* set_current_process and vthread_load_context go with the switch. *)
Dispatch ==
  /\ current' = Scanned
  /\ cpu' = "thread"
  /\ cursor' = 1

SkipScanned ==
  /\ cursor' = NextPosition(cursor)
  /\ UNCHANGED <<cpu, current>>

(* Mutant: a stopping thread is handled as a running one. *)
ScanRunningOrStopping ==
  /\ cpu = "scan"
  /\ state[Scanned] \in {"RUNNING", "STOPPING"}
  /\ Dispatch
  /\ UNCHANGED <<record, context>>

ScanRunning ==
  /\ cpu = "scan"
  /\ state[Scanned] = "RUNNING"
  /\ Dispatch
  /\ UNCHANGED <<record, context>>

(* vthread_handle_starting: promoted, but not the one to run this time. *)
ScanStarting ==
  /\ cpu = "scan"
  /\ state[Scanned] = "STARTING"
  /\ state' = [state EXCEPT ![Scanned] = "RUNNING"]
  /\ SkipScanned
  /\ UNCHANGED <<table, capacity, critical, sleepLeft, context>>

(* Mutant: the deadline is not compared. *)
ScanWakesEarly ==
  /\ cpu = "scan"
  /\ state[Scanned] = "SLEEPING"
  /\ state' = [state EXCEPT ![Scanned] = "RUNNING"]
  /\ Dispatch
  /\ UNCHANGED <<table, capacity, critical, sleepLeft, context>>

(* vthread_handle_sleeping, deadline reached: goto jumpout. *)
ScanWakes ==
  /\ cpu = "scan"
  /\ state[Scanned] = "SLEEPING"
  /\ sleepLeft[Scanned] = 0
  /\ state' = [state EXCEPT ![Scanned] = "RUNNING"]
  /\ Dispatch
  /\ UNCHANGED <<table, capacity, critical, sleepLeft, context>>

ScanSleeping ==
  /\ cpu = "scan"
  /\ state[Scanned] = "SLEEPING"
  /\ sleepLeft[Scanned] > 0
  /\ SkipScanned
  /\ UNCHANGED <<record, context>>

(* vthread_handle_stopping on a critical thread: kernel_fatal never returns *)
ScanCriticalDied ==
  /\ cpu = "scan"
  /\ state[Scanned] = "STOPPING"
  /\ critical[Scanned]
  /\ cpu' = "fatal"
  /\ UNCHANGED <<record, context, cursor, current>>

(* Mutant: the record is left in the map, to be reaped another time. *)
ScanReapsNothing ==
  /\ cpu = "scan"
  /\ state[Scanned] = "STOPPING"
  /\ ~critical[Scanned]
  /\ SkipScanned
  /\ UNCHANGED <<record, context>>

(* vthread_handle_stopping: stacks and record are freed, the entry leaves   *)
(* the map, and the search restarts at its first entry, because the handle  *)
(* it goes on from is VTHREAD_HANDLE_INVALID.                                *)
ScanReaps ==
  /\ cpu = "scan"
  /\ state[Scanned] = "STOPPING"
  /\ ~critical[Scanned]
  /\ table' = RemoveAt(table, cursor)
  /\ state' = [state EXCEPT ![Scanned] = "UNKNOWN"]
  /\ pc' = [pc EXCEPT ![Scanned] = "gone"]
  /\ local' = [local EXCEPT ![Scanned] = NoCall]
  /\ sleepLeft' = [sleepLeft EXCEPT ![Scanned] = 0]
  /\ cursor' = 1
  /\ UNCHANGED <<capacity, critical, calls, counter, cpu, current>>

(* Mutant: the time left is a difference that nothing keeps from wrapping. *)
TickUnfloored ==
  /\ cpu = "thread"
  /\ sleepLeft' = [h \in Handles |-> sleepLeft[h] - 1]
  /\ Schedule
  /\ UNCHANGED <<table, capacity, state, critical, context>>

(* pit_handle_interrupt: one tick, then the scheduler. *)
Tick ==
  /\ cpu = "thread"
  /\ sleepLeft' = [h \in Handles |-> IF sleepLeft[h] > 0 THEN sleepLeft[h] - 1 ELSE 0]
  /\ Schedule
  /\ UNCHANGED <<table, capacity, state, critical, context>>

-----------------------------------------------------------------------------
(* The code of the current thread.                                          *)

Runs(place) == cpu = "thread" /\ pc[current] = place

Goto(place) == pc' = [pc EXCEPT ![current] = place]

SetOwnState(s) == state' = [state EXCEPT ![current] = s]

(* vthread_entry_point of a thread made by vthread_create *)
EntryPoint ==
  /\ Runs("entry")
  /\ SetOwnState("STARTING")
  /\ Goto("promotion")
  /\ UNCHANGED <<table, capacity, critical, sleepLeft, local, calls, counter, sched>>

AwaitPromotion ==
  /\ Runs("promotion")
  /\ IF state[current] = "STARTING"
       THEN Schedule /\ UNCHANGED pc
       ELSE Goto("body") /\ UNCHANGED sched
  /\ UNCHANGED <<record, local, calls, counter>>

(* The entry function returned; the thread then spins until it is reaped. *)
EntryReturns ==
  /\ Runs("body")
  /\ current # Main
  /\ SetOwnState("STOPPING")
  /\ Goto("end")
  /\ UNCHANGED <<table, capacity, critical, sleepLeft, local, calls, counter, sched>>

Yield ==
  /\ Runs("body")
  /\ Schedule
  /\ UNCHANGED <<record, context>>

(* vthread_terminate() of a system call or of the crash handler: both run   *)
(* with interrupts masked, so the state and the yield are one step.         *)
StopOneself ==
  /\ SetOwnState("STOPPING")
  /\ Goto("end")
  /\ Schedule
  /\ UNCHANGED <<table, capacity, critical, sleepLeft, local, calls, counter>>

TerminateSelf ==
  /\ Runs("body")
  /\ current # Main
  /\ StopOneself

(* kernel_crash_handler.  A thread that is STOPPING already is not yielded  *)
(* from: it spins with interrupts disabled.  The main thread takes the      *)
(* whole system down.                                                       *)
CrashHandler ==
  \/ /\ current # Main
     /\ state[current] # "STOPPING"
     /\ StopOneself
  \/ /\ current # Main
     /\ state[current] = "STOPPING"
     /\ cpu' = "hung"
     /\ UNCHANGED <<record, context, cursor, current>>
  \/ /\ current = Main
     /\ cpu' = "fatal"
     /\ UNCHANGED <<record, context, cursor, current>>

Crash == Runs("body") /\ CrashHandler

(* Mutant: the main thread goes to sleep like any other. *)
SleepAnyThread(d) ==
  /\ Runs("body")
  /\ sleepLeft' = [sleepLeft EXCEPT ![current] = d]
  /\ Goto("sleep")
  /\ UNCHANGED <<table, capacity, state, critical, local, calls, counter, sched>>

(* vthread_sleep: the deadline is written first, then the state. *)
SleepSetDeadline(d) ==
  /\ Runs("body")
  /\ sleepLeft' = [sleepLeft EXCEPT ![current] = d]
  /\ Goto(IF current = Main THEN "main_sleep" ELSE "sleep")
  /\ UNCHANGED <<table, capacity, state, critical, local, calls, counter, sched>>

SleepSetState ==
  /\ Runs("sleep")
  /\ SetOwnState("SLEEPING")
  /\ Goto("yield")
  /\ UNCHANGED <<table, capacity, critical, sleepLeft, local, calls, counter, sched>>

SleepYield ==
  /\ Runs("yield")
  /\ Goto("asleep")
  /\ Schedule
  /\ UNCHANGED <<record, local, calls, counter>>

SleepReturns ==
  /\ Runs("asleep")
  /\ Goto("body")
  /\ UNCHANGED <<record, local, calls, counter, sched>>

(* The main thread may not sleep: it yields until its deadline. *)
MainSleep ==
  /\ Runs("main_sleep")
  /\ IF sleepLeft[current] > 0
       THEN Schedule /\ UNCHANGED pc
       ELSE Goto("body") /\ UNCHANGED sched
  /\ UNCHANGED <<record, local, calls, counter>>

-----------------------------------------------------------------------------
(* vthread_create and create_process: a handle is counted, then added.      *)

(* counter++ is a load and a store: a preemption may fall between them. *)
CountLoad ==
  /\ Runs("body")
  /\ counter \in Handles
  /\ local' = [local EXCEPT ![current] = [NoCall EXCEPT !.handle = counter]]
  /\ Goto("count")
  /\ UNCHANGED <<record, calls, counter, sched>>

CountStore ==
  /\ Runs("count")
  /\ counter' = local[current].handle + 1
  /\ Goto("add")
  /\ UNCHANGED <<record, local, calls, sched>>

(* vthread_add: one step under global_thread_lock, which masks interrupts.  *)
(* A thread of vthread_create starts in vthread_entry_point; a process      *)
(* starts in its own code.                                                  *)
Add(first) ==
  LET h == local[current].handle IN
  /\ Runs("add")
  /\ ~Contains(table, h)
  /\ table' = Append(table, h)
  /\ capacity' = IF Len(table) = capacity THEN capacity + 2 ELSE capacity
  /\ state' = [state EXCEPT ![h] = "RUNNING"]
  /\ critical' = [critical EXCEPT ![h] = FALSE]
  /\ sleepLeft' = [sleepLeft EXCEPT ![h] = 0]
  /\ pc' = [pc EXCEPT ![h] = first, ![current] = "body"]
  /\ local' = [local EXCEPT ![h] = NoCall, ![current] = NoCall]
  /\ UNCHANGED <<calls, counter, sched>>

(* vthread_init found no memory, or the map already held the handle. *)
AddFails ==
  /\ Runs("add")
  /\ Goto("body")
  /\ local' = [local EXCEPT ![current] = NoCall]
  /\ UNCHANGED <<record, calls, counter, sched>>

-----------------------------------------------------------------------------
(* Calls by handle look the handle up with linear_map::get, which takes no  *)
(* lock, and use the iterator afterwards.                                   *)

Call(kind, h) ==
  /\ Runs("body")
  /\ calls > 0
  /\ h # Main
  /\ calls' = calls - 1
  /\ local' = [local EXCEPT ![current] =
                 [kind |-> kind, handle |-> h, slot |-> 1, array |-> capacity]]
  /\ Goto("find")
  /\ UNCHANGED <<record, counter, sched>>

CallReturns ==
  /\ Goto("body")
  /\ local' = [local EXCEPT ![current] = NoCall]

(* The iterator left the array: it points into a freed one, or past an end  *)
(* that moved behind it.  Destroyed slots hold null pointers: it faults.    *)
Astray(last) == local[current].array # capacity \/ local[current].slot > last

FindFaults ==
  /\ Runs("find")
  /\ Astray(Len(table) + 1)
  /\ CrashHandler

(* The search may also stop at the key a destroyed slot still holds; only  *)
(* vthread_wait_for_close looks no further than the key, and starts over.  *)
FindStaleKey ==
  /\ Runs("find")
  /\ Astray(Len(table) + 1)
  /\ local[current].kind = "wait"
  /\ local' = [local EXCEPT ![current].slot = 1, ![current].array = capacity]
  /\ UNCHANGED <<record, pc, calls, counter, sched>>

(* get() returns the end of the array as it is now ...                     *)
FindEnds ==
  /\ Runs("find")
  /\ ~Astray(Len(table) + 1)
  /\ local[current].slot = Len(table) + 1
  /\ Goto("compare")
  /\ UNCHANGED <<record, local, calls, counter, sched>>

FindMisses ==
  /\ Runs("find")
  /\ ~Astray(Len(table))
  /\ table[local[current].slot] # local[current].handle
  /\ local' = [local EXCEPT ![current].slot = @ + 1]
  /\ UNCHANGED <<record, pc, calls, counter, sched>>

FindHits ==
  /\ Runs("find")
  /\ ~Astray(Len(table))
  /\ table[local[current].slot] = local[current].handle
  /\ Goto("compare")
  /\ UNCHANGED <<record, local, calls, counter, sched>>

(* ... and the caller compares what it got with the end as it is then.      *)
AtEnd == local[current].array = capacity /\ local[current].slot = Len(table) + 1

CompareEnds ==
  /\ Runs("compare")
  /\ AtEnd
  /\ CallReturns
  /\ UNCHANGED <<record, calls, counter, sched>>

(* vthread_wait_for_close starts over; the others have their iterator. *)
CompareFinds ==
  /\ Runs("compare")
  /\ ~AtEnd
  /\ IF local[current].kind = "wait"
       THEN /\ local' = [local EXCEPT ![current].slot = 1, ![current].array = capacity]
            /\ Goto("find")
       ELSE Goto("write") /\ UNCHANGED local
  /\ UNCHANGED <<record, calls, counter, sched>>

WriteFaults ==
  /\ Runs("write")
  /\ Astray(Len(table))
  /\ CrashHandler

WriteTerminate ==
  /\ Runs("write")
  /\ ~Astray(Len(table))
  /\ local[current].kind = "terminate"
  /\ state' = [state EXCEPT ![table[local[current].slot]] = "STOPPING"]
  /\ CallReturns
  /\ UNCHANGED <<table, capacity, critical, sleepLeft, calls, counter, sched>>

WriteCritical ==
  /\ Runs("write")
  /\ ~Astray(Len(table))
  /\ local[current].kind = "set_critical"
  /\ critical' = [critical EXCEPT ![table[local[current].slot]] = TRUE]
  /\ CallReturns
  /\ UNCHANGED <<table, capacity, state, sleepLeft, calls, counter, sched>>

-----------------------------------------------------------------------------
Scan ==
  \/ ScanRunning
  \/ ScanStarting
  \/ ScanWakes
  \/ ScanSleeping
  \/ ScanCriticalDied
  \/ ScanReaps

ThreadCode ==
  \/ EntryPoint
  \/ AwaitPromotion
  \/ EntryReturns
  \/ Yield
  \/ TerminateSelf
  \/ Crash
  \/ \E d \in 0 .. MaxSleep : SleepSetDeadline(d)
  \/ SleepSetState
  \/ SleepYield
  \/ SleepReturns
  \/ MainSleep
  \/ CountLoad
  \/ CountStore
  \/ \E first \in {"entry", "body"} : Add(first)
  \/ AddFails
  \/ \E kind \in CallKind, h \in Handles : Call(kind, h)
  \/ FindFaults
  \/ FindStaleKey
  \/ FindEnds
  \/ FindMisses
  \/ FindHits
  \/ CompareEnds
  \/ CompareFinds
  \/ WriteFaults
  \/ WriteTerminate
  \/ WriteCritical

Next == Scan \/ Tick \/ ThreadCode

Spec == Init /\ [][Next]_vars

(* The PIT keeps interrupting and a masked tick stays pending until the     *)
(* next iretq sets IF again: strong fairness.  The CPU runs the scheduler's *)
(* loop and the code around a yield to their ends: weak fairness.           *)
FairSpec ==
  /\ Spec
  /\ SF_vars(Tick)
  /\ WF_vars(Scan)

-----------------------------------------------------------------------------
(* Properties                                                               *)

(* Every variable has the values the code can give it. *)
TypeOK ==
  /\ table \in Seq(Handles)
  /\ capacity \in Nat
  /\ state \in [Handles -> VThreadState]
  /\ critical \in [Handles -> BOOLEAN]
  /\ sleepLeft \in [Handles -> Nat]
  /\ counter \in Nat
  /\ current \in Handles
  /\ cpu \in {"thread", "scan", "fatal", "hung"}
  /\ cursor \in Nat
  /\ pc \in [Handles -> Place]
  /\ local \in [Handles -> Locals]
  /\ calls \in Nat

(* global_current_thread never dangles, and the interrupt never frees the   *)
(* stack it runs on: the loop of vthread_schedule, which may free any       *)
(* thread it meets, stops at the main thread before it comes round to the   *)
(* thread it left.                                                          *)
CurrentNeverFreed == Contains(table, current)

(* A thread stopped while it is not running executes nothing more: no path  *)
(* of the scheduler and no call of another thread takes it out of STOPPING  *)
(* but its removal, and it is never switched to.                            *)
StoppedIsFinal ==
  [][\A h \in Handles :
       state[h] = "STOPPING" /\ h # current
         => /\ state'[h] \in {"STOPPING", "UNKNOWN"}
            /\ current' # h]_vars

(* vthread_sleep returns no earlier than the deadline, wherever the timer   *)
(* preempts it and whoever writes to its record meanwhile.                  *)
SleepsLongEnough ==
  [][\A h \in Handles :
       pc[h] = "asleep" /\ pc'[h] = "body" => sleepLeft[h] = 0]_vars

(* vthread_terminate(handle) "closes a thread forcefully", the one with     *)
(* that handle (virtual_thread.hpp:127): a thread that enters STOPPING      *)
(* stopped itself or is the one the caller named.                           *)
TerminateHitsItsTarget ==
  [][\A h \in Handles :
       state[h] # "STOPPING" /\ state'[h] = "STOPPING" /\ h # current
         => local[current].handle = h]_vars

(* vthread_wait_for_close "waits until the thread with the given handle is  *)
(* closed & removed" (virtual_thread.hpp:118).                              *)
WaitOutlastsTarget ==
  [][\A h \in Handles :
       /\ pc[h] = "compare" /\ pc'[h] = "body"
       /\ local[h].kind = "wait"
       => ~Contains(table, local[h].handle)]_vars

(* Round robin without starvation: a thread that is ready, or asleep with a *)
(* deadline, runs again unless it is stopped or the kernel has halted.      *)
EveryThreadRuns ==
  \A h \in Handles :
    state[h] \in {"STARTING", "RUNNING", "SLEEPING"}
      ~> \/ current = h /\ cpu = "thread"
         \/ state[h] \in {"STOPPING", "UNKNOWN"}
         \/ Halted

(* A thread stopped while another runs is removed, or its being critical    *)
(* brings the kernel to its fatal screen.                                   *)
StoppedIsReaped ==
  \A h \in Handles :
    state[h] = "STOPPING" /\ h # current /\ cpu = "thread"
      ~> ~Contains(table, h) \/ Halted
=============================================================================
