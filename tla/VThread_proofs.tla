---------------------------- MODULE VThread_proofs ----------------------------
(***************************************************************************)
(* For every number of threads, sleep length and number of calls: the       *)
(* scheduler never frees the thread it is running on, what was stopped      *)
(* while not running never runs again, and no sleep ends early.             *)
(***************************************************************************)
EXTENDS VThread, SequenceTheorems, TLAPS

(* Removing the i-th entry of a sequence shifts the later ones down by one. *)
LEMMA RemoveAtShifts ==
  ASSUME NEW S, NEW s \in Seq(S), NEW i \in 1 .. Len(s)
  PROVE  /\ RemoveAt(s, i) \in Seq(S)
         /\ Len(RemoveAt(s, i)) = Len(s) - 1
         /\ \A j \in 1 .. Len(s) - 1 :
              RemoveAt(s, i)[j] = IF j < i THEN s[j] ELSE s[j + 1]
  <1> DEFINE a == SubSeq(s, 1, i - 1)
             b == SubSeq(s, i + 1, Len(s))
  <1>1. /\ a \in Seq(S) /\ Len(a) = i - 1
        /\ \A j \in 1 .. i - 1 : a[j] = s[j]
    OBVIOUS
  <1>2. /\ b \in Seq(S) /\ Len(b) = Len(s) - i
        /\ \A j \in 1 .. Len(s) - i : b[j] = s[j + i]
    OBVIOUS
  <1>3. RemoveAt(s, i) = a \o b
    BY DEF RemoveAt
  <1> HIDE DEF a, b
  <1>4. /\ a \o b \in Seq(S) /\ Len(a \o b) = Len(a) + Len(b)
        /\ \A j \in 1 .. Len(a) + Len(b) :
             (a \o b)[j] = IF j <= Len(a) THEN a[j] ELSE b[j - Len(a)]
    BY <1>1, <1>2, ConcatProperties
  <1>5. Len(a \o b) = Len(s) - 1
    BY <1>1, <1>2, <1>4
  <1>6. ASSUME NEW j \in 1 .. Len(s) - 1
        PROVE  (a \o b)[j] = IF j < i THEN s[j] ELSE s[j + 1]
    <2>1. CASE j < i
      BY <1>1, <1>2, <1>4, <2>1
    <2>2. CASE ~(j < i)
      <3>1. (a \o b)[j] = b[j - (i - 1)]
        BY <1>1, <1>2, <1>4, <2>2
      <3>2. j - (i - 1) \in 1 .. Len(s) - i
        BY <2>2
      <3>3. b[j - (i - 1)] = s[j - (i - 1) + i]
        BY <1>2, <3>2
      <3> QED
        BY <2>2, <3>1, <3>3
    <2> QED
      BY <2>1, <2>2
  <1> QED
    BY <1>3, <1>4, <1>5, <1>6

-----------------------------------------------------------------------------
(* The inductive invariant.                                                 *)

(* g_threads: the main thread first, no handle twice, and every thread that *)
(* has a state is in it.                                                    *)
TableInv ==
  /\ Len(table) >= 1
  /\ table[1] = Main
  /\ \A i, j \in 1 .. Len(table) : table[i] = table[j] => i = j
  /\ \A h \in Handles : state[h] # "UNKNOWN" => \E i \in 1 .. Len(table) : table[i] = h

(* The main thread stays RUNNING: nothing it executes and no call by handle *)
(* gives it another state, because an iterator that was found is past the   *)
(* first slot.                                                              *)
MainInv ==
  /\ state[Main] = "RUNNING"
  /\ pc[Main] \notin {"entry", "sleep"}
  /\ counter >= 1
  /\ \A h \in Handles : pc[h] \in {"find", "compare"} => local[h].slot >= 1 /\ local[h].handle # Main
  /\ \A h \in Handles : pc[h] \in {"compare", "write"} => local[h].slot >= 2

(* The scan has not come round to the thread it left. *)
ScanInv ==
  \E i \in 1 .. Len(table) :
    /\ table[i] = current
    /\ cpu = "scan" => /\ cursor \in 1 .. Len(table)
                       /\ cursor = 1 \/ cursor > i

IInv == TypeOK /\ TableInv /\ MainInv /\ ScanInv

LEMMA InitIInv == Init => IInv
  <1> SUFFICES ASSUME Init PROVE IInv
    OBVIOUS
  <1>1. TypeOK
    BY BoundsAssumption DEF Init, TypeOK, Main, Handles, VThreadState, Place, NoCall, Locals, CallKind
  <1>2. TableInv /\ MainInv /\ ScanInv
    BY BoundsAssumption DEF Init, TableInv, MainInv, ScanInv, Main, Handles
  <1> QED
    BY <1>1, <1>2 DEF IInv

(* Entering the scheduler from the code of a thread starts the scan right   *)
(* after it.                                                                *)
LEMMA ScheduleStartsScan ==
  ASSUME IInv, cpu = "thread", Schedule, UNCHANGED table
  PROVE  /\ ScanInv'
         /\ cpu' \in {"thread", "scan", "fatal", "hung"}
         /\ cursor' \in Nat
         /\ current' = current
  <1>1. PICK i \in 1 .. Len(table) : table[i] = current
    BY DEF IInv, ScanInv
  <1>2. Len(table) \in Nat
    BY DEF IInv, TypeOK
  <1>3. PositionOf(current) = i
    BY <1>1 DEF IInv, TableInv, PositionOf
  <1>4. CASE Len(table) <= 1
    BY <1>1, <1>2, <1>4 DEF IInv, TypeOK, ScanInv, Schedule, sched
  <1>5. CASE Len(table) > 1
    <2>1. /\ cpu' = "scan" /\ current' = current /\ table' = table
          /\ cursor' = IF i < Len(table) THEN i + 1 ELSE 1
      BY <1>3, <1>5 DEF Schedule, NextPosition
    <2>2. /\ cursor' \in 1 .. Len(table')
          /\ cursor' = 1 \/ cursor' > i
      BY <1>2, <2>1
    <2> QED
      BY <1>1, <1>2, <2>1, <2>2 DEF ScanInv
  <1> QED
    BY <1>2, <1>4, <1>5

(* The locals of a call keep their type when an iterator is set or moved. *)
LEMMA LocalsTypes ==
  /\ Main \in Handles
  /\ NoCall \in Locals
  /\ \A h \in Handles : [NoCall EXCEPT !.handle = h] \in Locals
  /\ \A l \in Locals, n \in Nat : [l EXCEPT !.slot = n] \in Locals
  /\ \A l \in Locals, n, m \in Nat : [l EXCEPT !.slot = n, !.array = m] \in Locals
  <1>1. Main \in Handles
    BY BoundsAssumption DEF Main, Handles
  <1>2. "wait" \in CallKind
    BY DEF CallKind
  <1>3. NoCall \in Locals
    BY <1>1, <1>2 DEF NoCall, Locals
  <1>4. \A h \in Handles : [NoCall EXCEPT !.handle = h] \in Locals
    BY <1>1, <1>2 DEF NoCall, Locals
  <1>5. ASSUME NEW l \in Locals, NEW n \in Nat
        PROVE  [l EXCEPT !.slot = n] \in Locals
    BY DEF Locals
  <1>6. ASSUME NEW l \in Locals, NEW n \in Nat, NEW m \in Nat
        PROVE  [l EXCEPT !.slot = n, !.array = m] \in Locals
    BY DEF Locals
  <1> QED
    BY <1>1, <1>3, <1>4, <1>5, <1>6

(* The running thread has an entry, so giving it a state keeps TableInv. *)
LEMMA TableStays ==
  ASSUME IInv, UNCHANGED table,
         \A h \in Handles : state'[h] # "UNKNOWN" => state[h] # "UNKNOWN" \/ h = current
  PROVE  TableInv'
  BY DEF IInv, TableInv, ScanInv

(* A thread other than the main one that stops itself keeps the invariant. *)
LEMMA StopOneselfKeeps ==
  ASSUME IInv, cpu = "thread", current # Main, StopOneself
  PROVE  IInv'
  <1> USE DEF StopOneself
  <1>1. UNCHANGED table /\ Schedule
    OBVIOUS
  <1>2. /\ ScanInv'
        /\ cpu' \in {"thread", "scan", "fatal", "hung"}
        /\ cursor' \in Nat
        /\ current' = current
    BY <1>1, ScheduleStartsScan
  <1>3. TypeOK'
    BY <1>2 DEF IInv, TypeOK, SetOwnState, Goto, VThreadState, Place
  <1>4. TableInv'
    BY <1>1, TableStays DEF IInv, TypeOK, SetOwnState
  <1>5. MainInv'
    BY LocalsTypes DEF IInv, TypeOK, MainInv, SetOwnState, Goto
  <1> QED
    BY <1>2, <1>3, <1>4, <1>5 DEF IInv

(* So does the crash of any thread. *)
LEMMA CrashKeeps ==
  ASSUME IInv, cpu = "thread", CrashHandler
  PROVE  IInv'
  <1>1. CASE current # Main /\ StopOneself
    BY <1>1, StopOneselfKeeps
  <1>2. CASE /\ cpu' \in {"hung", "fatal"}
             /\ UNCHANGED <<record, context, cursor, current>>
    BY <1>2 DEF IInv, TypeOK, TableInv, MainInv, ScanInv, record, context
  <1> QED
    BY <1>1, <1>2 DEF CrashHandler

(* Every step keeps the invariant. *)
LEMMA NextIInv == IInv /\ [Next]_vars => IInv'
  <1> SUFFICES ASSUME IInv, [Next]_vars PROVE IInv'
    OBVIOUS
  <1> USE DEF IInv
  <1>1. CASE ScanRunning
    <2>1. TypeOK'
      BY <1>1 DEF ScanRunning, Dispatch, Scanned, TypeOK, ScanInv, record, context, sched
    <2>2. TableInv'
      BY <1>1 DEF ScanRunning, Dispatch, Scanned, TypeOK, TableInv, ScanInv, record
    <2>3. MainInv'
      BY <1>1 DEF ScanRunning, Dispatch, Scanned, TypeOK, MainInv, TableInv, ScanInv, record, context
    <2>4. ScanInv'
      BY <1>1 DEF ScanRunning, Dispatch, Scanned, TypeOK, TableInv, ScanInv, record, sched
    <2> QED
      BY <2>1, <2>2, <2>3, <2>4
  <1>2. CASE ScanStarting
    <2>1. TypeOK'
      BY <1>2 DEF ScanStarting, SkipScanned, NextPosition, Scanned, VThreadState, TypeOK, ScanInv, record, context, sched
    <2>2. TableInv'
      BY <1>2 DEF ScanStarting, SkipScanned, NextPosition, Scanned, TypeOK, TableInv, ScanInv, record
    <2>3. MainInv'
      BY <1>2 DEF ScanStarting, SkipScanned, NextPosition, Scanned, TypeOK, MainInv, TableInv, ScanInv, record, context
    <2>4. ScanInv'
      <3>1. PICK i \in 1 .. Len(table) :
              table[i] = current /\ (cursor = 1 \/ cursor > i)
        BY <1>2 DEF ScanStarting, ScanInv
      <3>2. cursor \in 1 .. Len(table) /\ Len(table) \in Nat
        BY <1>2 DEF ScanStarting, ScanInv, TypeOK
      <3>3. cursor > i
        BY <1>2, <3>1 DEF ScanStarting, Scanned, TableInv, MainInv
      <3>4. /\ cursor' \in 1 .. Len(table)
            /\ cursor' = 1 \/ cursor' > i
        BY <1>2, <3>2, <3>3 DEF ScanStarting, SkipScanned, NextPosition
      <3> QED
        BY <1>2, <3>1, <3>4 DEF ScanStarting, SkipScanned, record, ScanInv
    <2> QED
      BY <2>1, <2>2, <2>3, <2>4
  <1>3. CASE ScanWakes
    <2>1. TypeOK'
      BY <1>3 DEF ScanWakes, Dispatch, Scanned, VThreadState, TypeOK, ScanInv, record, context, sched
    <2>2. TableInv'
      BY <1>3 DEF ScanWakes, Dispatch, Scanned, TypeOK, TableInv, ScanInv, record
    <2>3. MainInv'
      BY <1>3 DEF ScanWakes, Dispatch, Scanned, TypeOK, MainInv, TableInv, ScanInv, record, context
    <2>4. ScanInv'
      BY <1>3 DEF ScanWakes, Dispatch, Scanned, TypeOK, TableInv, ScanInv, record, sched
    <2> QED
      BY <2>1, <2>2, <2>3, <2>4
  <1>4. CASE ScanSleeping
    <2>1. TypeOK'
      BY <1>4 DEF ScanSleeping, SkipScanned, NextPosition, Scanned, TypeOK, ScanInv, record, context, sched
    <2>2. TableInv'
      BY <1>4 DEF ScanSleeping, SkipScanned, NextPosition, Scanned, TypeOK, TableInv, ScanInv, record
    <2>3. MainInv'
      BY <1>4 DEF ScanSleeping, SkipScanned, NextPosition, Scanned, TypeOK, MainInv, TableInv, ScanInv, record, context
    <2>4. ScanInv'
      <3>1. PICK i \in 1 .. Len(table) :
              table[i] = current /\ (cursor = 1 \/ cursor > i)
        BY <1>4 DEF ScanSleeping, ScanInv
      <3>2. cursor \in 1 .. Len(table) /\ Len(table) \in Nat
        BY <1>4 DEF ScanSleeping, ScanInv, TypeOK
      <3>3. cursor > i
        BY <1>4, <3>1 DEF ScanSleeping, Scanned, TableInv, MainInv
      <3>4. /\ cursor' \in 1 .. Len(table)
            /\ cursor' = 1 \/ cursor' > i
        BY <1>4, <3>2, <3>3 DEF ScanSleeping, SkipScanned, NextPosition
      <3> QED
        BY <1>4, <3>1, <3>4 DEF ScanSleeping, SkipScanned, record, ScanInv
    <2> QED
      BY <2>1, <2>2, <2>3, <2>4
  <1>5. CASE ScanCriticalDied
    <2>1. TypeOK'
      BY <1>5 DEF ScanCriticalDied, Scanned, TypeOK, ScanInv, record, context, sched
    <2>2. TableInv'
      BY <1>5 DEF ScanCriticalDied, Scanned, TypeOK, TableInv, ScanInv, record
    <2>3. MainInv'
      BY <1>5 DEF ScanCriticalDied, Scanned, TypeOK, MainInv, TableInv, ScanInv, record, context
    <2>4. ScanInv'
      BY <1>5 DEF ScanCriticalDied, Scanned, TypeOK, TableInv, ScanInv, record, sched
    <2> QED
      BY <2>1, <2>2, <2>3, <2>4
  <1>6. CASE ScanReaps
    <2>1. PICK i \in 1 .. Len(table) :
            table[i] = current /\ (cursor = 1 \/ cursor > i)
      BY <1>6 DEF ScanReaps, ScanInv
    <2>2. cursor \in 1 .. Len(table)
      BY <1>6 DEF ScanReaps, ScanInv
    <2>3. cursor > i
      BY <1>6, <2>1 DEF ScanReaps, Scanned, TableInv, MainInv
    <2>4. /\ table' \in Seq(Handles)
          /\ Len(table') = Len(table) - 1
          /\ \A j \in 1 .. Len(table) - 1 :
               table'[j] = IF j < cursor THEN table[j] ELSE table[j + 1]
      BY <1>6, <2>2, RemoveAtShifts DEF ScanReaps, TypeOK
    <2>5. Len(table) \in Nat /\ Scanned \in Handles /\ Scanned # Main
      BY <1>6, <2>2 DEF ScanReaps, Scanned, TypeOK, MainInv
    <2>6. TypeOK'
      <3>1. local' \in [Handles -> Locals]
        BY <1>6, LocalsTypes DEF ScanReaps, TypeOK
      <3> QED
        BY <1>6, <2>4, <2>5, <3>1 DEF ScanReaps, TypeOK, VThreadState, Place
    <2>7. TableInv'
      <3>1. Len(table') >= 1 /\ table'[1] = Main
        BY <2>1, <2>2, <2>3, <2>4, <2>5 DEF TableInv
      <3>2. ASSUME NEW j \in 1 .. Len(table'), NEW k \in 1 .. Len(table'),
                   table'[j] = table'[k]
            PROVE  j = k
        BY <2>2, <2>4, <2>5, <3>2 DEF TableInv
      <3>3. ASSUME NEW h \in Handles, state'[h] # "UNKNOWN"
            PROVE  \E k \in 1 .. Len(table') : table'[k] = h
        <4>1. h # Scanned /\ state[h] # "UNKNOWN"
          BY <1>6, <2>5, <3>3 DEF ScanReaps, TypeOK
        <4>2. PICK k \in 1 .. Len(table) : table[k] = h
          BY <4>1 DEF TableInv
        <4>3. k # cursor
          BY <4>1, <4>2 DEF Scanned
        <4>4. CASE k < cursor
          BY <2>2, <2>4, <2>5, <4>2, <4>4
        <4>5. CASE k > cursor
          <5>1. k - 1 \in 1 .. Len(table') /\ table'[k - 1] = table[k]
            BY <2>2, <2>4, <2>5, <4>2, <4>5
          <5> QED
            BY <4>2, <5>1
        <4> QED
          BY <2>2, <4>2, <4>3, <4>4, <4>5
      <3> QED
        BY <3>1, <3>2, <3>3 DEF TableInv
    <2>8. MainInv'
      BY <1>6, <2>5 DEF ScanReaps, TypeOK, MainInv, Main, Handles
    <2>9. ScanInv'
      <3>1. i \in 1 .. Len(table') /\ table'[i] = current
        BY <2>1, <2>2, <2>3, <2>4, <2>5
      <3> QED
        BY <1>6, <3>1 DEF ScanReaps, ScanInv
    <2> QED
      BY <2>6, <2>7, <2>8, <2>9
  <1>7. CASE EntryPoint
    <2>1. TypeOK'
      BY <1>7 DEF EntryPoint, Runs, Goto, SetOwnState, VThreadState, Place, TypeOK, ScanInv, record, context, sched
    <2>2. TableInv'
      BY <1>7 DEF EntryPoint, Runs, Goto, SetOwnState, TypeOK, TableInv, ScanInv, record
    <2>3. MainInv'
      BY <1>7 DEF EntryPoint, Runs, Goto, SetOwnState, TypeOK, MainInv, TableInv, ScanInv, record, context
    <2>4. ScanInv'
      BY <1>7 DEF EntryPoint, Runs, Goto, SetOwnState, TypeOK, TableInv, ScanInv, record, sched
    <2> QED
      BY <2>1, <2>2, <2>3, <2>4
  <1>8. CASE AwaitPromotion
    <2>0. UNCHANGED table
      BY <1>8 DEF AwaitPromotion, Runs, Goto, record
    <2>1. /\ ScanInv'
          /\ cpu' \in {"thread", "scan", "fatal", "hung"}
          /\ cursor' \in Nat
          /\ current' = current
      BY <1>8, <2>0, ScheduleStartsScan DEF AwaitPromotion, Runs, Goto, TypeOK, ScanInv, sched
    <2>2. TypeOK'
      BY <1>8, <2>1 DEF AwaitPromotion, Runs, Goto, Place, TypeOK, record, context
    <2>3. TableInv'
      BY <1>8 DEF AwaitPromotion, Runs, Goto, TypeOK, TableInv, record
    <2>4. MainInv'
      <3>1. CASE UNCHANGED pc
        BY <1>8, <3>1 DEF AwaitPromotion, MainInv, record
      <3>2. CASE Goto("body")
        BY <1>8, <3>2, LocalsTypes DEF AwaitPromotion, Goto, TypeOK, MainInv, record
      <3> QED
        BY <1>8, <3>1, <3>2 DEF AwaitPromotion
    <2> QED
      BY <2>1, <2>2, <2>3, <2>4
  <1>9. CASE EntryReturns
    <2>1. TypeOK'
      BY <1>9 DEF EntryReturns, Runs, Goto, SetOwnState, VThreadState, Place, TypeOK, ScanInv, record, context, sched
    <2>2. TableInv'
      BY <1>9 DEF EntryReturns, Runs, Goto, SetOwnState, TypeOK, TableInv, ScanInv, record
    <2>3. MainInv'
      BY <1>9 DEF EntryReturns, Runs, Goto, SetOwnState, TypeOK, MainInv, TableInv, ScanInv, record, context
    <2>4. ScanInv'
      BY <1>9 DEF EntryReturns, Runs, Goto, SetOwnState, TypeOK, TableInv, ScanInv, record, sched
    <2> QED
      BY <2>1, <2>2, <2>3, <2>4
  <1>10. CASE Yield
    <2>0. UNCHANGED table
      BY <1>10 DEF Yield, Runs, record
    <2>1. /\ ScanInv'
          /\ cpu' \in {"thread", "scan", "fatal", "hung"}
          /\ cursor' \in Nat
          /\ current' = current
      BY <1>10, <2>0, ScheduleStartsScan DEF Yield, Runs, TypeOK, ScanInv, sched
    <2>2. TypeOK'
      BY <1>10, <2>1 DEF Yield, Runs, TypeOK, record, context
    <2>3. TableInv'
      BY <1>10 DEF Yield, Runs, TypeOK, TableInv, record
    <2>4. MainInv'
      BY <1>10 DEF Yield, Runs, TypeOK, MainInv, record, context
    <2> QED
      BY <2>1, <2>2, <2>3, <2>4
  <1>11. CASE TerminateSelf
    BY <1>11, StopOneselfKeeps DEF TerminateSelf, Runs
  <1>12. CASE Crash
    BY <1>12, CrashKeeps DEF Crash, Runs
  <1>13. ASSUME NEW d \in 0 .. MaxSleep, SleepSetDeadline(d) PROVE IInv'
    <2>1. TypeOK'
      BY <1>13 DEF SleepSetDeadline, Runs, Goto, Place, TypeOK, ScanInv, record, context, sched
    <2>2. TableInv'
      BY <1>13 DEF SleepSetDeadline, Runs, Goto, TypeOK, TableInv, ScanInv, record
    <2>3. MainInv'
      BY <1>13 DEF SleepSetDeadline, Runs, Goto, TypeOK, MainInv, TableInv, ScanInv, record, context
    <2>4. ScanInv'
      BY <1>13 DEF SleepSetDeadline, Runs, Goto, TypeOK, TableInv, ScanInv, record, sched
    <2> QED
      BY <2>1, <2>2, <2>3, <2>4
  <1>14. CASE SleepSetState
    <2>1. TypeOK'
      BY <1>14 DEF SleepSetState, Runs, Goto, SetOwnState, VThreadState, Place, TypeOK, ScanInv, record, context, sched
    <2>2. TableInv'
      BY <1>14 DEF SleepSetState, Runs, Goto, SetOwnState, TypeOK, TableInv, ScanInv, record
    <2>3. MainInv'
      BY <1>14 DEF SleepSetState, Runs, Goto, SetOwnState, TypeOK, MainInv, TableInv, ScanInv, record, context
    <2>4. ScanInv'
      BY <1>14 DEF SleepSetState, Runs, Goto, SetOwnState, TypeOK, TableInv, ScanInv, record, sched
    <2> QED
      BY <2>1, <2>2, <2>3, <2>4
  <1>15. CASE SleepYield
    <2>0. UNCHANGED table
      BY <1>15 DEF SleepYield, Runs, Goto, record
    <2>1. /\ ScanInv'
          /\ cpu' \in {"thread", "scan", "fatal", "hung"}
          /\ cursor' \in Nat
          /\ current' = current
      BY <1>15, <2>0, ScheduleStartsScan DEF SleepYield, Runs, Goto, TypeOK, ScanInv, sched
    <2>2. TypeOK'
      BY <1>15, <2>1 DEF SleepYield, Runs, Goto, Place, TypeOK, record, context
    <2>3. TableInv'
      BY <1>15 DEF SleepYield, Runs, Goto, TypeOK, TableInv, record
    <2>4. MainInv'
      BY <1>15 DEF SleepYield, Runs, Goto, TypeOK, MainInv, record, context
    <2> QED
      BY <2>1, <2>2, <2>3, <2>4
  <1>16. CASE SleepReturns
    <2>1. TypeOK'
      BY <1>16 DEF SleepReturns, Runs, Goto, Place, TypeOK, ScanInv, record, context, sched
    <2>2. TableInv'
      BY <1>16 DEF SleepReturns, Runs, Goto, TypeOK, TableInv, ScanInv, record
    <2>3. MainInv'
      BY <1>16 DEF SleepReturns, Runs, Goto, TypeOK, MainInv, TableInv, ScanInv, record, context
    <2>4. ScanInv'
      BY <1>16 DEF SleepReturns, Runs, Goto, TypeOK, TableInv, ScanInv, record, sched
    <2> QED
      BY <2>1, <2>2, <2>3, <2>4
  <1>17. CASE MainSleep
    <2>0. UNCHANGED table
      BY <1>17 DEF MainSleep, Runs, Goto, record
    <2>1. /\ ScanInv'
          /\ cpu' \in {"thread", "scan", "fatal", "hung"}
          /\ cursor' \in Nat
          /\ current' = current
      BY <1>17, <2>0, ScheduleStartsScan DEF MainSleep, Runs, Goto, TypeOK, ScanInv, sched
    <2>2. TypeOK'
      BY <1>17, <2>1 DEF MainSleep, Runs, Goto, Place, TypeOK, record, context
    <2>3. TableInv'
      BY <1>17 DEF MainSleep, Runs, Goto, TypeOK, TableInv, record
    <2>4. MainInv'
      <3>1. CASE UNCHANGED pc
        BY <1>17, <3>1 DEF MainSleep, MainInv, record
      <3>2. CASE Goto("body")
        BY <1>17, <3>2, LocalsTypes DEF MainSleep, Goto, TypeOK, MainInv, record
      <3> QED
        BY <1>17, <3>1, <3>2 DEF MainSleep
    <2> QED
      BY <2>1, <2>2, <2>3, <2>4
  <1>18. CASE CountLoad
    <2>1. TypeOK'
      <3>1. local' \in [Handles -> Locals]
        BY <1>18, LocalsTypes DEF CountLoad, TypeOK
      <3> QED
        BY <1>18, <3>1 DEF CountLoad, Goto, Place, TypeOK, record, sched
    <2>2. TableInv'
      BY <1>18 DEF CountLoad, Runs, Goto, TypeOK, TableInv, ScanInv, record
    <2>3. MainInv'
      BY <1>18 DEF CountLoad, Runs, Goto, TypeOK, MainInv, TableInv, ScanInv, record, context
    <2>4. ScanInv'
      BY <1>18 DEF CountLoad, Runs, Goto, TypeOK, TableInv, ScanInv, record, sched
    <2> QED
      BY <2>1, <2>2, <2>3, <2>4
  <1>19. CASE CountStore
    <2>0. local[current].handle \in Handles /\ current \in Handles
      BY DEF TypeOK, Locals
    <2>1. TypeOK'
      <3>1. counter' \in Nat
        BY <1>19, <2>0 DEF CountStore, Handles
      <3> QED
        BY <1>19, <3>1 DEF CountStore, Runs, Goto, Place, TypeOK, record, sched
    <2>2. TableInv'
      BY <1>19 DEF CountStore, Runs, Goto, TypeOK, TableInv, ScanInv, record
    <2>3. MainInv'
      <3>1. counter' >= 1
        BY <1>19, <2>0 DEF CountStore, Handles
      <3> QED
        BY <1>19, <3>1, LocalsTypes DEF CountStore, Runs, Goto, TypeOK, MainInv, record
    <2>4. ScanInv'
      BY <1>19 DEF CountStore, Runs, Goto, TypeOK, TableInv, ScanInv, record, sched
    <2> QED
      BY <2>1, <2>2, <2>3, <2>4
  <1>20. ASSUME NEW first \in {"entry", "body"}, Add(first) PROVE IInv'
    <2> DEFINE new == local[current].handle
    <2>1. new \in Handles /\ Len(table) \in Nat
      BY DEF TypeOK, Locals
    <2>2. /\ table' \in Seq(Handles)
          /\ Len(table') = Len(table) + 1
          /\ table'[Len(table) + 1] = new
          /\ \A j \in 1 .. Len(table) : table'[j] = table[j]
      BY <1>20, <2>1 DEF Add, TypeOK
    <2>3. \A j \in 1 .. Len(table) : table[j] # new
      BY <1>20 DEF Add, Contains
    <2>4. new # Main
      BY <2>1, <2>3 DEF TableInv
    <2>5. TypeOK'
      <3>1. local' \in [Handles -> Locals]
        BY <1>20, <2>1, LocalsTypes DEF Add, TypeOK
      <3>2. capacity' \in Nat
        BY <1>20 DEF Add, TypeOK
      <3>3. first \in Place
        BY DEF Place
      <3>4. pc' \in [Handles -> Place]
        BY <1>20, <2>1, <3>3 DEF Add, TypeOK, Place
      <3> QED
        BY <1>20, <2>1, <2>2, <3>1, <3>2, <3>4 DEF Add, TypeOK, VThreadState, sched
    <2>6. TableInv'
      <3>1. Len(table') >= 1 /\ table'[1] = Main
        BY <2>1, <2>2 DEF TableInv
      <3>2. ASSUME NEW j \in 1 .. Len(table'), NEW k \in 1 .. Len(table'),
                   table'[j] = table'[k]
            PROVE  j = k
        BY <2>1, <2>2, <2>3, <3>2 DEF TableInv
      <3>3. ASSUME NEW h \in Handles, state'[h] # "UNKNOWN"
            PROVE  \E k \in 1 .. Len(table') : table'[k] = h
        <4>1. CASE h = new
          BY <2>1, <2>2, <4>1
        <4>2. CASE h # new
          <5>1. state[h] # "UNKNOWN"
            BY <1>20, <2>1, <3>3, <4>2 DEF Add, TypeOK
          <5>2. PICK k \in 1 .. Len(table) : table[k] = h
            BY <5>1 DEF TableInv
          <5> QED
            BY <2>1, <2>2, <5>2
        <4> QED
          BY <4>1, <4>2
      <3> QED
        BY <3>1, <3>2, <3>3 DEF TableInv
    <2>7. MainInv'
      <3>1. state'[Main] = "RUNNING"
        BY <1>20, <2>1, <2>4, LocalsTypes DEF Add, TypeOK, MainInv
      <3>2. pc'[Main] \notin {"entry", "sleep"}
        BY <1>20, <2>1, <2>4, LocalsTypes DEF Add, TypeOK, MainInv
      <3>3. ASSUME NEW h \in Handles, pc'[h] \in {"find", "compare", "write"}
            PROVE  pc'[h] = pc[h] /\ local'[h] = local[h]
        BY <1>20, <2>1, <3>3 DEF Add, TypeOK
      <3> QED
        BY <1>20, <3>1, <3>2, <3>3 DEF Add, MainInv
    <2>8. ScanInv'
      BY <1>20, <2>1, <2>2 DEF Add, Runs, ScanInv, sched
    <2> QED
      BY <2>5, <2>6, <2>7, <2>8
  <1>21. CASE AddFails
    <2>1. TypeOK'
      <3>1. local' \in [Handles -> Locals]
        BY <1>21, LocalsTypes DEF AddFails, TypeOK
      <3> QED
        BY <1>21, <3>1 DEF AddFails, Goto, Place, TypeOK, record, sched
    <2>2. TableInv'
      BY <1>21 DEF AddFails, Runs, Goto, TypeOK, TableInv, ScanInv, record
    <2>3. MainInv'
      BY <1>21, LocalsTypes DEF AddFails, Goto, TypeOK, MainInv, record
    <2>4. ScanInv'
      BY <1>21 DEF AddFails, Runs, Goto, TypeOK, TableInv, ScanInv, record, sched
    <2> QED
      BY <2>1, <2>2, <2>3, <2>4
  <1>22. ASSUME NEW kind \in CallKind, NEW h \in Handles, Call(kind, h) PROVE IInv'
    <2>1. TypeOK'
      BY <1>22 DEF Call, Runs, Goto, Place, Locals, TypeOK, ScanInv, record, context, sched
    <2>2. TableInv'
      BY <1>22 DEF Call, Runs, Goto, TypeOK, TableInv, ScanInv, record
    <2>3. MainInv'
      BY <1>22 DEF Call, Runs, Goto, TypeOK, MainInv, TableInv, ScanInv, record, context
    <2>4. ScanInv'
      BY <1>22 DEF Call, Runs, Goto, TypeOK, TableInv, ScanInv, record, sched
    <2> QED
      BY <2>1, <2>2, <2>3, <2>4
  <1>23. CASE FindFaults
    BY <1>23, CrashKeeps DEF FindFaults, Runs
  <1>24. CASE FindStaleKey
    <2>1. TypeOK'
      <3>1. local' \in [Handles -> Locals]
        BY <1>24, LocalsTypes DEF FindStaleKey, TypeOK
      <3> QED
        BY <1>24, <3>1 DEF FindStaleKey, TypeOK, record, sched
    <2>2. TableInv'
      BY <1>24 DEF FindStaleKey, Runs, Goto, TypeOK, TableInv, ScanInv, record
    <2>3. MainInv'
      BY <1>24 DEF FindStaleKey, Runs, Goto, TypeOK, MainInv, TableInv, ScanInv, record, context
    <2>4. ScanInv'
      BY <1>24 DEF FindStaleKey, Runs, Goto, TypeOK, TableInv, ScanInv, record, sched
    <2> QED
      BY <2>1, <2>2, <2>3, <2>4
  <1>25. CASE FindEnds
    <2>0. local[current].slot \in Nat /\ current \in Handles
      BY DEF TypeOK, Locals
    <2>1. TypeOK'
      BY <1>25 DEF FindEnds, Goto, Place, TypeOK, record, sched
    <2>2. TableInv'
      BY <1>25 DEF FindEnds, Runs, Goto, TypeOK, TableInv, ScanInv, record
    <2>3. MainInv'
      <3>1. /\ local[current].slot >= 1 /\ local[current].handle # Main
            /\ pc[current] = "find"
        BY <1>25 DEF FindEnds, Runs, TypeOK, MainInv
      <3>2. local[current].slot >= 2
        BY <1>25 DEF FindEnds, TableInv, TypeOK
      <3>3. local' = local /\ pc' = [pc EXCEPT ![current] = "compare"]
        BY <1>25 DEF FindEnds, Goto
      <3>4. /\ pc'[Main] \notin {"entry", "sleep"}
            /\ \A h \in Handles : pc'[h] \in {"find", "compare"} => local'[h].slot >= 1 /\ local'[h].handle # Main
            /\ \A h \in Handles : pc'[h] \in {"compare", "write"} => local'[h].slot >= 2
        BY <2>0, <3>1, <3>2, <3>3, LocalsTypes DEF TypeOK, MainInv
      <3> QED
        BY <1>25, <3>4 DEF FindEnds, MainInv, record
    <2>4. ScanInv'
      BY <1>25 DEF FindEnds, Runs, Goto, TypeOK, TableInv, ScanInv, record, sched
    <2> QED
      BY <2>1, <2>2, <2>3, <2>4
  <1>26. CASE FindMisses
    <2>0. /\ local[current] \in Locals /\ local[current].slot \in Nat
          /\ local[current].handle \in Handles
      BY DEF TypeOK, Locals
    <2>1. TypeOK'
      <3>1. local' \in [Handles -> Locals]
        <4>1. [local[current] EXCEPT !.slot = local[current].slot + 1] \in Locals
          <5> DEFINE n == local[current].slot + 1
          <5>1. n \in Nat
            BY <2>0
          <5> HIDE DEF n
          <5>2. [local[current] EXCEPT !.slot = n] \in Locals
            BY <2>0, <5>1, LocalsTypes
          <5> QED
            BY <5>2 DEF n
        <4> QED
          BY <1>26, <4>1 DEF FindMisses, TypeOK
      <3> QED
        BY <1>26, <3>1 DEF FindMisses, TypeOK, record, sched
    <2>2. TableInv'
      BY <1>26 DEF FindMisses, Runs, Goto, TypeOK, TableInv, ScanInv, record
    <2>3. MainInv'
      <3>1. /\ local'[current].slot = local[current].slot + 1
            /\ local'[current].handle = local[current].handle
            /\ \A h \in Handles : h # current => local'[h] = local[h]
        BY <1>26, <2>0 DEF FindMisses, TypeOK, Locals
      <3>2. /\ local[current].slot >= 1 /\ local[current].handle # Main
            /\ pc' = pc /\ pc[current] = "find"
        BY <1>26 DEF FindMisses, Runs, TypeOK, MainInv
      <3>3. local'[current].slot >= 1 /\ local'[current].handle # Main
        BY <2>0, <3>1, <3>2
      <3>4. \A h \in Handles : pc'[h] \in {"find", "compare"} => local'[h].slot >= 1 /\ local'[h].handle # Main
        BY <3>1, <3>2, <3>3 DEF MainInv
      <3>5. \A h \in Handles : pc'[h] \in {"compare", "write"} => local'[h].slot >= 2
        BY <3>1, <3>2 DEF MainInv
      <3> QED
        BY <1>26, <3>2, <3>4, <3>5 DEF FindMisses, MainInv, record
    <2>4. ScanInv'
      BY <1>26 DEF FindMisses, Runs, Goto, TypeOK, TableInv, ScanInv, record, sched
    <2> QED
      BY <2>1, <2>2, <2>3, <2>4
  <1>27. CASE FindHits
    <2>0. local[current].slot \in Nat /\ current \in Handles
      BY DEF TypeOK, Locals
    <2>1. TypeOK'
      BY <1>27 DEF FindHits, Goto, Place, TypeOK, record, sched
    <2>2. TableInv'
      BY <1>27 DEF FindHits, Runs, Goto, TypeOK, TableInv, ScanInv, record
    <2>3. MainInv'
      <3>1. /\ local[current].slot >= 1 /\ local[current].handle # Main
            /\ pc[current] = "find"
        BY <1>27 DEF FindHits, Runs, TypeOK, MainInv
      <3>2. local[current].slot >= 2
        <4>1. local[current].slot # 1
          BY <1>27, <3>1 DEF FindHits, TableInv
        <4> QED
          BY <2>0, <3>1, <4>1
      <3>3. local' = local /\ pc' = [pc EXCEPT ![current] = "compare"]
        BY <1>27 DEF FindHits, Goto
      <3>4. /\ pc'[Main] \notin {"entry", "sleep"}
            /\ \A h \in Handles : pc'[h] \in {"find", "compare"} => local'[h].slot >= 1 /\ local'[h].handle # Main
            /\ \A h \in Handles : pc'[h] \in {"compare", "write"} => local'[h].slot >= 2
        BY <2>0, <3>1, <3>2, <3>3, LocalsTypes DEF TypeOK, MainInv
      <3> QED
        BY <1>27, <3>4 DEF FindHits, MainInv, record
    <2>4. ScanInv'
      BY <1>27 DEF FindHits, Runs, Goto, TypeOK, TableInv, ScanInv, record, sched
    <2> QED
      BY <2>1, <2>2, <2>3, <2>4
  <1>28. CASE CompareEnds
    <2>1. TypeOK'
      <3>1. local' \in [Handles -> Locals]
        BY <1>28, LocalsTypes DEF CompareEnds, CallReturns, TypeOK
      <3> QED
        BY <1>28, <3>1 DEF CompareEnds, CallReturns, Goto, Place, TypeOK, record, sched
    <2>2. TableInv'
      BY <1>28 DEF CompareEnds, Runs, Goto, CallReturns, TypeOK, TableInv, ScanInv, record
    <2>3. MainInv'
      BY <1>28, LocalsTypes DEF CompareEnds, CallReturns, Goto, TypeOK, MainInv, record
    <2>4. ScanInv'
      BY <1>28 DEF CompareEnds, Runs, Goto, CallReturns, TypeOK, TableInv, ScanInv, record, sched
    <2> QED
      BY <2>1, <2>2, <2>3, <2>4
  <1>29. CASE CompareFinds
    <2>0. /\ local[current] \in Locals /\ local[current].slot \in Nat
          /\ current \in Handles
      BY DEF TypeOK, Locals
    <2>1. TypeOK'
      <3>1. CASE local[current].kind = "wait"
        <4>1. local' \in [Handles -> Locals]
          <5>1. [local[current] EXCEPT !.slot = 1, !.array = capacity] \in Locals
            BY <2>0, LocalsTypes DEF TypeOK
          <5> QED
            BY <1>29, <3>1, <5>1 DEF CompareFinds, TypeOK
        <4> QED
          BY <1>29, <3>1, <4>1 DEF CompareFinds, Goto, Place, TypeOK, record, sched
      <3>2. CASE local[current].kind # "wait"
        BY <1>29, <3>2 DEF CompareFinds, Goto, Place, TypeOK, record, sched
      <3> QED
        BY <3>1, <3>2
    <2>2. TableInv'
      BY <1>29 DEF CompareFinds, Runs, Goto, TypeOK, TableInv, ScanInv, record
    <2>3. MainInv'
      <3>1. /\ local[current].slot >= 2 /\ local[current].handle # Main
            /\ pc[current] = "compare"
        BY <1>29 DEF CompareFinds, Runs, TypeOK, MainInv
      <3>2. CASE local[current].kind = "wait"
        <4>1. /\ local'[current].slot = 1
              /\ local'[current].handle = local[current].handle
              /\ \A h \in Handles : h # current => local'[h] = local[h]
          BY <1>29, <2>0, <3>2 DEF CompareFinds, TypeOK, Locals
        <4>2. pc' = [pc EXCEPT ![current] = "find"]
          BY <1>29, <3>2 DEF CompareFinds, Goto
        <4>3. /\ pc'[Main] \notin {"entry", "sleep"}
              /\ \A h \in Handles : pc'[h] \in {"find", "compare"} => local'[h].slot >= 1 /\ local'[h].handle # Main
              /\ \A h \in Handles : pc'[h] \in {"compare", "write"} => local'[h].slot >= 2
          BY <2>0, <3>1, <4>1, <4>2 DEF TypeOK, MainInv
        <4> QED
          BY <1>29, <4>3 DEF CompareFinds, MainInv, record
      <3>3. CASE local[current].kind # "wait"
        <4>1. local' = local /\ pc' = [pc EXCEPT ![current] = "write"]
          BY <1>29, <3>3 DEF CompareFinds, Goto
        <4>2. /\ pc'[Main] \notin {"entry", "sleep"}
              /\ \A h \in Handles : pc'[h] \in {"find", "compare"} => local'[h].slot >= 1 /\ local'[h].handle # Main
              /\ \A h \in Handles : pc'[h] \in {"compare", "write"} => local'[h].slot >= 2
          BY <2>0, <3>1, <4>1, LocalsTypes DEF TypeOK, MainInv
        <4> QED
          BY <1>29, <4>2 DEF CompareFinds, MainInv, record
      <3> QED
        BY <3>2, <3>3
    <2>4. ScanInv'
      BY <1>29 DEF CompareFinds, Runs, Goto, TypeOK, TableInv, ScanInv, record, sched
    <2> QED
      BY <2>1, <2>2, <2>3, <2>4
  <1>30. CASE WriteFaults
    BY <1>30, CrashKeeps DEF WriteFaults, Runs
  <1>31. CASE WriteTerminate
    <2> DEFINE victim == table[local[current].slot]
    <2>1. /\ local[current].slot \in 1 .. Len(table)
          /\ local[current].slot >= 2
      BY <1>31 DEF WriteTerminate, Astray, Runs, TypeOK, Locals, MainInv
    <2>2. victim \in Handles /\ victim # Main
      BY <2>1 DEF TypeOK, TableInv
    <2>3. /\ pc' = [pc EXCEPT ![current] = "body"]
          /\ local' = [local EXCEPT ![current] = NoCall]
      BY <1>31 DEF WriteTerminate, CallReturns, Goto
    <2>4. TypeOK'
      <3>1. local' \in [Handles -> Locals] /\ pc' \in [Handles -> Place]
        BY <2>3, LocalsTypes DEF TypeOK, Place
      <3> QED
        BY <1>31, <2>2, <3>1 DEF WriteTerminate, TypeOK, VThreadState, sched
    <2>5. TableInv'
      <3>1. \A h \in Handles : state'[h] # "UNKNOWN" => \E i \in 1 .. Len(table) : table[i] = h
        BY <1>31, <2>1, <2>2 DEF WriteTerminate, TypeOK, TableInv
      <3> QED
        BY <1>31, <3>1 DEF WriteTerminate, TableInv
    <2>6. MainInv'
      <3>1. state'[Main] = "RUNNING"
        BY <1>31, <2>2, LocalsTypes DEF WriteTerminate, TypeOK, MainInv
      <3>2. /\ pc'[Main] \notin {"entry", "sleep"}
            /\ \A h \in Handles : pc'[h] \in {"find", "compare", "write"} => pc'[h] = pc[h] /\ local'[h] = local[h]
        BY <2>3, LocalsTypes DEF TypeOK, MainInv
      <3> QED
        BY <1>31, <3>1, <3>2 DEF WriteTerminate, MainInv
    <2>7. ScanInv'
      BY <1>31 DEF WriteTerminate, Runs, ScanInv, sched
    <2> QED
      BY <2>4, <2>5, <2>6, <2>7
  <1>32. CASE WriteCritical
    <2> DEFINE victim == table[local[current].slot]
    <2>1. /\ local[current].slot \in 1 .. Len(table)
          /\ local[current].slot >= 2
      BY <1>32 DEF WriteCritical, Astray, Runs, TypeOK, Locals, MainInv
    <2>2. victim \in Handles /\ victim # Main
      BY <2>1 DEF TypeOK, TableInv
    <2>3. /\ pc' = [pc EXCEPT ![current] = "body"]
          /\ local' = [local EXCEPT ![current] = NoCall]
      BY <1>32 DEF WriteCritical, CallReturns, Goto
    <2>4. TypeOK'
      <3>1. local' \in [Handles -> Locals] /\ pc' \in [Handles -> Place]
        BY <2>3, LocalsTypes DEF TypeOK, Place
      <3> QED
        BY <1>32, <2>2, <3>1 DEF WriteCritical, TypeOK, VThreadState, sched
    <2>5. TableInv'
      <3>1. \A h \in Handles : state'[h] # "UNKNOWN" => \E i \in 1 .. Len(table) : table[i] = h
        BY <1>32, <2>1, <2>2 DEF WriteCritical, TypeOK, TableInv
      <3> QED
        BY <1>32, <3>1 DEF WriteCritical, TableInv
    <2>6. MainInv'
      <3>1. state'[Main] = "RUNNING"
        BY <1>32, <2>2, LocalsTypes DEF WriteCritical, TypeOK, MainInv
      <3>2. /\ pc'[Main] \notin {"entry", "sleep"}
            /\ \A h \in Handles : pc'[h] \in {"find", "compare", "write"} => pc'[h] = pc[h] /\ local'[h] = local[h]
        BY <2>3, LocalsTypes DEF TypeOK, MainInv
      <3> QED
        BY <1>32, <3>1, <3>2 DEF WriteCritical, MainInv
    <2>7. ScanInv'
      BY <1>32 DEF WriteCritical, Runs, ScanInv, sched
    <2> QED
      BY <2>4, <2>5, <2>6, <2>7
  <1>33. CASE Tick
    <2>0. UNCHANGED table
      BY <1>33 DEF Tick, record
    <2>1. /\ ScanInv'
          /\ cpu' \in {"thread", "scan", "fatal", "hung"}
          /\ cursor' \in Nat
          /\ current' = current
      BY <1>33, <2>0, ScheduleStartsScan DEF Tick, TypeOK, ScanInv, sched
    <2>2. TypeOK'
      BY <1>33, <2>1 DEF Tick, TypeOK, record, context
    <2>3. TableInv'
      BY <1>33 DEF Tick, TypeOK, TableInv, record
    <2>4. MainInv'
      BY <1>33 DEF Tick, TypeOK, MainInv, record, context
    <2> QED
      BY <2>1, <2>2, <2>3, <2>4
  <1>34. CASE UNCHANGED vars
    BY <1>34 DEF TypeOK, TableInv, MainInv, ScanInv, vars
  <1> QED
    BY <1>1, <1>2, <1>3, <1>4, <1>5, <1>6, <1>7, <1>8, <1>9, <1>10, <1>11, <1>12, <1>13, <1>14, <1>15, <1>16, <1>17, <1>18, <1>19, <1>20, <1>21, <1>22, <1>23, <1>24, <1>25, <1>26, <1>27, <1>28, <1>29, <1>30, <1>31, <1>32, <1>33, <1>34 DEF Next, Scan, ThreadCode

-----------------------------------------------------------------------------
(* Every variable of the scheduler keeps its type, whatever the number of   *)
(* threads: no code path gives a record a state or a lookup a handle that   *)
(* the kernel does not know.                                                *)
THEOREM TypeCorrect == Spec => []TypeOK
  <1>1. Init => IInv
    BY InitIInv
  <1>2. IInv /\ [Next]_vars => IInv'
    BY NextIInv
  <1>3. IInv => TypeOK
    BY DEF IInv
  <1> QED
    BY <1>1, <1>2, <1>3, PTL DEF Spec

(* vthread_schedule never frees the record or the stack of the thread it    *)
(* was entered from, which it goes on using until the switch.               *)
THEOREM CurrentIsNeverFreed == Spec => []CurrentNeverFreed
  <1>1. Init => IInv
    BY InitIInv
  <1>2. IInv /\ [Next]_vars => IInv'
    BY NextIInv
  <1>3. IInv => CurrentNeverFreed
    BY DEF IInv, ScanInv, CurrentNeverFreed, Contains
  <1> QED
    BY <1>1, <1>2, <1>3, PTL DEF Spec

(* What one step may do to a thread that is STOPPING and not current. *)
StoppedStep ==
  \A h \in Handles :
    state[h] = "STOPPING" /\ h # current
      => /\ state'[h] \in {"STOPPING", "UNKNOWN"}
         /\ current' # h

LEMMA NextStopped == IInv /\ [Next]_vars => StoppedStep
  <1> SUFFICES ASSUME IInv, [Next]_vars,
                      NEW h \in Handles, state[h] = "STOPPING", h # current
               PROVE  state'[h] \in {"STOPPING", "UNKNOWN"} /\ current' # h
    BY DEF StoppedStep
  <1> USE DEF IInv
  <1>1. TypeOK
    OBVIOUS
  (* The scheduler dispatches only what it makes RUNNING or finds so. *)
  <1>2. CASE Scan
    BY <1>1, <1>2 DEF Scan, ScanRunning, ScanStarting, ScanWakes, ScanSleeping,
       ScanCriticalDied, ScanReaps, Dispatch, SkipScanned, Scanned, TypeOK, record
  (* The code of a thread writes its own state, or STOPPING. *)
  <1>3. CASE Schedule /\ UNCHANGED state
    BY <1>3 DEF Schedule, sched
  <1>4. CASE StopOneself
    BY <1>1, <1>4 DEF StopOneself, SetOwnState, Schedule, sched, TypeOK
  <1>5. CASE CrashHandler
    BY <1>1, <1>4, <1>5 DEF CrashHandler, record
  <1>6. CASE EntryPoint \/ EntryReturns \/ SleepSetState
    BY <1>1, <1>6 DEF EntryPoint, EntryReturns, SleepSetState, SetOwnState, sched, TypeOK
  <1>7. CASE AwaitPromotion \/ MainSleep
    BY <1>3, <1>7 DEF AwaitPromotion, MainSleep, record, sched
  <1>8. CASE \E first \in {"entry", "body"} : Add(first)
    <2>1. PICK first \in {"entry", "body"} : Add(first)
      BY <1>8
    <2>2. \E i \in 1 .. Len(table) : table[i] = h
      BY DEF TableInv
    <2>3. h # local[current].handle
      BY <2>1, <2>2 DEF Add, Contains
    <2> QED
      BY <1>1, <2>1, <2>3 DEF Add, TypeOK, sched
  <1>9. CASE WriteTerminate
    BY <1>1, <1>9 DEF WriteTerminate, TypeOK, sched
  <1>10. CASE \/ Yield \/ SleepYield \/ Tick
    BY <1>3, <1>10 DEF Yield, SleepYield, Tick, record
  <1>11. CASE \/ SleepReturns \/ CountLoad \/ CountStore \/ AddFails
              \/ FindStaleKey \/ FindEnds \/ FindMisses \/ FindHits \/ CompareEnds \/ CompareFinds \/ WriteCritical
              \/ \E d \in 0 .. MaxSleep : SleepSetDeadline(d)
              \/ \E kind \in CallKind, g \in Handles : Call(kind, g)
    BY <1>11 DEF SleepReturns, CountLoad, CountStore, AddFails, FindStaleKey, FindEnds,
       FindMisses, FindHits, CompareEnds, CompareFinds, WriteCritical, SleepSetDeadline, Call, record, sched
  <1>12. CASE TerminateSelf \/ Crash \/ FindFaults \/ WriteFaults
    BY <1>4, <1>5, <1>12 DEF TerminateSelf, Crash, FindFaults, WriteFaults
  <1>13. CASE UNCHANGED vars
    BY <1>13 DEF vars
  <1> QED
    BY <1>2, <1>6, <1>7, <1>8, <1>9, <1>10, <1>11, <1>12, <1>13 DEF Next, ThreadCode

(* A thread that is stopped while it is not the running one executes        *)
(* nothing more.                                                            *)
THEOREM StoppedStaysStopped == Spec => StoppedIsFinal
  <1>1. Init => IInv
    BY InitIInv
  <1>2. IInv /\ [Next]_vars => IInv'
    BY NextIInv
  <1>3. IInv /\ [Next]_vars => [StoppedStep]_vars
    BY NextStopped
  <1> QED
    BY <1>1, <1>2, <1>3, PTL DEF Spec, StoppedIsFinal, StoppedStep
-----------------------------------------------------------------------------
(* Sleeping                                                                 *)

Resting(h) == pc[h] \in {"yield", "asleep"}

(* A thread that has written its state is not woken before its deadline;    *)
(* and it has left the CPU before it looks whether it is.                   *)
SleepInv ==
  \A h \in Handles :
    /\ Resting(h) => /\ h # Main
                     /\ sleepLeft[h] = 0 \/ state[h] \in {"SLEEPING", "STOPPING"}
    /\ pc[h] = "asleep" /\ cpu = "thread" /\ current = h => sleepLeft[h] = 0

(* What one step may do to a thread on its way out of vthread_sleep.        *)
SleepStep ==
  \A h \in Handles : pc[h] = "asleep" /\ pc'[h] = "body" => sleepLeft[h] = 0

(* Every thread but the main one has another to give the CPU to.            *)
LEMMA ScheduleLeaves ==
  ASSUME IInv, current # Main, Schedule
  PROVE  cpu' = "scan"
  <1>1. PICK i \in 1 .. Len(table) : table[i] = current
    BY DEF IInv, ScanInv
  <1>2. Len(table) \in Nat /\ i # 1
    BY <1>1 DEF IInv, TypeOK, TableInv
  <1> QED
    BY <1>2 DEF Schedule

LEMMA ScheduleStays ==
  ASSUME cpu = "thread", Schedule
  PROVE  current' = current /\ cpu' \in {"thread", "scan"}
  BY DEF Schedule, sched

(* Steps of a thread's own code that are not part of its sleep.             *)
LEMMA SleepKeeps ==
  ASSUME IInv, SleepInv, cpu = "thread", current' = current,
         \A h \in Handles :
           /\ Resting(h)' => Resting(h) /\ pc'[h] = pc[h]
           /\ pc[h] = "asleep" /\ pc'[h] = "body" => sleepLeft[h] = 0
           /\ Resting(h) /\ sleepLeft[h] = 0 => sleepLeft'[h] = 0
           /\ Resting(h)' => sleepLeft'[h] = 0 \/ state'[h] \in {state[h], "STOPPING"}
  PROVE  SleepInv' /\ SleepStep
  BY DEF SleepInv, SleepStep, Resting

LEMMA ScanSleep ==
  ASSUME IInv, SleepInv, Scan
  PROVE  SleepInv' /\ SleepStep
  <1>1. /\ TypeOK /\ cpu = "scan" /\ Scanned \in Handles
        /\ Scanned = Main => state[Scanned] = "RUNNING"
    BY DEF Scan, ScanRunning, ScanStarting, ScanWakes, ScanSleeping, ScanCriticalDied, ScanReaps,
       IInv, TypeOK, ScanInv, Scanned, MainInv
  <1>2. CASE ScanRunning
    BY <1>1, <1>2 DEF ScanRunning, Dispatch, SleepInv, SleepStep, Resting, record, context
  <1>3. CASE ScanStarting
    BY <1>1, <1>3 DEF ScanStarting, SkipScanned, SleepInv, SleepStep, Resting, TypeOK, context
  <1>4. CASE ScanWakes
    BY <1>1, <1>4 DEF ScanWakes, Dispatch, SleepInv, SleepStep, Resting, TypeOK, context
  <1>5. CASE ScanSleeping
    BY <1>1, <1>5 DEF ScanSleeping, SkipScanned, SleepInv, SleepStep, Resting, record, context
  <1>6. CASE ScanCriticalDied
    BY <1>1, <1>6 DEF ScanCriticalDied, SleepInv, SleepStep, Resting, record, context
  <1>7. CASE ScanReaps
    BY <1>1, <1>7 DEF ScanReaps, SleepInv, SleepStep, Resting, TypeOK
  <1> QED
    BY <1>2, <1>3, <1>4, <1>5, <1>6, <1>7 DEF Scan

LEMMA CrashSleep ==
  ASSUME IInv, SleepInv, cpu = "thread", CrashHandler
  PROVE  SleepInv' /\ SleepStep
  <1>1. CASE StopOneself
    <2>1. current' = current
      BY <1>1, ScheduleStays DEF StopOneself
    <2> QED
      BY <1>1, <2>1, SleepKeeps DEF StopOneself, SetOwnState, Goto, IInv, TypeOK, Resting
  <1>2. CASE UNCHANGED <<record, context, cursor, current>>
    BY <1>2, SleepKeeps DEF record, context, Resting
  <1> QED
    BY <1>1, <1>2 DEF CrashHandler

LEMMA NextSleep == IInv /\ SleepInv /\ [Next]_vars => SleepInv' /\ SleepStep
  <1> SUFFICES ASSUME IInv, SleepInv, [Next]_vars PROVE SleepInv' /\ SleepStep
    OBVIOUS
  <1>0. TypeOK
    BY DEF IInv
  <1>1. CASE Scan
    BY <1>1, ScanSleep
  <1>2. CASE Tick
    <2>1. cpu = "thread" /\ current' = current
      BY <1>2, ScheduleStays DEF Tick
    <2> QED
      BY <1>0, <1>2, <2>1, SleepKeeps DEF Tick, TypeOK, Resting, context
  <1>3. CASE SleepSetState
    BY <1>0, <1>3 DEF SleepSetState, Runs, SetOwnState, Goto, TypeOK, IInv, MainInv,
       SleepInv, SleepStep, Resting, sched
  <1>4. CASE SleepYield
    <2>1. current # Main
      BY <1>0, <1>4 DEF SleepYield, Runs, SleepInv, Resting, TypeOK
    <2>2. cpu' = "scan"
      BY <1>4, <2>1, ScheduleLeaves DEF SleepYield
    <2> QED
      BY <1>0, <1>4, <2>2 DEF SleepYield, Runs, Goto, TypeOK, SleepInv, SleepStep, Resting, record
  <1>5. CASE SleepReturns
    BY <1>0, <1>5, SleepKeeps DEF SleepReturns, Runs, Goto, TypeOK, SleepInv, Resting, record, sched
  <1>6. CASE \E first \in {"entry", "body"} : Add(first)
    <2>1. PICK first \in {"entry", "body"} : Add(first)
      BY <1>6
    <2> DEFINE g == local[current].handle
    <2>2. g \in Handles /\ g # current /\ state[g] = "UNKNOWN" /\ cpu = "thread"
      BY <1>0, <2>1 DEF Add, Runs, TypeOK, Locals, Contains, IInv, TableInv, ScanInv
    <2>3. pc[g] = "asleep" => sleepLeft[g] = 0
      BY <2>2 DEF SleepInv, Resting
    <2>4. /\ pc' = [pc EXCEPT ![g] = first, ![current] = "body"]
          /\ state' = [state EXCEPT ![g] = "RUNNING"]
          /\ sleepLeft' = [sleepLeft EXCEPT ![g] = 0]
          /\ pc[current] = "add" /\ current' = current
      BY <2>1 DEF Add, Runs, sched
    <2> HIDE DEF g
    <2> QED
      BY <1>0, <2>2, <2>3, <2>4, SleepKeeps DEF TypeOK, Resting
  <1>7. CASE EntryPoint \/ EntryReturns
    BY <1>0, <1>7, SleepKeeps DEF EntryPoint, EntryReturns, Runs, SetOwnState, Goto, TypeOK, Resting, sched
  <1>8. CASE AwaitPromotion \/ Yield \/ MainSleep
    <2>1. cpu = "thread" /\ current' = current
      BY <1>8, ScheduleStays DEF AwaitPromotion, Yield, MainSleep, Runs, sched
    <2> QED
      BY <1>0, <1>8, <2>1, SleepKeeps
         DEF AwaitPromotion, Yield, MainSleep, Runs, Goto, TypeOK, Resting, record, context
  <1>9. CASE TerminateSelf \/ Crash \/ FindFaults \/ WriteFaults
    <2>1. cpu = "thread" /\ (CrashHandler \/ (current # Main /\ StopOneself /\ cpu = "thread"))
      BY <1>9 DEF TerminateSelf, Crash, FindFaults, WriteFaults, Runs
    <2>2. CASE current # Main /\ StopOneself /\ cpu = "thread"
      <3>1. current' = current
        BY <2>2, ScheduleStays DEF StopOneself
      <3> QED
        BY <1>0, <2>2, <3>1, SleepKeeps DEF StopOneself, SetOwnState, Goto, TypeOK, Resting
    <2> QED
      BY <2>1, <2>2, CrashSleep
  <1>10. CASE \E d \in 0 .. MaxSleep : SleepSetDeadline(d)
    BY <1>0, <1>10, SleepKeeps DEF SleepSetDeadline, Runs, Goto, TypeOK, Resting, sched
  <1>11. CASE \/ CountLoad \/ CountStore \/ AddFails \/ FindStaleKey \/ FindEnds
              \/ FindMisses \/ FindHits \/ CompareEnds \/ CompareFinds \/ WriteCritical
              \/ \E kind \in CallKind, g \in Handles : Call(kind, g)
    BY <1>0, <1>11, SleepKeeps DEF CountLoad, CountStore, AddFails, FindStaleKey, FindEnds,
       FindMisses, FindHits, CompareEnds, CompareFinds, WriteCritical, Call, CallReturns, Runs, Goto, TypeOK, Resting, record, sched
  <1>12. CASE WriteTerminate
    <2>1. /\ cpu = "thread" /\ pc[current] = "write" /\ current' = current
          /\ pc' = [pc EXCEPT ![current] = "body"]
          /\ sleepLeft' = sleepLeft
          /\ \E g : state' = [state EXCEPT ![g] = "STOPPING"]
      BY <1>12 DEF WriteTerminate, CallReturns, Goto, Runs, sched
    <2> QED
      BY <1>0, <2>1, SleepKeeps DEF TypeOK, Resting
  <1>13. CASE UNCHANGED vars
    BY <1>13 DEF vars, SleepInv, SleepStep, Resting
  <1> QED
    BY <1>1, <1>2, <1>3, <1>4, <1>5, <1>6, <1>7, <1>8, <1>9, <1>10, <1>11, <1>12, <1>13
       DEF Next, ThreadCode

(* vthread_sleep never returns before its deadline, wherever the timer      *)
(* falls between storing the deadline, storing the state and yielding, and  *)
(* whoever stops the thread meanwhile.                                      *)
THEOREM SleepsLast == Spec => SleepsLongEnough
  <1>1. Init => IInv /\ SleepInv
    BY InitIInv DEF Init, SleepInv, Resting
  <1>2. IInv /\ SleepInv /\ [Next]_vars => (IInv /\ SleepInv)'
    BY NextIInv, NextSleep
  <1>3. IInv /\ SleepInv /\ [Next]_vars => [SleepStep]_vars
    BY NextSleep
  <1> QED
    BY <1>1, <1>2, <1>3, PTL DEF Spec, SleepsLongEnough, SleepStep
=============================================================================
