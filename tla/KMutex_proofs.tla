---------------------------- MODULE KMutex_proofs ----------------------------
(***************************************************************************)
(* For every number of threads and mutexes: mutual exclusion, an unlock     *)
(* only by the owner, interrupts masked exactly while a thread is inside a  *)
(* mutex, and no mutex left locked by a thread that crashed.                *)
(***************************************************************************)
EXTENDS KMutex, FiniteSetTheorems, WellFoundedInduction, TLAPS

(* A claim keeps the mutex locked, excludes any other, and is not taken     *)
(* twice by one thread.                                                     *)
ClaimInv ==
  /\ \A t \in Threads, m \in Mutexes : Claims(t, m) => locked[m]
  /\ \A t, u \in Threads, m \in Mutexes : Claims(t, m) /\ Claims(u, m) => t = u
  /\ \A t \in Threads :
       pc[t] \in {"exchange", "remove", "release"} => target[t] \in Mutexes \ holds[t]

(* mutex_t::handle names whose critical section the mutex is in. *)
OwnerInv ==
  \A t \in Threads, m \in Mutexes : handle[m] = t <=> m \in holds[t]

(* irq_disable_depth counts the critical sections, and the one a thread     *)
(* waits for.                                                               *)
DepthInv ==
  \A t \in Threads :
    depth[t] = Cardinality(holds[t]) + IF pc[t] = "exchange" THEN 1 ELSE 0

(* Inside, interrupts are masked and the saved flags have them enabled.     *)
FlagInv ==
  \A t \in Threads :
    /\ depth[t] > 0 => saved[t] /\ ~irq[t]
    /\ life[t] = "live" => (depth[t] = 0 => irq[t]) /\ pc[t] # "clear"

IInv == TypeOK /\ ClaimInv /\ OwnerInv /\ DepthInv /\ FlagInv

-----------------------------------------------------------------------------
(* The sets of critical sections are finite, so they can be counted.        *)
LEMMA HoldsFinite ==
  ASSUME NEW S \in SUBSET Mutexes
  PROVE  IsFiniteSet(S) /\ Cardinality(S) \in Nat
  <1>1. IsFiniteSet(Mutexes)
    BY SizeAssumption, FS_Interval DEF Mutexes
  <1> QED
    BY <1>1, FS_Subset, FS_CardinalityType

LEMMA InitIInv == Init => IInv
  <1> SUFFICES ASSUME Init PROVE IInv
    OBVIOUS
  <1> USE SizeAssumption DEF Init
  <1>1. TypeOK
    <2>1. Main \in Threads
      BY DEF Main, Threads
    <2> QED
      BY <2>1 DEF TypeOK, Place, Life
  <1>2. ClaimInv
    BY DEF ClaimInv, Claims
  <1>3. OwnerInv
    <2>1. Invalid \notin Threads
      BY DEF Invalid, Threads
    <2> QED
      BY <2>1 DEF OwnerInv
  <1>4. DepthInv
    BY FS_EmptySet DEF DepthInv
  <1>5. FlagInv
    BY DEF FlagInv
  <1> QED
    BY <1>1, <1>2, <1>3, <1>4, <1>5 DEF IInv

(* Giving the CPU to another thread touches nothing of the invariant. *)
LEMMA SwitchKeeps ==
  ASSUME IInv, Switch,
         UNCHANGED <<mutex, flags, holds, target, pc, life, fatal>>
  PROVE  IInv'
  <1>1. TypeOK'
    BY DEF IInv, TypeOK, Switch, Runnable, mutex, flags
  <1>2. ClaimInv' /\ OwnerInv' /\ DepthInv' /\ FlagInv'
    BY DEF IInv, ClaimInv, Claims, OwnerInv, DepthInv, FlagInv, mutex, flags
  <1> QED
    BY <1>1, <1>2 DEF IInv

(* The first half of mutex_unlock, called by its owner.                     *)
LEMMA StartUnlockKeeps ==
  ASSUME IInv, NEW t \in Threads, NEW m \in holds[t],
         pc[t] \in {"run", "clear"}, StartUnlock(t, m)
  PROVE  IInv'
  <1> USE DEF IInv, StartUnlock
  <1>1. /\ m \in Mutexes /\ handle[m] = t /\ locked[m]
        /\ IsFiniteSet(holds[t]) /\ Cardinality(holds[t]) \in Nat
    BY HoldsFinite DEF TypeOK, OwnerInv, ClaimInv, Claims
  <1>2. /\ depth[t] = Cardinality(holds[t])
        /\ depth[t] >= 1
        /\ Cardinality(holds[t] \ {m}) = depth[t] - 1
    <2>1. depth[t] = Cardinality(holds[t])
      BY <1>1 DEF DepthInv
    <2>2. Cardinality(holds[t] \ {m}) = Cardinality(holds[t]) - 1
      BY <1>1, FS_RemoveElement
    <2>3. Cardinality(holds[t]) # 0
      BY <1>1, FS_EmptySet
    <2> QED
      BY <1>1, <2>1, <2>2, <2>3
  <1>3. TypeOK'
    <2>1. depth' \in [Threads -> Nat]
      BY <1>2 DEF TypeOK
    <2>2. handle' \in [Mutexes -> Threads \cup {Invalid}] /\ irq' \in [Threads -> BOOLEAN]
      BY DEF TypeOK
    <2>3. holds' \in [Threads -> SUBSET Mutexes] /\ target' \in [Threads -> Mutexes \cup {NoMutex}]
      BY <1>1 DEF TypeOK
    <2>4. pc' \in [Threads -> Place]
      BY DEF TypeOK, Place
    <2> QED
      BY <2>1, <2>2, <2>3, <2>4 DEF TypeOK, sched
  <1>4. \A u \in Threads, n \in Mutexes : Claims(u, n)' <=> Claims(u, n)
    BY <1>1 DEF TypeOK, Claims
  <1>5. ClaimInv'
    <2>1. \A u \in Threads : pc'[u] \in {"exchange", "remove", "release"} => target'[u] \in Mutexes \ holds'[u]
      BY <1>1 DEF TypeOK, ClaimInv
    <2> QED
      BY <1>4, <2>1 DEF ClaimInv
  <1>6. OwnerInv'
    <2>1. Invalid \notin Threads
      BY DEF Invalid, Threads
    <2> QED
      BY <1>1, <2>1 DEF TypeOK, OwnerInv
  <1>7. DepthInv'
    BY <1>2 DEF TypeOK, DepthInv
  <1>8. FlagInv'
    <2>1. ASSUME NEW u \in Threads, u # t
          PROVE  /\ depth'[u] > 0 => saved'[u] /\ ~irq'[u]
                 /\ life'[u] = "live" => (depth'[u] = 0 => irq'[u]) /\ pc'[u] # "clear"
      BY <2>1 DEF TypeOK, FlagInv, sched
    <2>2. saved[t] /\ ~irq[t]
      BY <1>2 DEF TypeOK, FlagInv
    <2>3. /\ depth'[t] = depth[t] - 1 /\ saved' = saved /\ pc'[t] = "remove"
          /\ irq'[t] = IF depth[t] = 1 THEN saved[t] ELSE irq[t]
      BY DEF TypeOK
    <2>4. /\ depth'[t] > 0 => saved'[t] /\ ~irq'[t]
          /\ life'[t] = "live" => (depth'[t] = 0 => irq'[t]) /\ pc'[t] # "clear"
      <3>1. CASE depth[t] = 1
        <4>1. depth'[t] = 0
          BY <2>3, <3>1
        <4>2. ~(depth'[t] > 0)
          BY <4>1
        <4>3. irq'[t] = saved[t] /\ pc'[t] # "clear"
          BY <2>3, <3>1
        <4>4. irq'[t]
          BY <2>2, <4>3, Zenon
        <4> QED
          BY <4>2, <4>3, <4>4, Zenon
      <3>2. CASE depth[t] # 1
        <4>1. depth'[t] # 0 /\ irq'[t] = irq[t]
          BY <1>2, <2>3, <3>2
        <4> QED
          BY <2>2, <2>3, <4>1
      <3> QED
        BY <3>1, <3>2
    <2> QED
      BY <2>1, <2>4 DEF FlagInv
  <1> QED
    BY <1>3, <1>5, <1>6, <1>7, <1>8 DEF IInv

(* mutex_lock up to its exchange: masked, counted, claiming nothing yet.    *)
LEMMA MutexLockKeeps ==
  ASSUME IInv, NEW t \in Threads, NEW m \in Mutexes, MutexLock(t, m)
  PROVE  IInv'
  <1> USE DEF IInv, MutexLock, At
  <1>1. m \notin holds[t]
    BY DEF TypeOK, Mutexes
  <1>2. TypeOK'
    <2>1. depth' \in [Threads -> Nat] /\ target' \in [Threads -> Mutexes \cup {NoMutex}]
      BY DEF TypeOK
    <2>2. saved' \in [Threads -> BOOLEAN] /\ irq' \in [Threads -> BOOLEAN]
      BY DEF TypeOK
    <2>3. pc' \in [Threads -> Place]
      BY DEF TypeOK, Place
    <2> QED
      BY <2>1, <2>2, <2>3 DEF TypeOK, mutex, sched
  <1>3. ClaimInv'
    BY <1>1 DEF TypeOK, ClaimInv, Claims, mutex
  <1>4. OwnerInv'
    BY DEF OwnerInv, mutex
  <1>5. DepthInv'
    <2>1. depth'[t] = Cardinality(holds'[t]) + 1 /\ pc'[t] = "exchange"
      BY HoldsFinite DEF TypeOK, DepthInv
    <2>2. ASSUME NEW u \in Threads, u # t
          PROVE  depth'[u] = Cardinality(holds'[u]) + IF pc'[u] = "exchange" THEN 1 ELSE 0
      BY <2>2 DEF TypeOK, DepthInv
    <2> QED
      BY <2>1, <2>2 DEF DepthInv
  <1>6. FlagInv'
    <2>1. CASE depth[t] = 0
      <3>1. irq[t]
        BY <2>1 DEF FlagInv
      <3>2. saved'[t] /\ ~irq'[t] /\ depth'[t] = 1 /\ pc'[t] = "exchange"
        BY <2>1, <3>1 DEF TypeOK
      <3> QED
        BY <2>1, <3>2 DEF TypeOK, FlagInv, sched
    <2>2. CASE depth[t] # 0
      <3>1. depth[t] > 0 /\ depth'[t] > 0
        BY <2>2 DEF TypeOK
      <3>2. saved' = saved /\ irq' = irq
        BY <2>2
      <3> QED
        BY <2>2, <3>1, <3>2 DEF TypeOK, FlagInv, sched
    <2> QED
      BY <2>1, <2>2
  <1> QED
    BY <1>2, <1>3, <1>4, <1>5, <1>6 DEF IInv

(* The exchange that finds the mutex free: nobody else has a claim on it.   *)
LEMMA AcquireKeeps ==
  ASSUME IInv, NEW t \in Threads, Acquire(t)
  PROVE  IInv'
  <1> USE DEF IInv, Acquire, At
  <1> DEFINE m == target[t]
  <1>1. m \in Mutexes /\ m \notin holds[t]
    BY DEF ClaimInv
  <1>2. \A u \in Threads : ~Claims(u, m)
    BY <1>1 DEF ClaimInv
  <1>3. /\ locked' = [locked EXCEPT ![m] = TRUE]
        /\ handle' = [handle EXCEPT ![m] = t]
        /\ holds' = [holds EXCEPT ![t] = @ \cup {m}]
        /\ pc' = [pc EXCEPT ![t] = "run"]
    OBVIOUS
  <1> HIDE DEF m
  <1>4. TypeOK'
    <2>1. array' \in [Slots -> Mutexes \cup {NoMutex}]
      BY <1>1 DEF TypeOK, AppendToArray, m
    <2>2. /\ locked' \in [Mutexes -> BOOLEAN]
          /\ handle' \in [Mutexes -> Threads \cup {Invalid}]
          /\ holds' \in [Threads -> SUBSET Mutexes]
      BY <1>1, <1>3 DEF TypeOK
    <2>3. pc' \in [Threads -> Place]
      BY <1>3 DEF TypeOK, Place
    <2> QED
      BY <2>1, <2>2, <2>3 DEF TypeOK, flags, sched
  <1>5. \A u \in Threads, n \in Mutexes :
          Claims(u, n)' <=> Claims(u, n) \/ (u = t /\ n = m)
    BY <1>1, <1>3 DEF TypeOK, Claims
  <1>6. ClaimInv'
    <2>1. \A u \in Threads, n \in Mutexes : Claims(u, n)' => locked'[n]
      BY <1>1, <1>3, <1>5 DEF TypeOK, ClaimInv
    <2>2. \A u, v \in Threads, n \in Mutexes : Claims(u, n)' /\ Claims(v, n)' => u = v
      BY <1>1, <1>2, <1>5 DEF ClaimInv
    <2>3. \A u \in Threads :
            pc'[u] \in {"exchange", "remove", "release"} => target'[u] \in Mutexes \ holds'[u]
      BY <1>1, <1>3 DEF TypeOK, ClaimInv
    <2> QED
      BY <2>1, <2>2, <2>3 DEF ClaimInv
  <1>7. OwnerInv'
    BY <1>1, <1>2, <1>3 DEF TypeOK, OwnerInv, Claims
  <1>8. DepthInv'
    <2>1. depth'[t] = Cardinality(holds'[t])
      <3>1. Cardinality(holds[t] \cup {m}) = Cardinality(holds[t]) + 1
        BY <1>1, HoldsFinite, FS_AddElement DEF TypeOK
      <3>2. depth[t] = Cardinality(holds[t]) + 1
        BY DEF DepthInv
      <3> QED
        BY <1>3, <3>1, <3>2 DEF TypeOK, flags
    <2>2. Cardinality(holds'[t]) \in Nat
      BY <1>4, HoldsFinite DEF TypeOK
    <2> QED
      BY <1>3, <2>1, <2>2 DEF TypeOK, DepthInv, flags
  <1>9. FlagInv'
    BY <1>3 DEF TypeOK, FlagInv, flags, sched
  <1> QED
    BY <1>4, <1>6, <1>7, <1>8, <1>9 DEF IInv

-----------------------------------------------------------------------------
(* Every step keeps the invariant.                                          *)
LEMMA NextIInv == IInv /\ [Next]_vars => IInv'
  <1> SUFFICES ASSUME IInv, [Next]_vars PROVE IInv'
    OBVIOUS
  <1> USE DEF IInv
  <1>1. CASE Tick
    BY <1>1, SwitchKeeps DEF Tick
  <1>2. ASSUME NEW t \in Threads, Yield(t) \/ Contend(t) PROVE IInv'
    BY <1>2, SwitchKeeps DEF Yield, Contend
  <1>3. ASSUME NEW t \in Threads, NEW m \in Mutexes, MutexLock(t, m) PROVE IInv'
    BY <1>3, MutexLockKeeps
  <1>4. ASSUME NEW t \in Threads, Acquire(t) PROVE IInv'
    BY <1>4, AcquireKeeps
  <1>5. ASSUME NEW t \in Threads, NEW m \in Mutexes, MutexUnlock(t, m) PROVE IInv'
    BY <1>5, StartUnlockKeeps DEF MutexUnlock, At
  <1>6. ASSUME NEW t \in Threads, RemoveFromArray(t) PROVE IInv'
    <2>1. TypeOK'
      <3>1. array' \in [Slots -> Mutexes \cup {NoMutex}]
        BY <1>6 DEF RemoveFromArray, TypeOK
      <3>2. pc' \in [Threads -> Place]
        BY <1>6 DEF RemoveFromArray, TypeOK, Place
      <3> QED
        BY <1>6, <3>1, <3>2 DEF RemoveFromArray, TypeOK, flags, sched
    <2>2. /\ pc[t] = "remove" /\ pc' = [pc EXCEPT ![t] = "release"]
          /\ UNCHANGED <<locked, handle, flags, holds, target, sched>>
      BY <1>6 DEF RemoveFromArray, At
    <2>3. ClaimInv' /\ OwnerInv'
      BY <2>2 DEF TypeOK, ClaimInv, Claims, OwnerInv
    <2>4. DepthInv' /\ FlagInv'
      BY <2>2 DEF TypeOK, DepthInv, FlagInv, flags, sched
    <2> QED
      BY <2>1, <2>3, <2>4
  <1>7. ASSUME NEW t \in Threads, Release(t) PROVE IInv'
    <2> DEFINE m == target[t]
               next == IF life[t] = "crashing" THEN "clear" ELSE "run"
    <2>1. /\ pc[t] = "release" /\ m \in Mutexes /\ m \notin holds[t]
          /\ locked' = [locked EXCEPT ![m] = FALSE]
          /\ pc' = [pc EXCEPT ![t] = next]
          /\ UNCHANGED <<handle, array, flags, holds, target, sched>>
      BY <1>7 DEF Release, At, ClaimInv
    <2>2. next \in {"clear", "run"} /\ (life[t] = "live" => next = "run")
      OBVIOUS
    <2> HIDE DEF m, next
    <2>3. TypeOK'
      BY <2>1, <2>2 DEF TypeOK, Place, flags, sched
    <2>4. Claims(t, m)
      BY <2>1 DEF Claims, m
    <2>5. \A u \in Threads, n \in Mutexes : Claims(u, n)' <=> Claims(u, n) /\ ~(u = t /\ n = m)
      BY <2>1, <2>2 DEF TypeOK, Claims, m
    <2>6. ClaimInv'
      <3>1. \A u \in Threads, n \in Mutexes : Claims(u, n)' => locked'[n]
        BY <2>1, <2>4, <2>5 DEF TypeOK, ClaimInv
      <3>2. \A u, v \in Threads, n \in Mutexes : Claims(u, n)' /\ Claims(v, n)' => u = v
        BY <2>5 DEF ClaimInv
      <3>3. \A u \in Threads :
              pc'[u] \in {"exchange", "remove", "release"} => target'[u] \in Mutexes \ holds'[u]
        BY <2>1, <2>2 DEF TypeOK, ClaimInv
      <3> QED
        BY <3>1, <3>2, <3>3 DEF ClaimInv
    <2>7. OwnerInv'
      BY <2>1 DEF OwnerInv
    <2>8. DepthInv' /\ FlagInv'
      BY <2>1, <2>2 DEF TypeOK, DepthInv, FlagInv, flags, sched
    <2> QED
      BY <2>3, <2>6, <2>7, <2>8
  <1>8. ASSUME NEW t \in Threads, Crash(t) PROVE IInv'
    <2>1. CASE t = Main
      BY <1>8, <2>1 DEF Crash, TypeOK, ClaimInv, Claims, OwnerInv, DepthInv, FlagInv, mutex
    <2>2. CASE t # Main
      <3>1. /\ pc[t] = "run"
            /\ irq' = [irq EXCEPT ![t] = FALSE]
            /\ life' = [life EXCEPT ![t] = "crashing"]
            /\ pc' = [pc EXCEPT ![t] = "clear"]
            /\ UNCHANGED <<mutex, depth, saved, holds, target, current, fatal>>
        BY <1>8, <2>2 DEF Crash, At
      <3>2. TypeOK'
        BY <3>1 DEF TypeOK, Place, Life, mutex
      <3>3. ClaimInv' /\ OwnerInv' /\ DepthInv'
        BY <3>1 DEF TypeOK, ClaimInv, Claims, OwnerInv, DepthInv, mutex
      <3>4. FlagInv'
        BY <3>1 DEF TypeOK, FlagInv
      <3> QED
        BY <3>2, <3>3, <3>4
    <2> QED
      BY <2>1, <2>2
  <1>9. ASSUME NEW t \in Threads, ClearNext(t) PROVE IInv'
    <2>1. PICK i \in Owned(t) : StartUnlock(t, array[i])
      BY <1>9 DEF ClearNext
    <2>2. array[i] \in holds[t]
      BY <2>1 DEF Owned, TypeOK, OwnerInv
    <2> QED
      BY <1>9, <2>1, <2>2, StartUnlockKeeps DEF ClearNext, At
  <1>10. ASSUME NEW t \in Threads, Terminate(t) PROVE IInv'
    <2>1. TypeOK'
      BY <1>10 DEF Terminate, Runnable, TypeOK, Life, mutex, flags
    <2>2. ClaimInv' /\ OwnerInv' /\ DepthInv'
      BY <1>10 DEF Terminate, ClaimInv, Claims, OwnerInv, DepthInv, mutex, flags
    <2>3. FlagInv'
      BY <1>10 DEF Terminate, TypeOK, FlagInv, flags
    <2> QED
      BY <2>1, <2>2, <2>3
  <1>11. ASSUME NEW t \in Threads, NEW victim \in Threads, Kill(t, victim) PROVE IInv'
    <2>1. TypeOK'
      BY <1>11 DEF Kill, TypeOK, Life, mutex, flags
    <2>2. ClaimInv' /\ OwnerInv' /\ DepthInv'
      BY <1>11 DEF Kill, ClaimInv, Claims, OwnerInv, DepthInv, mutex, flags
    <2>3. FlagInv'
      BY <1>11 DEF Kill, TypeOK, FlagInv, flags
    <2> QED
      BY <2>1, <2>2, <2>3
  <1>12. CASE UNCHANGED vars
    BY <1>12 DEF vars, TypeOK, ClaimInv, Claims, OwnerInv, DepthInv, FlagInv
  <1> QED
    BY <1>1, <1>2, <1>3, <1>4, <1>5, <1>6, <1>7, <1>8, <1>9, <1>10, <1>11, <1>12
       DEF Next, Step, Inside

-----------------------------------------------------------------------------
(* What a crash relies on: global_mutex_array.                              *)

Listed(m) == \E i \in Slots : array[i] = m

ListedOnce == \A i, j \in Slots : array[i] # NoMutex /\ array[i] = array[j] => i = j

(* The array has every mutex that is held, and only those, or one that is   *)
(* about to be taken out.                                                   *)
ArrayInv ==
  /\ ListedOnce
  /\ \A t \in Threads : \A m \in holds[t] : Listed(m)
  /\ \A i \in Slots : array[i] # NoMutex =>
       \E t \in Threads : array[i] \in holds[t] \/ (pc[t] = "remove" /\ target[t] = array[i])

(* A thread that went away held nothing.                                    *)
GoneInv == \A t \in Threads : life[t] = "gone" => pc[t] = "clear" /\ holds[t] = {}

CrashInv == ArrayInv /\ GoneInv /\ NoMutexOrphaned

(* A search of the array ends at the first slot that passes its test.       *)
Before == {p \in Nat \X Nat : p[1] < p[2]}

LEMMA FirstSlot ==
  ASSUME NEW S \in SUBSET Slots, S # {}
  PROVE  (CHOOSE i \in S : \A j \in S : i <= j) \in S
  <1>1. IsWellFoundedOn(Before, Nat)
    BY NatLessThanWellFounded DEF OpToRel, Before
  <1>2. S \subseteq Nat
    BY DEF Slots
  <1>3. PICK i \in S : \A j \in S : ~(<<j, i>> \in Before)
    BY <1>1, <1>2, WFMin
  <1>4. \A j \in S : i <= j
    <2> TAKE j \in S
    <2>1. i \in Nat /\ j \in Nat
      BY <1>2
    <2>2. ~(j < i)
      BY <1>3, <2>1, <<j, i>> \in Nat \X Nat, <<j, i>>[1] = j, <<j, i>>[2] = i DEF Before
    <2> QED
      BY <2>1, <2>2
  <1> QED
    BY <1>4

(* There is room for a mutex that is not in the array: each of the others   *)
(* is in it once at most, and it has as many slots as there are mutexes.    *)
LEMMA RoomForOne ==
  ASSUME TypeOK, ListedOnce, NEW m \in Mutexes, ~Listed(m)
  PROVE  \E i \in Slots : array[i] = NoMutex
  <1> SUFFICES ASSUME \A i \in Slots : array[i] # NoMutex PROVE FALSE
    OBVIOUS
  <1> DEFINE Others == Mutexes \ {m}
  <1>1. array \in [Slots -> Others]
    BY DEF TypeOK, Listed
  <1>2. IsFiniteSet(Slots) /\ Cardinality(Slots) = ArraySize
    BY SizeAssumption, FS_Interval DEF Slots
  <1>3. IsFiniteSet(Mutexes) /\ Cardinality(Mutexes) = MaxMutex
    BY SizeAssumption, FS_Interval DEF Mutexes
  <1>4. IsFiniteSet(Others) /\ Cardinality(Others) = MaxMutex - 1
    BY <1>3, FS_RemoveElement
  <1>5. Cardinality(Others) < Cardinality(Slots)
    BY <1>2, <1>4, SizeAssumption
  <1> HIDE DEF Others
  <1>6. \E i, j \in Slots : i # j /\ array[i] = array[j]
    BY <1>1, <1>2, <1>4, <1>5, FS_PigeonHole
  <1> QED
    BY <1>6 DEF ListedOnce

LEMMA Appended ==
  ASSUME TypeOK, ListedOnce, NEW m \in Mutexes, ~Listed(m)
  PROVE  \E i \in Slots : array[i] = NoMutex /\ AppendToArray(m) = [array EXCEPT ![i] = m]
  <1> DEFINE S == {i \in Slots : array[i] = NoMutex}
             first == CHOOSE i \in S : \A j \in S : i <= j
  <1>1. S # {}
    BY RoomForOne
  <1>2. first \in S
    BY <1>1, FirstSlot
  <1>3. AppendToArray(m) = [array EXCEPT ![first] = m]
    BY <1>1 DEF AppendToArray
  <1> QED
    BY <1>2, <1>3

LEMMA InitCrash == Init => CrashInv
  BY DEF Init, CrashInv, ArrayInv, ListedOnce, GoneInv, NoMutexOrphaned

LEMMA AcquireCrash ==
  ASSUME IInv, CrashInv, NEW t \in Threads, Acquire(t)
  PROVE  CrashInv'
  <1>0. PICK m \in Mutexes : m = target[t]
    BY DEF IInv, ClaimInv, Acquire, At
  <1>1. /\ pc[t] = "exchange" /\ ~locked[m]
        /\ locked' = [locked EXCEPT ![m] = TRUE]
        /\ array' = AppendToArray(m)
        /\ holds' = [holds EXCEPT ![t] = @ \cup {m}]
        /\ pc' = [pc EXCEPT ![t] = "run"]
        /\ UNCHANGED <<target, life>>
    BY <1>0 DEF Acquire, At, sched
  <1>2. TypeOK /\ m # NoMutex
    BY DEF IInv, Mutexes, NoMutex
  <1>3. \A u \in Threads : ~Claims(u, m)
    BY <1>1, <1>2 DEF IInv, ClaimInv
  <1>4. ~Listed(m)
    BY <1>2, <1>3 DEF CrashInv, ArrayInv, Claims, Listed
  <1>5. PICK i \in Slots : array[i] = NoMutex /\ array' = [array EXCEPT ![i] = m]
    BY <1>1, <1>2, <1>4, Appended DEF CrashInv, ArrayInv
  <1>6. array \in [Slots -> Mutexes \cup {NoMutex}] /\ array'[i] = m
        /\ \A j \in Slots \ {i} : array'[j] = array[j]
    BY <1>2, <1>5 DEF TypeOK
  <1>7. ListedOnce'
    BY <1>4, <1>6 DEF CrashInv, ArrayInv, ListedOnce, Listed
  <1>8. \A u \in Threads : holds'[u] = IF u = t THEN holds[t] \cup {m} ELSE holds[u]
    BY <1>1, <1>2 DEF TypeOK
  <1>9. \A u \in Threads : \A n \in holds'[u] : Listed(n)'
    <2> SUFFICES ASSUME NEW u \in Threads, NEW n \in holds'[u] PROVE Listed(n)'
      OBVIOUS
    <2>1. CASE n = m
      BY <1>6, <2>1 DEF Listed
    <2>2. CASE n # m
      <3>1. n \in holds[u] /\ n \in Mutexes
        BY <1>2, <1>8, <2>2 DEF TypeOK
      <3>2. PICK j \in Slots : array[j] = n
        BY <3>1 DEF CrashInv, ArrayInv, Listed
      <3>3. j # i
        BY <1>5, <3>1, <3>2 DEF NoMutex, Mutexes
      <3> QED
        BY <1>6, <3>2, <3>3 DEF Listed
    <2> QED
      BY <2>1, <2>2
  <1>10. \A j \in Slots : array'[j] # NoMutex =>
           \E u \in Threads : array'[j] \in holds'[u] \/ (pc'[u] = "remove" /\ target'[u] = array'[j])
    <2> SUFFICES ASSUME NEW j \in Slots, array'[j] # NoMutex
                 PROVE  \E u \in Threads : array'[j] \in holds'[u]
                                          \/ (pc'[u] = "remove" /\ target'[u] = array'[j])
      OBVIOUS
    <2>1. CASE j = i
      BY <1>6, <1>8, <2>1
    <2>2. CASE j # i
      <3>1. PICK u \in Threads : array[j] \in holds[u] \/ (pc[u] = "remove" /\ target[u] = array[j])
        BY <1>6, <2>2 DEF CrashInv, ArrayInv
      <3>2. pc[u] = "remove" => pc'[u] = "remove"
        BY <1>1, <1>2 DEF TypeOK
      <3> QED
        BY <1>1, <1>6, <1>8, <2>2, <3>1, <3>2
    <2> QED
      BY <2>1, <2>2
  <1>11. GoneInv'
    BY <1>1, <1>8 DEF CrashInv, GoneInv
  <1>12. NoMutexOrphaned'
    <2>1. life[t] # "gone"
      BY <1>1 DEF CrashInv, GoneInv
    <2>2. Claims(t, m)' /\ life'[t] # "gone"
      BY <1>1, <1>8, <2>1 DEF Claims
    <2>3. ASSUME NEW n \in Mutexes, locked'[n], n # m
          PROVE  \E u \in Threads : Claims(u, n)' /\ life'[u] # "gone"
      <3>1. PICK u \in Threads : Claims(u, n) /\ life[u] # "gone"
        BY <1>1, <1>2, <2>3 DEF CrashInv, NoMutexOrphaned, TypeOK
      <3>2. Claims(u, n)'
        BY <1>1, <1>2, <1>8, <3>1 DEF Claims, TypeOK
      <3> QED
        BY <1>1, <3>1, <3>2
    <2> QED
      BY <2>2, <2>3 DEF NoMutexOrphaned
  <1> QED
    BY <1>7, <1>9, <1>10, <1>11, <1>12 DEF CrashInv, ArrayInv

(* The first half of mutex_unlock leaves the mutex in the array.            *)
LEMMA StartUnlockCrash ==
  ASSUME IInv, CrashInv, NEW t \in Threads, NEW m \in holds[t],
         pc[t] \in {"run", "clear"}, StartUnlock(t, m)
  PROVE  CrashInv'
  <1>1. /\ \A u \in Threads : holds'[u] = IF u = t THEN holds[t] \ {m} ELSE holds[u]
        /\ \A u \in Threads : target'[u] = IF u = t THEN m ELSE target[u]
        /\ \A u \in Threads : pc'[u] = IF u = t THEN "remove" ELSE pc[u]
        /\ UNCHANGED <<locked, array, life>>
    BY DEF StartUnlock, IInv, TypeOK, sched
  <1>2. ArrayInv'
    <2>1. \A u \in Threads : \A n \in holds'[u] : Listed(n)'
      BY <1>1 DEF CrashInv, ArrayInv, Listed
    <2>2. ASSUME NEW i \in Slots, array'[i] # NoMutex
          PROVE  \E u \in Threads : array'[i] \in holds'[u]
                                   \/ (pc'[u] = "remove" /\ target'[u] = array'[i])
      <3>1. PICK u \in Threads : array[i] \in holds[u] \/ (pc[u] = "remove" /\ target[u] = array[i])
        BY <1>1, <2>2 DEF CrashInv, ArrayInv
      <3> QED
        BY <1>1, <3>1
    <2>3. ListedOnce'
      BY <1>1 DEF CrashInv, ArrayInv, ListedOnce
    <2> QED
      BY <2>1, <2>2, <2>3 DEF ArrayInv
  <1>3. GoneInv'
    BY <1>1 DEF CrashInv, GoneInv
  <1>4. NoMutexOrphaned'
    <2> SUFFICES ASSUME NEW n \in Mutexes, locked[n]
                 PROVE  \E u \in Threads : Claims(u, n)' /\ life'[u] # "gone"
      BY <1>1 DEF NoMutexOrphaned
    <2>1. PICK u \in Threads : Claims(u, n) /\ life[u] # "gone"
      BY DEF CrashInv, NoMutexOrphaned
    <2>2. Claims(u, n)'
      BY <1>1, <2>1 DEF Claims
    <2> QED
      BY <1>1, <2>1, <2>2
  <1> QED
    BY <1>2, <1>3, <1>4 DEF CrashInv

(* Taken out of the array, which had it once, it is not there any more.     *)
LEMMA RemoveCrash ==
  ASSUME IInv, CrashInv, NEW t \in Threads, RemoveFromArray(t)
  PROVE  CrashInv'
  <1>0. PICK m \in Mutexes : m = target[t]
    BY DEF IInv, ClaimInv, RemoveFromArray, At
  <1> DEFINE S == {i \in Slots : array[i] = m}
             first == CHOOSE i \in S : \A j \in S : i <= j
  <1>1. /\ pc[t] = "remove" /\ m \notin holds[t] /\ m # NoMutex
        /\ array' = IF S = {} THEN array ELSE [array EXCEPT ![first] = NoMutex]
        /\ UNCHANGED <<locked, holds, target, life>>
        /\ \A u \in Threads : pc'[u] = IF u = t THEN "release" ELSE pc[u]
    BY <1>0 DEF RemoveFromArray, At, IInv, TypeOK, ClaimInv, sched, Mutexes, NoMutex
  <1>2. \A u \in Threads, n \in Mutexes : Claims(u, n) /\ Claims(t, n) => u = t
    BY DEF IInv, ClaimInv
  <1>3. Claims(t, m)
    BY <1>0, <1>1 DEF Claims
  <1>4. \A j \in Slots : array'[j] = IF array[j] = m THEN NoMutex ELSE array[j]
    <2>1. CASE S = {}
      BY <1>1, <2>1
    <2>2. CASE S # {}
      <3>1. first \in S
        BY <2>2, FirstSlot
      <3>2. \A j \in Slots : array[j] = m => j = first
        BY <1>1, <3>1 DEF CrashInv, ArrayInv, ListedOnce
      <3>3. array' = [array EXCEPT ![first] = NoMutex]
        BY <1>1, <2>2
      <3> HIDE DEF first
      <3> QED
        BY <3>1, <3>2, <3>3 DEF IInv, TypeOK
    <2> QED
      BY <2>1, <2>2
  <1> HIDE DEF S, first
  <1>5. \A u \in Threads : \A n \in holds'[u] : Listed(n)'
    <2> SUFFICES ASSUME NEW u \in Threads, NEW n \in holds[u] PROVE \E j \in Slots : array'[j] = n
      BY <1>1 DEF Listed
    <2>1. n \in Mutexes /\ n # m
      BY <1>1, <1>2, <1>3 DEF IInv, TypeOK, Claims
    <2> QED
      BY <1>4, <2>1 DEF CrashInv, ArrayInv, Listed
  <1>6. ASSUME NEW i \in Slots, array'[i] # NoMutex
        PROVE  \E u \in Threads : array'[i] \in holds'[u]
                                 \/ (pc'[u] = "remove" /\ target'[u] = array'[i])
    <2>1. array'[i] = array[i] /\ array[i] # m
      BY <1>4, <1>6
    <2>2. PICK u \in Threads : array[i] \in holds[u] \/ (pc[u] = "remove" /\ target[u] = array[i])
      BY <1>6, <2>1 DEF CrashInv, ArrayInv
    <2> QED
      BY <1>0, <1>1, <2>1, <2>2
  <1>7. ListedOnce'
    BY <1>4 DEF CrashInv, ArrayInv, ListedOnce
  <1>8. GoneInv'
    BY <1>1 DEF CrashInv, GoneInv
  <1>9. NoMutexOrphaned'
    <2> SUFFICES ASSUME NEW n \in Mutexes, locked[n]
                 PROVE  \E u \in Threads : Claims(u, n)' /\ life'[u] # "gone"
      BY <1>1 DEF NoMutexOrphaned
    <2>1. PICK u \in Threads : Claims(u, n) /\ life[u] # "gone"
      BY DEF CrashInv, NoMutexOrphaned
    <2>2. Claims(u, n)'
      BY <1>1, <2>1 DEF Claims
    <2> QED
      BY <1>1, <2>1, <2>2
  <1> QED
    BY <1>5, <1>6, <1>7, <1>8, <1>9 DEF CrashInv, ArrayInv

LEMMA ReleaseCrash ==
  ASSUME IInv, CrashInv, NEW t \in Threads, Release(t)
  PROVE  CrashInv'
  <1>0. PICK m \in Mutexes : m = target[t]
    BY DEF IInv, ClaimInv, Release, At
  <1>1. /\ pc[t] = "release" /\ m \notin holds[t]
        /\ \A n \in Mutexes : locked'[n] = (n # m /\ locked[n])
        /\ \A u \in Threads : u # t => pc'[u] = pc[u]
        /\ pc'[t] \in {"clear", "run"}
        /\ UNCHANGED <<array, holds, target, life>>
    BY <1>0 DEF Release, At, IInv, TypeOK, ClaimInv, sched
  <1>2. ArrayInv'
    <2>1. ASSUME NEW i \in Slots, array'[i] # NoMutex
          PROVE  \E u \in Threads : array'[i] \in holds'[u]
                                   \/ (pc'[u] = "remove" /\ target'[u] = array'[i])
      <3>1. PICK u \in Threads : array[i] \in holds[u] \/ (pc[u] = "remove" /\ target[u] = array[i])
        BY <1>1, <2>1 DEF CrashInv, ArrayInv
      <3> QED
        BY <1>1, <3>1
    <2> QED
      BY <1>1, <2>1 DEF CrashInv, ArrayInv, ListedOnce, Listed
  <1>3. GoneInv'
    BY <1>1 DEF CrashInv, GoneInv
  <1>4. NoMutexOrphaned'
    <2> SUFFICES ASSUME NEW n \in Mutexes, locked[n], n # m
                 PROVE  \E u \in Threads : Claims(u, n)' /\ life'[u] # "gone"
      BY <1>1 DEF NoMutexOrphaned
    <2>1. PICK u \in Threads : Claims(u, n) /\ life[u] # "gone"
      BY DEF CrashInv, NoMutexOrphaned
    <2>2. Claims(u, n)'
      BY <1>0, <1>1, <2>1 DEF Claims
    <2> QED
      BY <1>1, <2>1, <2>2
  <1> QED
    BY <1>2, <1>3, <1>4 DEF CrashInv

(* The crash handler ends when the array has nothing of the thread: then it *)
(* holds nothing.                                                           *)
LEMMA TerminateCrash ==
  ASSUME IInv, CrashInv, NEW t \in Threads, Terminate(t)
  PROVE  CrashInv'
  <1>1. /\ pc[t] = "clear" /\ Owned(t) = {}
        /\ \A u \in Threads : life'[u] = IF u = t THEN "gone" ELSE life[u]
        /\ UNCHANGED <<locked, array, holds, target, pc>>
    BY DEF Terminate, At, IInv, TypeOK, mutex
  <1>2. holds[t] = {}
    <2> SUFFICES ASSUME NEW m \in holds[t] PROVE FALSE
      OBVIOUS
    <2>1. m \in Mutexes /\ handle[m] = t
      BY DEF IInv, TypeOK, OwnerInv
    <2>2. PICK i \in Slots : array[i] = m
      BY DEF CrashInv, ArrayInv, Listed
    <2>3. i \in Owned(t)
      BY <2>1, <2>2 DEF Owned, NoMutex, Mutexes
    <2> QED
      BY <1>1, <2>3
  <1>3. ArrayInv'
    BY <1>1 DEF CrashInv, ArrayInv, ListedOnce, Listed
  <1>4. GoneInv'
    BY <1>1, <1>2 DEF CrashInv, GoneInv
  <1>5. NoMutexOrphaned'
    <2> SUFFICES ASSUME NEW n \in Mutexes, locked[n]
                 PROVE  \E u \in Threads : Claims(u, n)' /\ life'[u] # "gone"
      BY <1>1 DEF NoMutexOrphaned
    <2>1. PICK u \in Threads : Claims(u, n) /\ life[u] # "gone"
      BY DEF CrashInv, NoMutexOrphaned
    <2>2. u # t
      BY <1>1, <1>2, <2>1 DEF Claims
    <2>3. Claims(u, n)'
      BY <1>1, <2>1 DEF Claims
    <2> QED
      BY <1>1, <2>1, <2>2, <2>3
  <1> QED
    BY <1>3, <1>4, <1>5 DEF CrashInv

(* What touches neither the array nor a claim, and takes no life.           *)
LEMMA ElseCrash ==
  ASSUME IInv, CrashInv, UNCHANGED <<locked, array, holds>>,
         \A u \in Threads : pc[u] \in {"remove", "release"} =>
                               pc'[u] = pc[u] /\ target'[u] = target[u],
         \A u \in Threads : life'[u] = "gone" <=> life[u] = "gone",
         \A u \in Threads : pc[u] = "clear" => pc'[u] = "clear"
  PROVE  CrashInv'
  <1>1. ArrayInv'
    <2>1. ASSUME NEW i \in Slots, array'[i] # NoMutex
          PROVE  \E u \in Threads : array'[i] \in holds'[u]
                                   \/ (pc'[u] = "remove" /\ target'[u] = array'[i])
      <3>1. PICK u \in Threads : array[i] \in holds[u] \/ (pc[u] = "remove" /\ target[u] = array[i])
        BY <2>1 DEF CrashInv, ArrayInv
      <3> QED
        BY <3>1
    <2> QED
      BY <2>1 DEF CrashInv, ArrayInv, ListedOnce, Listed
  <1>2. GoneInv'
    BY DEF CrashInv, GoneInv
  <1>3. NoMutexOrphaned'
    <2> SUFFICES ASSUME NEW n \in Mutexes, locked[n]
                 PROVE  \E u \in Threads : Claims(u, n)' /\ life'[u] # "gone"
      BY DEF NoMutexOrphaned
    <2>1. PICK u \in Threads : Claims(u, n) /\ life[u] # "gone"
      BY DEF CrashInv, NoMutexOrphaned
    <2>2. Claims(u, n)'
      BY <2>1 DEF Claims
    <2> QED
      BY <2>1, <2>2
  <1> QED
    BY <1>1, <1>2, <1>3 DEF CrashInv

LEMMA NextCrash == IInv /\ CrashInv /\ [Next]_vars => CrashInv'
  <1> SUFFICES ASSUME IInv, CrashInv, [Next]_vars PROVE CrashInv'
    OBVIOUS
  <1>1. CASE Tick \/ \E t \in Threads : Yield(t) \/ Contend(t)
    BY <1>1, ElseCrash DEF Tick, Yield, Contend, mutex
  <1>2. ASSUME NEW t \in Threads, NEW m \in Mutexes, MutexLock(t, m) PROVE CrashInv'
    <2>1. /\ pc[t] = "run" /\ pc' = [pc EXCEPT ![t] = "exchange"]
          /\ target' = [target EXCEPT ![t] = m]
          /\ UNCHANGED <<locked, array, holds, life>>
      BY <1>2 DEF MutexLock, At, mutex, sched
    <2> QED
      BY <2>1, ElseCrash DEF IInv, TypeOK
  <1>3. ASSUME NEW t \in Threads, Acquire(t) PROVE CrashInv'
    BY <1>3, AcquireCrash
  <1>4. ASSUME NEW t \in Threads, NEW m \in Mutexes, MutexUnlock(t, m) PROVE CrashInv'
    BY <1>4, StartUnlockCrash DEF MutexUnlock, At
  <1>5. ASSUME NEW t \in Threads, RemoveFromArray(t) PROVE CrashInv'
    BY <1>5, RemoveCrash
  <1>6. ASSUME NEW t \in Threads, Release(t) PROVE CrashInv'
    BY <1>6, ReleaseCrash
  <1>7. ASSUME NEW t \in Threads, Crash(t) PROVE CrashInv'
    <2>1. CASE t = Main
      BY <1>7, <2>1, ElseCrash DEF Crash, mutex
    <2>2. CASE t # Main
      <3>1. /\ pc[t] = "run" /\ pc' = [pc EXCEPT ![t] = "clear"]
            /\ life' = [life EXCEPT ![t] = "crashing"]
            /\ UNCHANGED <<locked, array, holds, target>>
        BY <1>7, <2>2 DEF Crash, At, mutex
      <3>2. life[t] # "gone"
        BY <3>1 DEF CrashInv, GoneInv
      <3> QED
        BY <3>1, <3>2, ElseCrash DEF IInv, TypeOK
    <2> QED
      BY <2>1, <2>2
  <1>8. ASSUME NEW t \in Threads, ClearNext(t) PROVE CrashInv'
    <2>1. PICK i \in Owned(t) : StartUnlock(t, array[i])
      BY <1>8 DEF ClearNext
    <2>2. array[i] \in holds[t]
      BY <2>1 DEF Owned, IInv, TypeOK, OwnerInv
    <2> QED
      BY <1>8, <2>1, <2>2, StartUnlockCrash DEF ClearNext, At
  <1>9. ASSUME NEW t \in Threads, Terminate(t) PROVE CrashInv'
    BY <1>9, TerminateCrash
  <1>10. ASSUME NEW t \in Threads, NEW victim \in Threads, Kill(t, victim) PROVE CrashInv'
    <2>1. /\ life[victim] = "live" /\ life' = [life EXCEPT ![victim] = "killed"]
          /\ UNCHANGED <<locked, array, holds, target, pc>>
      BY <1>10 DEF Kill, mutex
    <2> QED
      BY <2>1, ElseCrash DEF IInv, TypeOK
  <1>11. CASE UNCHANGED vars
    BY <1>11, ElseCrash DEF vars
  <1> QED
    BY <1>1, <1>2, <1>3, <1>4, <1>5, <1>6, <1>7, <1>8, <1>9, <1>10, <1>11
       DEF Next, Step, Inside

-----------------------------------------------------------------------------
(* At most one thread is in the critical section of a mutex, for any number *)
(* of threads and mutexes.                                                  *)
THEOREM MutexesExclude == Spec => []MutualExclusion
  <1>1. Init => IInv
    BY InitIInv
  <1>2. IInv /\ [Next]_vars => IInv'
    BY NextIInv
  <1>3. IInv => MutualExclusion
    BY DEF IInv, TypeOK, ClaimInv, Claims, MutualExclusion
  <1> QED
    BY <1>1, <1>2, <1>3, PTL DEF Spec

(* mutex_unlock is only ever called by the thread written in the mutex, so  *)
(* its debug_trap cannot be reached.                                        *)
THEOREM OnlyOwnersUnlock == Spec => []UnlockedByItsOwner
  <1>1. Init => IInv
    BY InitIInv
  <1>2. IInv /\ [Next]_vars => IInv'
    BY NextIInv
  <1>3. IInv => UnlockedByItsOwner
    BY DEF IInv, TypeOK, OwnerInv, UnlockedByItsOwner
  <1> QED
    BY <1>1, <1>2, <1>3, PTL DEF Spec

(* However locks nest and threads switch, a live thread has its interrupts  *)
(* masked exactly while it is inside a mutex.                               *)
THEOREM InterruptsComeBack == Spec => []MaskedExactlyInside
  <1>1. Init => IInv
    BY InitIInv
  <1>2. IInv /\ [Next]_vars => IInv'
    BY NextIInv
  <1>3. IInv => MaskedExactlyInside
    <2> SUFFICES ASSUME IInv, NEW t \in Threads, life[t] = "live"
                 PROVE  irq[t] <=> holds[t] = {} /\ pc[t] # "exchange"
      BY DEF MaskedExactlyInside
    <2>1. /\ IsFiniteSet(holds[t]) /\ Cardinality(holds[t]) \in Nat
          /\ Cardinality(holds[t]) = 0 <=> holds[t] = {}
      BY HoldsFinite, FS_EmptySet DEF IInv, TypeOK
    <2>2. depth[t] = 0 <=> holds[t] = {} /\ pc[t] # "exchange"
      BY <2>1 DEF IInv, DepthInv
    <2>3. depth[t] \in Nat /\ irq[t] \in BOOLEAN
      BY DEF IInv, TypeOK
    <2>4. depth[t] = 0 => irq[t]
      BY DEF IInv, FlagInv
    <2>5. depth[t] # 0 => ~irq[t]
      BY <2>3 DEF IInv, FlagInv
    <2> QED
      BY <2>2, <2>3, <2>4, <2>5
  <1> QED
    BY <1>1, <1>2, <1>3, PTL DEF Spec

(* A thread that crashed has unlocked all it held before it is gone: the    *)
(* handler finds every mutex of the thread in global_mutex_array, which is  *)
(* never too full to take one.                                              *)
THEOREM CrashesReleaseLocks == Spec => []NoMutexOrphaned
  <1>1. Init => IInv /\ CrashInv
    BY InitIInv, InitCrash
  <1>2. IInv /\ CrashInv /\ [Next]_vars => (IInv /\ CrashInv)'
    BY NextIInv, NextCrash
  <1>3. IInv /\ CrashInv => NoMutexOrphaned
    BY DEF CrashInv
  <1> QED
    BY <1>1, <1>2, <1>3, PTL DEF Spec
=============================================================================
