----------------------------- MODULE Heap_proofs -----------------------------
(***************************************************************************)
(* For every size of the heap and of its array of block structs, for every  *)
(* page size and every mix of requests: as long as the calls of malloc and  *)
(* free do not overlap in time, what they hand out does not overlap in      *)
(* memory, and the kernel's heap gets back what it gave.  (The run of       *)
(* HeapRace.cfg shows what two overlapping calls do.)                       *)
(***************************************************************************)
EXTENDS Heap, WellFoundedInduction, TLAPS

(* One call at a time: the assumption that the kernel does not enforce.     *)
SoleCaller == \A c, d \in Callers : c = d

(* A block is free only if it is a block, and ends inside the heap.         *)
BlockInv ==
  /\ \A s \in Slots : free[s] => used[s]
  /\ \A s \in Slots : used[s] => start[s] + size[s] <= heapSize

(* The list: it starts at its first block, each block begins where the one  *)
(* before it ends, the last ends where the heap does, and no two have the   *)
(* same successor.                                                          *)
LinkInv ==
  /\ used[First] /\ \A s \in Slots : used[s] => next[s] # First
  /\ \A s \in Slots : used[s] /\ next[s] = None => start[s] + size[s] = heapSize
  /\ \A s \in Slots : used[s] /\ next[s] # None =>
       used[next[s]] /\ start[next[s]] = start[s] + size[s]
  /\ \A s, t \in Slots : used[s] /\ used[t] /\ next[s] = next[t] => s = t

(* A struct that is no block points nowhere.                                *)
BlankInv == \A s \in Slots : ~used[s] => next[s] = None

(* Blocks that are not empty lie apart.                                     *)
BlocksApart ==
  \A s, t \in Slots :
    used[s] /\ used[t] /\ s # t /\ size[s] # 0 /\ size[t] # 0 =>
      Apart(start[s], size[s], start[t], size[t])

(* What is held is the beginning of a block that is not free.               *)
Holds(s, h) == used[s] /\ ~free[s] /\ start[s] = h.addr /\ size[s] >= h.size

HeldInv ==
  /\ \A h \in held : \E s \in Slots : Holds(s, h)
  /\ \A h, k \in held : h.addr = k.addr => h = k

(* What a call has found or been told is still so.                          *)
FoundInv(c) ==
  pc[c] = "alloc" =>
    /\ donor[c] # None =>
         used[donor[c]] /\ free[donor[c]] /\ size[donor[c]] >= Wanted(c)
    /\ unused[c] # None => ~used[unused[c]]
    /\ filler[c] # None => ~used[filler[c]] /\ filler[c] # unused[c]

GivenBack(c) ==
  pc[c] = "find" =>
    /\ \A h \in held : h.addr # request[c].addr
    /\ used[cursor[c]]

CallInv == \A c \in Callers : FoundInv(c) /\ GivenBack(c)

IInv == TypeOK /\ BlockInv /\ BlankInv /\ LinkInv /\ BlocksApart /\ HeldInv /\ CallInv


-----------------------------------------------------------------------------
(* heap_filter_blocks returns a block that passes the filter, if one does.  *)
Before == {p \in Nat \X Nat : p[1] < p[2]}

LEMMA LeastIsIn ==
  ASSUME NEW S \in SUBSET Slots, S # {}
  PROVE  Least(S) \in S
  <1>1. IsWellFoundedOn(Before, Nat)
    BY NatLessThanWellFounded DEF OpToRel, Before
  <1>2. S \subseteq Nat
    BY DEF Slots
  <1>3. PICK s \in S : \A t \in S : ~(<<t, s>> \in Before)
    BY <1>1, <1>2, WFMin
  <1>4. \A t \in S : s <= t
    <2> TAKE t \in S
    <2>1. s \in Nat /\ t \in Nat
      BY <1>2
    <2>2. ~(t < s)
      BY <1>3, <2>1, <<t, s>> \in Nat \X Nat, <<t, s>>[1] = t, <<t, s>>[2] = s DEF Before
    <2> QED
      BY <2>1, <2>2
  <1> QED
    BY <1>4 DEF Least

LEMMA LeastOfSlots ==
  ASSUME NEW S \in SUBSET Slots
  PROVE  Least(S) \in Slots \cup {None} /\ (Least(S) # None => Least(S) \in S)
  <1>1. CASE S = {}
    BY <1>1 DEF Least
  <1>2. CASE S # {}
    BY <1>2, LeastIsIn
  <1> QED
    BY <1>1, <1>2

LEMMA Remainder ==
  ASSUME NEW a \in Nat, NEW n \in Nat \ {0}
  PROVE  a % n \in Nat /\ a % n < n
  OBVIOUS

LEMMA Quotient ==
  ASSUME NEW a \in Nat, NEW n \in Nat \ {0}
  PROVE  a \div n \in Nat
  OBVIOUS

LEMMA FirstSlot == First \in Slots /\ First # None
  BY HeapAssumption DEF First, Slots, None

LEMMA InitIInv == Init => IInv
  <1> SUFFICES ASSUME Init PROVE IInv
    OBVIOUS
  <1> USE HeapAssumption DEF Init, Slots, None, First
  <1>1. TypeOK
    BY DEF TypeOK, Place, Nothing
  <1>2. BlockInv /\ BlankInv
    BY DEF BlockInv, BlankInv
  <1>3. LinkInv
    <2> HIDE DEF Slots, None, First
    <2>1. \A s \in Slots : used[s] => s = First /\ next[s] = None
      OBVIOUS
    <2>2. start[First] = 0 /\ size[First] = heapSize /\ heapSize \in Nat /\ used[First]
      BY FirstSlot
    <2>3. start[First] + size[First] = heapSize
      BY <2>2
    <2> QED
      BY FirstSlot, <2>1, <2>2, <2>3 DEF LinkInv
  <1>4. BlocksApart
    BY DEF BlocksApart
  <1>5. HeldInv /\ CallInv
    BY DEF HeldInv, CallInv, FoundInv, GivenBack
  <1> QED
    BY <1>1, <1>2, <1>3, <1>4, <1>5 DEF IInv

-----------------------------------------------------------------------------
(* A free donor cut in two.                                                 *)
LEMMA CutInTwo ==
  ASSUME IInv, NEW d \in Slots, NEW u \in Slots, NEW rest \in Nat, NEW taken \in Nat,
         used[d], free[d], ~used[u], size[d] = rest + taken,
         start' = [start EXCEPT ![u] = start[d] + rest],
         size' = [size EXCEPT ![d] = rest, ![u] = taken],
         next' = [next EXCEPT ![u] = next[d], ![d] = u],
         free' = [free EXCEPT ![u] = FALSE],
         used' = [used EXCEPT ![u] = TRUE],
         heapSize' = heapSize
  PROVE  BlockInv' /\ BlankInv' /\ LinkInv' /\ BlocksApart'
  <1> USE DEF IInv, TypeOK
  <1>1. u # d
    OBVIOUS
  <1>2. /\ start'[u] = start[d] + rest /\ size'[u] = taken
        /\ start'[d] = start[d] /\ size'[d] = rest
        /\ \A s \in Slots \ {u} : start'[s] = start[s]
        /\ \A s \in Slots \ {d, u} : size'[s] = size[s]
    BY <1>1
  <1>3. /\ next'[u] = next[d] /\ next'[d] = u
        /\ \A s \in Slots \ {d, u} : next'[s] = next[s]
        /\ used'[u] /\ ~free'[u]
        /\ \A s \in Slots \ {u} : used'[s] = used[s] /\ free'[s] = free[s]
    BY <1>1
  <1>4. /\ start[d] \in Nat /\ size[d] \in Nat /\ u # None /\ d # None
        /\ \A s \in Slots : start[s] \in Nat /\ size[s] \in Nat
    <2>1. \A s \in Slots : s # None
      BY DEF Slots, None
    <2> QED
      BY <2>1
  <1>5. BlockInv' /\ BlankInv'
    <2>1. \A s \in Slots : free'[s] => used'[s]
      BY <1>1, <1>2, <1>3 DEF BlockInv
    <2>2. start[d] + size[d] <= heapSize /\ heapSize \in Nat
      BY DEF BlockInv
    <2>3. \A s \in Slots : used'[s] => start'[s] + size'[s] <= heapSize'
      BY <1>1, <1>2, <1>3, <1>4, <2>2 DEF BlockInv
    <2>4. \A s \in Slots : ~used'[s] => next'[s] = None
      BY <1>1, <1>3 DEF BlankInv
    <2> QED
      BY <2>1, <2>3, <2>4 DEF BlockInv, BlankInv
  <1>6. LinkInv'
    <2>1. \A s \in Slots : used'[s] /\ next'[s] = None => start'[s] + size'[s] = heapSize'
      BY <1>1, <1>2, <1>3, <1>4 DEF LinkInv
    <2>2. \A s \in Slots : used[s] => next[s] # u
      BY <1>4 DEF LinkInv
    <2>3. ASSUME NEW s \in Slots, used'[s], next'[s] # None
          PROVE  used'[next'[s]] /\ start'[next'[s]] = start'[s] + size'[s]
      <3>1. CASE s = d
        BY <1>1, <1>2, <1>3, <1>4, <3>1
      <3>2. CASE s = u
        BY <1>1, <1>2, <1>3, <1>4, <2>2, <2>3, <3>2 DEF LinkInv
      <3>3. CASE s # d /\ s # u
        BY <1>2, <1>3, <1>4, <2>2, <2>3, <3>3 DEF LinkInv
      <3> QED
        BY <3>1, <3>2, <3>3
    <2>4. \A s, t \in Slots : used'[s] /\ used'[t] /\ next'[s] = next'[t] => s = t
      BY <1>1, <1>3, <2>2 DEF LinkInv
    <2>5. used'[First] /\ \A s \in Slots : used'[s] => next'[s] # First
      <3>1. used[First] /\ u # First /\ \A s \in Slots : used[s] => next[s] # First
        BY DEF LinkInv
      <3> QED
        BY <1>1, <1>3, <3>1, FirstSlot
    <2> QED
      BY <2>1, <2>3, <2>4, <2>5 DEF LinkInv
  <1>7. BlocksApart'
    <2> SUFFICES ASSUME NEW s \in Slots, NEW t \in Slots,
                        used'[s], used'[t], s # t, size'[s] # 0, size'[t] # 0
                 PROVE  Apart(start'[s], size'[s], start'[t], size'[t])
      BY DEF BlocksApart
    <2>1. \A r \in Slots \ {d, u} : used[r] /\ size[r] # 0 /\ size[d] # 0 =>
            Apart(start[d], size[d], start[r], size[r])
      BY DEF BlocksApart
    <2>2. CASE s \in {d, u} /\ t \in {d, u}
      BY <1>1, <1>2, <1>4, <2>2 DEF Apart
    <2>3. CASE s \in {d, u} /\ t \notin {d, u}
      BY <1>1, <1>2, <1>3, <1>4, <2>1, <2>3 DEF Apart
    <2>4. CASE s \notin {d, u} /\ t \in {d, u}
      BY <1>1, <1>2, <1>3, <1>4, <2>1, <2>4 DEF Apart
    <2>5. CASE s \notin {d, u} /\ t \notin {d, u}
      BY <1>2, <1>3, <2>5 DEF BlocksApart
    <2> QED
      BY <2>2, <2>3, <2>4, <2>5
  <1> QED
    BY <1>5, <1>6, <1>7

(* A free donor cut in three, the middle one free.                          *)
LEMMA CutInThree ==
  ASSUME IInv, NEW d \in Slots, NEW f \in Slots, NEW u \in Slots,
         NEW rest \in Nat, NEW gap \in Nat, NEW taken \in Nat,
         used[d], free[d], ~used[u], ~used[f], u # f, size[d] = rest + gap + taken,
         start' = [start EXCEPT ![f] = start[d] + rest, ![u] = start[d] + rest + gap],
         size' = [size EXCEPT ![d] = rest, ![f] = gap, ![u] = taken],
         next' = [next EXCEPT ![d] = f, ![f] = u, ![u] = next[d]],
         free' = [free EXCEPT ![f] = TRUE, ![u] = FALSE],
         used' = [used EXCEPT ![f] = TRUE, ![u] = TRUE],
         heapSize' = heapSize
  PROVE  BlockInv' /\ BlankInv' /\ LinkInv' /\ BlocksApart'
  <1> USE DEF IInv, TypeOK
  <1>1. u # d /\ f # d
    OBVIOUS
  <1>2. /\ start'[f] = start[d] + rest /\ size'[f] = gap
        /\ start'[u] = start[d] + rest + gap /\ size'[u] = taken
        /\ start'[d] = start[d] /\ size'[d] = rest
        /\ \A s \in Slots \ {f, u} : start'[s] = start[s]
        /\ \A s \in Slots \ {d, f, u} : size'[s] = size[s]
    BY <1>1
  <1>3. /\ next'[u] = next[d] /\ next'[d] = f /\ next'[f] = u
        /\ \A s \in Slots \ {d, f, u} : next'[s] = next[s]
        /\ used'[u] /\ ~free'[u] /\ used'[f] /\ free'[f]
        /\ \A s \in Slots \ {f, u} : used'[s] = used[s] /\ free'[s] = free[s]
    BY <1>1
  <1>4. /\ start[d] \in Nat /\ size[d] \in Nat /\ u # None /\ d # None /\ f # None
        /\ \A s \in Slots : start[s] \in Nat /\ size[s] \in Nat
    <2>1. \A s \in Slots : s # None
      BY DEF Slots, None
    <2> QED
      BY <2>1
  <1>5. BlockInv' /\ BlankInv'
    <2>1. \A s \in Slots : free'[s] => used'[s]
      BY <1>1, <1>2, <1>3 DEF BlockInv
    <2>2. start[d] + size[d] <= heapSize /\ heapSize \in Nat
      BY DEF BlockInv
    <2>3. \A s \in Slots : used'[s] => start'[s] + size'[s] <= heapSize'
      BY <1>1, <1>2, <1>3, <1>4, <2>2 DEF BlockInv
    <2>4. \A s \in Slots : ~used'[s] => next'[s] = None
      BY <1>1, <1>3 DEF BlankInv
    <2> QED
      BY <2>1, <2>3, <2>4 DEF BlockInv, BlankInv
  <1>6. LinkInv'
    <2>1. \A s \in Slots : used'[s] /\ next'[s] = None => start'[s] + size'[s] = heapSize'
      BY <1>1, <1>2, <1>3, <1>4 DEF LinkInv
    <2>2. \A s \in Slots : used[s] => next[s] # u /\ next[s] # f
      BY <1>4 DEF LinkInv
    <2>3. ASSUME NEW s \in Slots, used'[s], next'[s] # None
          PROVE  used'[next'[s]] /\ start'[next'[s]] = start'[s] + size'[s]
      <3>1. CASE s = d \/ s = f
        BY <1>1, <1>2, <1>3, <1>4, <3>1
      <3>2. CASE s = u
        BY <1>1, <1>2, <1>3, <1>4, <2>2, <2>3, <3>2 DEF LinkInv
      <3>3. CASE s # d /\ s # u /\ s # f
        BY <1>2, <1>3, <1>4, <2>2, <2>3, <3>3 DEF LinkInv
      <3> QED
        BY <3>1, <3>2, <3>3
    <2>4. \A s, t \in Slots : used'[s] /\ used'[t] /\ next'[s] = next'[t] => s = t
      BY <1>1, <1>3, <2>2 DEF LinkInv
    <2>5. used'[First] /\ \A s \in Slots : used'[s] => next'[s] # First
      <3>1. /\ used[First] /\ u # First /\ f # First
            /\ \A s \in Slots : used[s] => next[s] # First
        BY DEF LinkInv
      <3> QED
        BY <1>1, <1>3, <3>1, FirstSlot
    <2> QED
      BY <2>1, <2>3, <2>4, <2>5 DEF LinkInv
  <1>7. BlocksApart'
    <2> SUFFICES ASSUME NEW s \in Slots, NEW t \in Slots,
                        used'[s], used'[t], s # t, size'[s] # 0, size'[t] # 0
                 PROVE  Apart(start'[s], size'[s], start'[t], size'[t])
      BY DEF BlocksApart
    <2>1. \A r \in Slots \ {d, f, u} : used[r] /\ size[r] # 0 /\ size[d] # 0 =>
            Apart(start[d], size[d], start[r], size[r])
      BY DEF BlocksApart
    <2>2. CASE s \in {d, f, u} /\ t \in {d, f, u}
      BY <1>1, <1>2, <1>4, <2>2 DEF Apart
    <2>3. CASE s \in {d, f, u} /\ t \notin {d, f, u}
      BY <1>1, <1>2, <1>3, <1>4, <2>1, <2>3 DEF Apart
    <2>4. CASE s \notin {d, f, u} /\ t \in {d, f, u}
      BY <1>1, <1>2, <1>3, <1>4, <2>1, <2>4 DEF Apart
    <2>5. CASE s \notin {d, f, u} /\ t \notin {d, f, u}
      BY <1>2, <1>3, <2>5 DEF BlocksApart
    <2> QED
      BY <2>2, <2>3, <2>4, <2>5
  <1> QED
    BY <1>5, <1>6, <1>7

(* Nothing that is held begins inside a free block.                         *)
LEMMA FreshAddress ==
  ASSUME IInv, NEW d \in Slots, used[d], free[d], NEW a \in Nat,
         start[d] <= a, a < start[d] + size[d]
  PROVE  \A h \in held : h.addr # a
  <1> SUFFICES ASSUME NEW h \in held PROVE h.addr # a
    OBVIOUS
  <1> USE DEF IInv, TypeOK
  <1>1. PICK t \in Slots : Holds(t, h)
    BY DEF HeldInv
  <1>2. /\ t # d /\ used[t] /\ start[t] = h.addr /\ size[t] # 0
        /\ start[t] \in Nat /\ size[t] \in Nat /\ start[d] \in Nat /\ size[d] \in Nat
    BY <1>1 DEF Holds
  <1>3. size[d] # 0
    BY <1>2
  <1>4. Apart(start[d], size[d], start[t], size[t])
    BY <1>2, <1>3 DEF BlocksApart
  <1>5. start[t] # a
    BY ONLY <1>2, <1>4, a \in Nat, start[d] <= a, a < start[d] + size[d] DEF Apart
  <1> QED
    BY <1>2, <1>5

(* A block handed out, when the blocks of what is held stay as they are.    *)
LEMMA HandingOut ==
  ASSUME IInv, NEW c \in Callers, NEW a \in Nat, HandOut(c, a),
         NEW u \in Slots, used'[u], ~free'[u], start'[u] = a, size'[u] >= request[c].size,
         \A h \in held : h.addr # a,
         \A h \in held, t \in Slots : Holds(t, h) => Holds(t, h)'
  PROVE  HeldInv'
  <1> DEFINE new == [addr |-> a, size |-> request[c].size]
  <1>1. held' = held \cup {new}
    BY DEF HandOut
  <1>2. new.addr = a /\ new.size = request[c].size
    OBVIOUS
  <1>3. \E t \in Slots : (used'[t] /\ ~free'[t] /\ start'[t] = new.addr /\ size'[t] >= new.size)
    BY <1>2
  <1>4. \A h \in held' : \E t \in Slots :
          used'[t] /\ ~free'[t] /\ start'[t] = h.addr /\ size'[t] >= h.size
    BY <1>1, <1>3 DEF IInv, HeldInv, Holds
  <1>5. \A h, k \in held' : h.addr = k.addr => h = k
    BY <1>1, <1>2 DEF IInv, HeldInv
  <1> QED
    BY <1>4, <1>5 DEF HeldInv, Holds

-----------------------------------------------------------------------------
(* One lemma per action.                                                    *)

LEMMA CallInvElsewhere ==
  ASSUME SoleCaller, IInv, NEW c \in Callers, NEW place \in Place \ {"alloc", "find"},
         Goto(c, place)
  PROVE  CallInv'
  <1>1. \A d \in Callers : pc'[d] = place
    BY DEF SoleCaller, Goto, IInv, TypeOK
  <1> QED
    BY <1>1 DEF CallInv, FoundInv, GivenBack

LEMMA ReturnTypes ==
  ASSUME TypeOK, NEW c \in Callers, Return(c)
  PROVE  /\ pc' \in [Callers -> Place]
         /\ request' \in [Callers -> [size : Nat \ {0}, align : Nat \ {0}, addr : Nat]]
         /\ donor' \in [Callers -> Slots \cup {None}]
         /\ unused' \in [Callers -> Slots \cup {None}]
         /\ filler' \in [Callers -> Slots \cup {None}]
         /\ cursor' \in [Callers -> Slots]
  BY DEF TypeOK, Return, Goto, Place, Nothing

LEMMA BlocksStay ==
  ASSUME IInv, UNCHANGED block, UNCHANGED heapSize
  PROVE  BlockInv' /\ BlankInv' /\ LinkInv' /\ BlocksApart'
  BY DEF IInv, block, BlockInv, BlankInv, LinkInv, BlocksApart

LEMMA AllocIInv ==
  ASSUME SoleCaller, IInv, NEW c \in Callers, NEW r \in Requests, Alloc(c, r)
  PROVE  IInv'
  <1>1. TypeOK'
    BY HeapAssumption DEF IInv, TypeOK, Alloc, Goto, Place, block, memory, found
  <1>2. BlockInv' /\ BlankInv' /\ LinkInv' /\ BlocksApart'
    BY BlocksStay DEF Alloc, memory
  <1>3. HeldInv'
    BY DEF Alloc, block, IInv, HeldInv, Holds
  <1>4. CallInv'
    BY CallInvElsewhere DEF Alloc, Place
  <1> QED
    BY <1>1, <1>2, <1>3, <1>4 DEF IInv

LEMMA ScanIInv ==
  ASSUME SoleCaller, IInv, NEW c \in Callers, Scan(c)
  PROVE  IInv'
  <1> DEFINE D == Donors(Wanted(c))
             d == Least(D)
             u == Least(Unused)
             f == Least(Unused \ {u})
  <1>1. /\ d \in Slots \cup {None} /\ (d # None => d \in D)
        /\ u \in Slots \cup {None} /\ (u # None => u \in Unused)
        /\ f \in Slots \cup {None} /\ (f # None => f \in Unused \ {u})
    <2>1. D \in SUBSET Slots /\ Unused \in SUBSET Slots /\ Unused \ {u} \in SUBSET Slots
      BY DEF Donors, Unused
    <2> HIDE DEF D
    <2> QED
      BY <2>1, LeastOfSlots
  <1>2. /\ donor' = [donor EXCEPT ![c] = d] /\ unused' = [unused EXCEPT ![c] = u]
        /\ filler' = [filler EXCEPT ![c] = f] /\ pc' = [pc EXCEPT ![c] = "alloc"]
        /\ UNCHANGED <<block, memory, held, request, cursor>>
    BY DEF Scan, Goto
  <1>3. /\ d # None => used[d] /\ free[d] /\ size[d] >= Wanted(c)
        /\ u # None => ~used[u]
        /\ f # None => ~used[f] /\ f # u
    BY <1>1 DEF Donors, Unused
  <1> HIDE DEF d, u, f
  <1>4. TypeOK'
    BY <1>1, <1>2 DEF IInv, TypeOK, Place, block, memory
  <1>5. BlockInv' /\ BlankInv' /\ LinkInv' /\ BlocksApart'
    BY <1>2, BlocksStay DEF memory
  <1>6. HeldInv'
    BY <1>2 DEF block, IInv, HeldInv, Holds
  <1>7. CallInv'
    <2>1. pc'[c] = "alloc" /\ donor'[c] = d /\ unused'[c] = u /\ filler'[c] = f
      BY <1>2 DEF IInv, TypeOK
    <2>2. Wanted(c)' = Wanted(c)
      BY <1>2 DEF Wanted, memory
    <2>3. FoundInv(c)' /\ GivenBack(c)'
      BY <1>2, <1>3, <2>1, <2>2 DEF FoundInv, GivenBack, block
    <2> QED
      BY <2>3 DEF CallInv, SoleCaller
  <1> QED
    BY <1>4, <1>5, <1>6, <1>7 DEF IInv

LEMMA AllocExactIInv ==
  ASSUME SoleCaller, IInv, NEW c \in Callers, AllocExact(c)
  PROVE  IInv'
  <1> DEFINE d == donor[c]
  <1>1. d \in Slots /\ used[d] /\ free[d] /\ size[d] = request[c].size
        /\ size[d] \in Nat \ {0} /\ start[d] \in Nat
    BY DEF AllocExact, IsExact, IInv, TypeOK, CallInv, FoundInv
  <1>2. /\ free' = [free EXCEPT ![d] = FALSE] /\ used' = used
        /\ HandOut(c, start[d]) /\ Return(c) /\ Goto(c, "idle")
        /\ UNCHANGED <<start, size, next, memory>>
    BY <1>1 DEF AllocExact, HandOut, Return, IInv, TypeOK
  <1>3. TypeOK'
    BY <1>1, <1>2, ReturnTypes DEF IInv, TypeOK, HandOut, memory
  <1>4. BlockInv' /\ BlankInv' /\ LinkInv' /\ BlocksApart'
    BY <1>1, <1>2 DEF IInv, TypeOK, BlockInv, BlankInv, LinkInv, BlocksApart, memory
  <1>5. HeldInv'
    <2>1. \A h \in held : h.addr # start[d]
      BY <1>1, FreshAddress
    <2>2. \A h \in held, t \in Slots : Holds(t, h) => Holds(t, h)'
      BY <1>1, <1>2 DEF Holds, IInv, TypeOK
    <2>3. used'[d] /\ ~free'[d] /\ start'[d] = start[d] /\ size'[d] >= request[c].size
      BY <1>1, <1>2 DEF IInv, TypeOK
    <2> QED
      BY <1>1, <1>2, <2>1, <2>2, <2>3, HandingOut
  <1>6. CallInv'
    BY <1>2, CallInvElsewhere DEF Place
  <1> QED
    BY <1>3, <1>4, <1>5, <1>6 DEF IInv

(* What a search that found two blocks found.                               *)
LEMMA FoundBlocks ==
  ASSUME IInv, NEW c \in Callers, pc[c] = "alloc", IsBoth(c)
  PROVE  /\ donor[c] \in Slots /\ used[donor[c]] /\ free[donor[c]]
         /\ unused[c] \in Slots /\ ~used[unused[c]] /\ unused[c] # donor[c]
         /\ size[donor[c]] \in Nat /\ start[donor[c]] \in Nat /\ size[donor[c]] >= Wanted(c)
         /\ request[c].size \in Nat \ {0} /\ request[c].align \in Nat \ {0}
         /\ filler[c] # None => /\ filler[c] \in Slots /\ ~used[filler[c]]
                                /\ filler[c] # unused[c] /\ filler[c] # donor[c]
  <1>1. /\ donor[c] \in Slots /\ unused[c] \in Slots /\ filler[c] \in Slots \union {None}
        /\ request[c] \in [size : Nat \ {0}, align : Nat \ {0}, addr : Nat]
        /\ size[donor[c]] \in Nat /\ start[donor[c]] \in Nat
    BY DEF IInv, TypeOK, IsBoth
  <1>2. FoundInv(c) /\ donor[c] # None /\ unused[c] # None
    BY DEF IInv, CallInv, IsBoth
  <1> QED
    BY <1>1, <1>2 DEF FoundInv

LEMMA AllocSplitIInv ==
  ASSUME SoleCaller, IInv, NEW c \in Callers, AllocSplit(c)
  PROVE  IInv'
  <1> DEFINE d == donor[c]
             u == unused[c]
             rest == size[d] - request[c].size
             a == start[d] + rest
  <1>1. /\ d \in Slots /\ used[d] /\ free[d] /\ u \in Slots /\ ~used[u] /\ u # d
        /\ size[d] \in Nat /\ start[d] \in Nat /\ rest \in Nat /\ a \in Nat
        /\ request[c].size \in Nat \ {0}
    BY FoundBlocks DEF AllocSplit, Wanted
  <1>2. /\ start' = [start EXCEPT ![u] = a]
        /\ size' = [size EXCEPT ![d] = rest, ![u] = request[c].size]
        /\ next' = [next EXCEPT ![u] = next[d], ![d] = u]
        /\ free' = [free EXCEPT ![u] = FALSE]
        /\ used' = [used EXCEPT ![u] = TRUE]
        /\ HandOut(c, a) /\ Return(c) /\ Goto(c, "idle") /\ UNCHANGED memory
    BY DEF AllocSplit, HandOut, Return
  <1>3. size[d] = rest + request[c].size
    BY <1>1
  <1>4. TypeOK'
    <2>1. held' \subseteq [addr : Nat, size : Nat \ {0}]
      BY <1>1, <1>2 DEF IInv, TypeOK, HandOut
    <2> HIDE DEF d, u, rest, a
    <2> QED
      BY <1>1, <1>2, <2>1, ReturnTypes DEF IInv, TypeOK, memory
  <1>5. BlockInv' /\ BlankInv' /\ LinkInv' /\ BlocksApart'
    <2> HIDE DEF d, u, rest
    <2> QED
      BY <1>1, <1>2, <1>3, CutInTwo DEF memory
  <1>6. HeldInv'
    <2>1. \A h \in held : h.addr # a
      <3>1. start[d] <= a /\ a < start[d] + size[d]
        BY <1>1, <1>3
      <3> HIDE DEF d, a
      <3> QED
        BY <1>1, <3>1, FreshAddress
    <2>2. \A h \in held, t \in Slots : Holds(t, h) => Holds(t, h)'
      BY <1>1, <1>2 DEF Holds, IInv, TypeOK
    <2>3. used'[u] /\ ~free'[u] /\ start'[u] = a /\ size'[u] >= request[c].size
      BY <1>1, <1>2 DEF IInv, TypeOK
    <2> HIDE DEF d, u, a
    <2> QED
      BY <1>1, <1>2, <2>1, <2>2, <2>3, HandingOut
  <1>7. CallInv'
    BY <1>2, CallInvElsewhere DEF Place
  <1> QED
    BY <1>4, <1>5, <1>6, <1>7 DEF IInv

LEMMA ExpandIInv ==
  ASSUME SoleCaller, IInv, NEW c \in Callers, Expand(c)
  PROVE  IInv'
  <1> DEFINE l == Least(Last)
             u == Least(Unused)
             need == (request[c].size + LargePage - 1) \div LargePage
             got == IF need <= pagesLeft THEN need ELSE pagesLeft
             more == got * LargePage
  <1>1. l \in Slots /\ used[l] /\ next[l] = None /\ u \in Slots /\ ~used[u] /\ u # l
    <2>1. Last \in SUBSET Slots /\ Unused \in SUBSET Slots
      BY DEF Last, Unused
    <2>2. l \in Last /\ u \in Unused
      BY <2>1, LeastOfSlots DEF Expand
    <2> QED
      BY <2>2 DEF Last, Unused
  <1>2. got \in Nat /\ more \in Nat /\ pagesLeft - got \in Nat
    <2>1. request[c].size + LargePage - 1 \in Nat
      BY HeapAssumption DEF IInv, TypeOK
    <2>2. need \in Nat
      BY <2>1, Quotient, HeapAssumption
    <2>3. got \in Nat /\ pagesLeft - got \in Nat
      BY <2>2 DEF IInv, TypeOK
    <2> QED
      BY <2>3, HeapAssumption
  <1>3. /\ start' = [start EXCEPT ![u] = heapSize]
        /\ size' = [size EXCEPT ![u] = more]
        /\ next' = [next EXCEPT ![l] = u]
        /\ free' = [free EXCEPT ![u] = TRUE]
        /\ used' = [used EXCEPT ![u] = TRUE]
        /\ heapSize' = heapSize + more
        /\ pagesLeft' = pagesLeft - got
        /\ pc' = [pc EXCEPT ![c] = "scan"] /\ Goto(c, "scan")
        /\ UNCHANGED <<kind, held, request, found, cursor>>
    BY DEF Expand, Goto
  <1> HIDE DEF l, u, got, more
  <1>4. TypeOK'
    BY <1>1, <1>2, <1>3 DEF IInv, TypeOK, Place, found
  <1>5. /\ start'[u] = heapSize /\ size'[u] = more /\ used'[u] /\ free'[u]
        /\ next'[l] = u /\ next'[u] = next[u]
        /\ heapSize \in Nat
        /\ \A s \in Slots : start[s] \in Nat /\ size[s] \in Nat
        /\ \A s \in Slots \ {u} : /\ start'[s] = start[s] /\ size'[s] = size[s]
                                  /\ used'[s] = used[s] /\ free'[s] = free[s]
        /\ \A s \in Slots \ {l} : next'[s] = next[s]
    BY <1>1, <1>3 DEF IInv, TypeOK
  <1>6. BlockInv' /\ BlankInv'
    BY <1>1, <1>2, <1>3, <1>5 DEF IInv, BlockInv, BlankInv
  <1>7. LinkInv'
    <2>1. next[u] = None
      BY <1>1 DEF IInv, BlankInv
    <2>2. \A s \in Slots : used[s] => next[s] # u
      BY <1>1 DEF IInv, LinkInv, Slots, None
    <2>3. u # None /\ l # None /\ \A s \in Slots : used[s] /\ next[s] = None => s = l
      BY <1>1 DEF IInv, LinkInv, Slots, None
    <2>4. \A s \in Slots : used'[s] /\ next'[s] = None => start'[s] + size'[s] = heapSize'
      BY <1>1, <1>2, <1>3, <1>5, <2>3
    <2>5. ASSUME NEW s \in Slots, used'[s], next'[s] # None
          PROVE  used'[next'[s]] /\ start'[next'[s]] = start'[s] + size'[s]
      <3>1. CASE s = l
        BY <1>1, <1>5, <3>1 DEF IInv, LinkInv
      <3>2. CASE s # l
        BY <1>1, <1>5, <2>1, <2>2, <2>5, <3>2 DEF IInv, LinkInv, TypeOK
      <3> QED
        BY <3>1, <3>2
    <2>6. \A s, t \in Slots : used'[s] /\ used'[t] /\ next'[s] = next'[t] => s = t
      BY <1>1, <1>5, <2>1, <2>2, <2>3 DEF IInv, LinkInv
    <2>7. used'[First] /\ \A s \in Slots : used'[s] => next'[s] # First
      <3>1. used[First] /\ u # First /\ \A s \in Slots : used[s] => next[s] # First
        BY <1>1 DEF IInv, LinkInv
      <3> QED
        BY <1>1, <1>5, <2>1, <3>1, FirstSlot
    <2> QED
      BY <2>4, <2>5, <2>6, <2>7 DEF LinkInv
  <1>8. BlocksApart'
    <2> SUFFICES ASSUME NEW s \in Slots, NEW t \in Slots,
                        used'[s], used'[t], s # t, size'[s] # 0, size'[t] # 0
                 PROVE  Apart(start'[s], size'[s], start'[t], size'[t])
      BY DEF BlocksApart
    <2>1. CASE s # u /\ t # u
      BY <1>5, <2>1 DEF IInv, BlocksApart
    <2>2. CASE s = u \/ t = u
      BY <1>5, <2>2 DEF IInv, BlockInv, Apart
    <2> QED
      BY <2>1, <2>2
  <1>9. HeldInv'
    <2>1. \A h \in held, t \in Slots : Holds(t, h) => Holds(t, h)'
      BY <1>1, <1>3, <1>5 DEF Holds
    <2> QED
      BY <1>3, <2>1 DEF IInv, HeldInv
  <1>10. CallInv'
    BY <1>3, CallInvElsewhere DEF Place
  <1> QED
    BY <1>4, <1>6, <1>7, <1>8, <1>9, <1>10 DEF IInv

(* nullptr: the call returns and nothing has changed.                       *)
LEMMA FailsIInv ==
  ASSUME SoleCaller, IInv, NEW c \in Callers, AllocFails(c) \/ DmaFails(c)
  PROVE  IInv'
  <1>1. Return(c) /\ Goto(c, "idle") /\ UNCHANGED <<block, memory, held>>
    BY DEF AllocFails, DmaFails, Return
  <1>2. TypeOK'
    BY <1>1, ReturnTypes DEF IInv, TypeOK, block, memory
  <1>3. BlockInv' /\ BlankInv' /\ LinkInv' /\ BlocksApart'
    BY <1>1, BlocksStay DEF memory
  <1>4. HeldInv'
    BY <1>1 DEF block, IInv, HeldInv, Holds
  <1>5. CallInv'
    BY <1>1, CallInvElsewhere DEF Place
  <1> QED
    BY <1>2, <1>3, <1>4, <1>5 DEF IInv

LEMMA DmaSplitIInv ==
  ASSUME SoleCaller, IInv, NEW c \in Callers, DmaSplit(c)
  PROVE  IInv'
  <1> DEFINE d == donor[c]
             u == unused[c]
             f == filler[c]
             wanted == request[c].size
             align == request[c].align
             taken == wanted + align
             rest == size[d] - taken
             cut == start[d] + rest
             misalignment == cut % align
             correction == IF misalignment = 0 THEN 0 ELSE align - misalignment
  <1>1. /\ d \in Slots /\ used[d] /\ free[d] /\ u \in Slots /\ ~used[u] /\ u # d
        /\ f \in Slots /\ ~used[f] /\ f # u /\ f # d
        /\ wanted \in Nat \ {0} /\ align \in Nat \ {0}
        /\ size[d] \in Nat /\ start[d] \in Nat /\ rest \in Nat /\ cut \in Nat
    <2>1. pc[c] = "alloc" /\ kind = "dma" /\ IsBoth(c) /\ f # None
      BY DEF DmaSplit
    <2>2. size[d] >= wanted + align
      BY <2>1, FoundBlocks DEF Wanted
    <2> QED
      BY <2>1, <2>2, FoundBlocks
  <1>2. correction \in Nat /\ correction < align
    <2>1. misalignment \in Nat /\ misalignment < align
      <3> HIDE DEF cut, align
      <3> QED
        BY <1>1, Remainder
    <2> HIDE DEF misalignment, align
    <2> QED
      BY <1>1, <2>1
  <1>3. HandOut(c, cut + correction) /\ Return(c) /\ Goto(c, "idle") /\ UNCHANGED memory
    BY DEF DmaSplit, HandOut, Return
  <1>4. CASE correction = 0
    <2>1. /\ start' = [start EXCEPT ![u] = cut]
          /\ size' = [size EXCEPT ![d] = rest, ![u] = taken]
          /\ next' = [next EXCEPT ![u] = next[d], ![d] = u]
          /\ free' = [free EXCEPT ![u] = FALSE]
          /\ used' = [used EXCEPT ![u] = TRUE]
      BY <1>4 DEF DmaSplit
    <2>2. HandOut(c, cut) /\ taken \in Nat /\ size[d] = rest + taken
      BY <1>1, <1>3, <1>4
    <2> HIDE DEF correction, d, u, f
    <2>3. TypeOK'
      <3>1. held' \subseteq [addr : Nat, size : Nat \ {0}]
        BY <1>1, <2>2 DEF IInv, TypeOK, HandOut
      <3> HIDE DEF cut, rest, taken
      <3> QED
        BY <1>1, <1>3, <2>1, <2>2, <3>1, ReturnTypes DEF IInv, TypeOK, memory
    <2>4. BlockInv' /\ BlankInv' /\ LinkInv' /\ BlocksApart'
      <3> HIDE DEF rest, taken
      <3> QED
        BY <1>1, <1>3, <2>1, <2>2, CutInTwo DEF memory
    <2>5. HeldInv'
      <3>1. \A h \in held : h.addr # cut
        <4>1. start[d] <= cut /\ cut < start[d] + size[d] /\ cut \in Nat
          BY <1>1, <2>2
        <4> HIDE DEF cut
        <4> QED
          BY <1>1, <4>1, FreshAddress
      <3>2. \A h \in held, t \in Slots : Holds(t, h) => Holds(t, h)'
        BY <1>1, <2>1 DEF Holds, IInv, TypeOK
      <3>3. used'[u] /\ ~free'[u] /\ start'[u] = cut /\ size'[u] >= request[c].size
        BY <1>1, <2>1 DEF IInv, TypeOK
      <3> HIDE DEF cut
      <3> QED
        BY <1>1, <2>2, <3>1, <3>2, <3>3, HandingOut
    <2>6. CallInv'
      BY <1>3, CallInvElsewhere DEF Place
    <2> QED
      BY <2>3, <2>4, <2>5, <2>6 DEF IInv
  <1>5. CASE correction # 0
    <2> DEFINE a == cut + correction
               left == taken - correction
    <2>1. /\ start' = [start EXCEPT ![f] = cut, ![u] = a]
          /\ size' = [size EXCEPT ![d] = rest, ![f] = correction, ![u] = left]
          /\ next' = [next EXCEPT ![d] = f, ![f] = u, ![u] = next[d]]
          /\ free' = [free EXCEPT ![f] = TRUE, ![u] = FALSE]
          /\ used' = [used EXCEPT ![f] = TRUE, ![u] = TRUE]
      BY <1>5 DEF DmaSplit
    <2>2. HandOut(c, a)
      BY <1>3
    <2>3. left \in Nat /\ left >= wanted /\ a \in Nat /\ size[d] = rest + correction + left
      <3> HIDE DEF correction
      <3> QED
        BY <1>1, <1>2
    <2>4. cut = start[d] + rest
      OBVIOUS
    <2> HIDE DEF correction, d, u, f, left, rest
    <2>5. TypeOK'
      <3>1. held' \subseteq [addr : Nat, size : Nat \ {0}]
        BY <1>1, <2>2, <2>3 DEF IInv, TypeOK, HandOut
      <3> HIDE DEF cut, a, wanted
      <3> QED
        BY <1>1, <1>2, <1>3, <2>1, <2>3, <3>1, ReturnTypes DEF IInv, TypeOK, memory
    <2>6. BlockInv' /\ BlankInv' /\ LinkInv' /\ BlocksApart'
      BY <1>1, <1>2, <1>3, <2>1, <2>3, CutInThree DEF memory
    <2>7. HeldInv'
      <3>1. start[d] <= a /\ a < start[d] + size[d]
        BY <1>1, <1>2, <2>3
      <3>2. \A h \in held : h.addr # a
        BY <1>1, <2>3, <3>1, FreshAddress
      <3>3. \A h \in held, t \in Slots : Holds(t, h) => Holds(t, h)'
        BY <1>1, <2>1 DEF Holds, IInv, TypeOK
      <3>4. used'[u] /\ ~free'[u] /\ start'[u] = a /\ size'[u] >= request[c].size
        BY <1>1, <2>1, <2>3 DEF IInv, TypeOK
      <3> HIDE DEF a
      <3> QED
        BY <1>1, <2>2, <2>3, <3>2, <3>3, <3>4, HandingOut
    <2>8. CallInv'
      BY <1>3, CallInvElsewhere DEF Place
    <2> QED
      BY <2>5, <2>6, <2>7, <2>8 DEF IInv
  <1> QED
    BY <1>4, <1>5

LEMMA FreeIInv ==
  ASSUME SoleCaller, IInv, NEW c \in Callers, NEW h \in held, Free(c, h)
  PROVE  IInv'
  <1>1. /\ held' = held \ {h} /\ request' = [request EXCEPT ![c].addr = h.addr]
        /\ cursor' = [cursor EXCEPT ![c] = First] /\ pc' = [pc EXCEPT ![c] = "find"]
        /\ UNCHANGED <<block, memory, found>>
    BY DEF Free, Goto
  <1>2. h.addr \in Nat /\ First \in Slots
    BY HeapAssumption DEF IInv, TypeOK, First, Slots
  <1>3. TypeOK'
    BY <1>1, <1>2 DEF IInv, TypeOK, Place, block, memory, found
  <1>4. BlockInv' /\ BlankInv' /\ LinkInv' /\ BlocksApart'
    BY <1>1, BlocksStay DEF memory
  <1>5. HeldInv'
    BY <1>1 DEF block, IInv, HeldInv, Holds
  <1>6. CallInv'
    <2>1. pc'[c] = "find" /\ request'[c].addr = h.addr
      BY <1>1 DEF IInv, TypeOK
    <2>2. used'[cursor'[c]]
      BY <1>1 DEF block, IInv, TypeOK, LinkInv
    <2>3. FoundInv(c)' /\ GivenBack(c)'
      BY <1>1, <2>1, <2>2 DEF FoundInv, GivenBack, IInv, HeldInv
    <2> QED
      BY <2>3 DEF CallInv, SoleCaller
  <1> QED
    BY <1>3, <1>4, <1>5, <1>6 DEF IInv

LEMMA FindIInv ==
  ASSUME SoleCaller, IInv, NEW c \in Callers, FindHits(c) \/ FindMoves(c)
  PROVE  IInv'
  <1>1. First \in Slots
    BY HeapAssumption DEF First, Slots
  <1>2. CASE FindHits(c)
    <2> DEFINE b == cursor[c]
    <2>1. /\ start[b] = request[c].addr /\ free' = [free EXCEPT ![b] = TRUE]
          /\ cursor' = [cursor EXCEPT ![c] = First]
          /\ pc' = [pc EXCEPT ![c] = "merge"] /\ Goto(c, "merge") /\ pc[c] = "find"
          /\ UNCHANGED <<start, size, next, used, memory, held, request, found>>
      BY <1>2 DEF FindHits, Goto
    <2>2. b \in Slots
      BY DEF IInv, TypeOK
    <2>3. TypeOK'
      BY <1>1, <2>1, <2>2 DEF IInv, TypeOK, Place, memory, found
    <2>4. used[b]
      BY <2>1 DEF IInv, CallInv, GivenBack
    <2>5. BlockInv' /\ BlankInv' /\ LinkInv' /\ BlocksApart'
      BY <2>1, <2>2, <2>4 DEF IInv, TypeOK, BlockInv, BlankInv, LinkInv, BlocksApart, memory
    <2>6. HeldInv'
      <3>1. \A h \in held : h.addr # request[c].addr
        BY <2>1 DEF IInv, CallInv, GivenBack
      <3>2. \A h \in held, t \in Slots : Holds(t, h) => Holds(t, h)'
        BY <2>1, <2>2, <3>1 DEF Holds, IInv, TypeOK
      <3> QED
        BY <2>1, <3>2 DEF IInv, HeldInv
    <2>7. CallInv'
      BY <2>1, CallInvElsewhere DEF Place
    <2> QED
      BY <2>3, <2>5, <2>6, <2>7 DEF IInv
  <1>3. CASE FindMoves(c)
    <2>1. UNCHANGED <<block, memory, held, request, found>>
      BY <1>3 DEF FindMoves
    <2>2. TypeOK'
      BY <1>1, <1>3, <2>1 DEF FindMoves, Goto, IInv, TypeOK, Place, block, memory, found
    <2>3. BlockInv' /\ BlankInv' /\ LinkInv' /\ BlocksApart'
      BY <2>1, BlocksStay DEF memory
    <2>4. HeldInv'
      BY <2>1 DEF block, IInv, HeldInv, Holds
    <2>5. CallInv'
      <3>1. CASE Goto(c, "merge")
        BY <3>1, CallInvElsewhere DEF Place
      <3>2. CASE next[cursor[c]] # None /\ cursor' = [cursor EXCEPT ![c] = next[cursor[c]]]
                 /\ UNCHANGED pc
        <4>1. used'[cursor'[c]]
          BY <1>3, <2>1, <3>2 DEF IInv, TypeOK, CallInv, GivenBack, LinkInv, FindMoves, block
        <4>2. FoundInv(c)' /\ GivenBack(c)'
          BY <2>1, <3>2, <4>1 DEF IInv, CallInv, FoundInv, GivenBack, Wanted, block, memory, found
        <4> QED
          BY <4>2 DEF CallInv, SoleCaller
      <3> QED
        BY <1>3, <3>1, <3>2 DEF FindMoves
    <2> QED
      BY <2>2, <2>3, <2>4, <2>5 DEF IInv
  <1> QED
    BY <1>2, <1>3

LEMMA MergeMovesOn ==
  ASSUME SoleCaller, IInv, NEW c \in Callers, pc[c] = "merge",
         NEW following \in Slots \cup {None}, MergeMoves(c, following)
  PROVE  /\ pc' \in [Callers -> Place]
         /\ request' \in [Callers -> [size : Nat \ {0}, align : Nat \ {0}, addr : Nat]]
         /\ cursor' \in [Callers -> Slots]
         /\ CallInv'
  <1>1. CASE following = None
    <2>1. /\ Goto(c, "idle") /\ cursor' = [cursor EXCEPT ![c] = First]
          /\ request' = [request EXCEPT ![c] = Nothing]
      BY <1>1 DEF MergeMoves
    <2>2. CallInv'
      BY <2>1, CallInvElsewhere DEF Place
    <2> QED
      BY <2>1, <2>2, FirstSlot DEF IInv, TypeOK, Goto, Place, Nothing
  <1>2. CASE following # None
    <2>1. cursor' = [cursor EXCEPT ![c] = following] /\ UNCHANGED <<pc, request>>
      BY <1>2 DEF MergeMoves
    <2>2. \A d \in Callers : pc'[d] = "merge"
      BY <2>1 DEF SoleCaller
    <2>3. CallInv'
      BY <2>2 DEF CallInv, FoundInv, GivenBack
    <2> QED
      BY <1>2, <2>1, <2>3 DEF IInv, TypeOK
  <1> QED
    BY <1>1, <1>2

LEMMA PassesOverIInv ==
  ASSUME SoleCaller, IInv, NEW c \in Callers, PassesOver(c)
  PROVE  IInv'
  <1>1. /\ UNCHANGED <<block, memory, held, found>>
        /\ pc[c] = "merge" /\ MergeMoves(c, next[cursor[c]])
        /\ next[cursor[c]] \in Slots \cup {None}
    BY DEF PassesOver, IInv, TypeOK
  <1>2. TypeOK' /\ CallInv'
    BY <1>1, MergeMovesOn DEF IInv, TypeOK, block, memory, found
  <1>3. BlockInv' /\ BlankInv' /\ LinkInv' /\ BlocksApart'
    BY <1>1, BlocksStay DEF memory
  <1>4. HeldInv'
    BY <1>1 DEF block, IInv, HeldInv, Holds
  <1> QED
    BY <1>2, <1>3, <1>4 DEF IInv

(* A block swallows the one behind it.  Both are free, so nothing that is   *)
(* held lies in them; a block that lay apart from both and is not empty     *)
(* lies apart from what they become.                                        *)
LEMMA MergesIInv ==
  ASSUME SoleCaller, IInv, NEW c \in Callers, Merges(c)
  PROVE  IInv'
  <1> DEFINE b == cursor[c]
             n == next[b]
  <1>1. /\ b \in Slots /\ n \in Slots /\ n # None /\ free[b] /\ free[n]
        /\ used[b] /\ used[n] /\ next[n] \in Slots \cup {None}
    BY DEF Merges, BothFree, IInv, TypeOK, BlockInv
  <1>2. /\ start' = [start EXCEPT ![n] = 0]
        /\ size' = [size EXCEPT ![b] = size[b] + size[n], ![n] = 0]
        /\ next' = [next EXCEPT ![b] = next[n], ![n] = None]
        /\ free' = [free EXCEPT ![n] = FALSE]
        /\ used' = [used EXCEPT ![n] = FALSE]
        /\ pc[c] = "merge" /\ MergeMoves(c, next[n])
        /\ UNCHANGED <<memory, held, found>>
    <2>1. size' = [size EXCEPT ![b] = @ + size[n], ![n] = 0]
      BY DEF Merges
    <2> QED
      BY <1>1, <2>1 DEF Merges
  <1>3. start[n] = start[b] + size[b] /\ n # First
    BY <1>1 DEF IInv, LinkInv
  <1>4. \A s \in Slots : start[s] \in Nat /\ size[s] \in Nat
    BY DEF IInv, TypeOK
  <1> HIDE DEF b, n
  <1>5. /\ \A s \in Slots \ {n} : start'[s] = start[s] /\ used'[s] = used[s] /\ free'[s] = free[s]
        /\ \A s \in Slots \ {b, n} : size'[s] = size[s] /\ next'[s] = next[s]
        /\ ~used'[n] /\ ~free'[n] /\ next'[n] = None
        /\ b # n => size'[b] = size[b] + size[n] /\ next'[b] = next[n]
    BY <1>1, <1>2 DEF IInv, TypeOK
  <1>6. TypeOK' /\ CallInv'
    <2>1. /\ start' \in [Slots -> Nat] /\ size' \in [Slots -> Nat]
          /\ next' \in [Slots -> Slots \cup {None}]
          /\ free' \in [Slots -> BOOLEAN] /\ used' \in [Slots -> BOOLEAN]
      BY <1>1, <1>2, <1>4 DEF IInv, TypeOK
    <2> QED
      BY <1>1, <1>2, <2>1, MergeMovesOn DEF IInv, TypeOK, memory, found
  <1>7. BlockInv' /\ BlankInv'
    <2>1. heapSize' = heapSize
      BY <1>2 DEF memory
    <2>2. start[n] + size[n] <= heapSize /\ heapSize \in Nat
      BY <1>1 DEF IInv, BlockInv, TypeOK
    <2>3. \A s \in Slots : free'[s] => used'[s]
      BY <1>5 DEF IInv, BlockInv
    <2>4. \A s \in Slots : used'[s] => start'[s] + size'[s] <= heapSize'
      BY <1>1, <1>3, <1>4, <1>5, <2>1, <2>2 DEF IInv, BlockInv
    <2>5. \A s \in Slots : ~used'[s] => next'[s] = None
      BY <1>1, <1>5 DEF IInv, BlankInv
    <2> QED
      BY <2>3, <2>4, <2>5 DEF BlockInv, BlankInv
  <1>8. LinkInv'
    <2>1. \A s \in Slots : used[s] /\ s # b => next[s] # n
      BY <1>1 DEF IInv, LinkInv, b, n
    <2>2. heapSize' = heapSize /\ (b # n => next[n] # n)
      BY <1>1, <1>2, <2>1 DEF memory
    <2>3. used'[First] /\ \A s \in Slots : used'[s] => next'[s] # First
      BY <1>1, <1>3, <1>5, FirstSlot DEF IInv, LinkInv
    <2>4. ASSUME NEW s \in Slots, used'[s], next'[s] = None
          PROVE  start'[s] + size'[s] = heapSize'
      <3>1. CASE s = b
        BY <1>1, <1>3, <1>4, <1>5, <2>2, <2>4, <3>1 DEF IInv, LinkInv
      <3>2. CASE s # b
        BY <1>5, <2>2, <2>4, <3>2 DEF IInv, LinkInv
      <3> QED
        BY <3>1, <3>2
    <2>5. ASSUME NEW s \in Slots, used'[s], next'[s] # None
          PROVE  used'[next'[s]] /\ start'[next'[s]] = start'[s] + size'[s]
      <3>1. CASE s = b
        BY <1>1, <1>3, <1>4, <1>5, <2>2, <2>5, <3>1 DEF IInv, LinkInv
      <3>2. CASE s # b
        <4>1. next'[s] = next[s] /\ used[s] /\ next[s] # n /\ next[s] \in Slots
          BY <1>5, <2>1, <2>5, <3>2 DEF IInv, TypeOK
        <4> QED
          BY <1>5, <2>5, <3>2, <4>1 DEF IInv, LinkInv
      <3> QED
        BY <3>1, <3>2
    <2>6. \A s, t \in Slots : used'[s] /\ used'[t] /\ next'[s] = next'[t] => s = t
      <3>1. \A s, t \in Slots : used[s] /\ used[t] /\ next[s] = next[t] => s = t
        BY DEF IInv, LinkInv
      <3> QED
        BY <1>1, <1>5, <3>1
    <2> QED
      BY <2>3, <2>4, <2>5, <2>6 DEF LinkInv
  <1>9. BlocksApart'
    <2> SUFFICES ASSUME NEW s \in Slots, NEW t \in Slots,
                        used'[s], used'[t], s # t, size'[s] # 0, size'[t] # 0
                 PROVE  Apart(start'[s], size'[s], start'[t], size'[t])
      BY DEF BlocksApart
    <2>1. s # n /\ t # n
      BY <1>5
    <2>2. ASSUME NEW r \in Slots \ {b, n}, used[r], size[r] # 0, b # n,
                 size[b] + size[n] # 0
          PROVE  Apart(start[b], size[b] + size[n], start[r], size[r])
      <3>1. size[b] # 0 => Apart(start[b], size[b], start[r], size[r])
        BY <1>1, <2>2 DEF IInv, BlocksApart
      <3>2. size[n] # 0 => Apart(start[n], size[n], start[r], size[r])
        BY <1>1, <2>2 DEF IInv, BlocksApart
      <3>3. /\ start[b] \in Nat /\ size[b] \in Nat /\ start[n] \in Nat /\ size[n] \in Nat
            /\ start[r] \in Nat /\ size[r] \in Nat
        BY <1>1, <1>4
      <3>4. size[b] # 0 \/ size[n] # 0 =>
              Apart(start[b], size[b] + size[n], start[r], size[r])
        BY ONLY <1>3, <2>2, <3>1, <3>2, <3>3 DEF Apart
      <3> QED
        BY <2>2, <3>3, <3>4
    <2>3. CASE s = b
      BY <1>1, <1>5, <2>1, <2>2, <2>3
    <2>4. CASE t = b
      <3>1. Apart(start'[t], size'[t], start'[s], size'[s])
        BY <1>1, <1>5, <2>1, <2>2, <2>4
      <3> QED
        BY <3>1 DEF Apart
    <2>5. CASE s # b /\ t # b
      BY <1>5, <2>1, <2>5 DEF IInv, BlocksApart
    <2> QED
      BY <2>3, <2>4, <2>5
  <1>10. HeldInv'
    <2>1. ASSUME NEW h \in held, NEW t \in Slots, Holds(t, h) PROVE Holds(t, h)'
      <3>1. t # b /\ t # n
        BY <1>1, <2>1 DEF Holds
      <3> QED
        BY <1>5, <2>1, <3>1 DEF Holds
    <2> QED
      BY <1>2, <2>1 DEF IInv, HeldInv
  <1> QED
    BY <1>6, <1>7, <1>8, <1>9, <1>10 DEF IInv

-----------------------------------------------------------------------------
LEMMA NextIInv == SoleCaller /\ IInv /\ [Next]_vars => IInv'
  <1> SUFFICES ASSUME SoleCaller, IInv, [Next]_vars PROVE IInv'
    OBVIOUS
  <1>1. ASSUME NEW c \in Callers, Inside(c) PROVE IInv'
    BY <1>1, ScanIInv, AllocExactIInv, AllocSplitIInv, ExpandIInv, FailsIInv, DmaSplitIInv,
       FindIInv, MergesIInv, PassesOverIInv DEF Inside
  <1>2. CASE UNCHANGED vars
    BY <1>2 DEF vars, block, memory, found, IInv, TypeOK, BlockInv, BlankInv, LinkInv,
                BlocksApart, HeldInv, Holds, CallInv, FoundInv, GivenBack, Wanted
  <1> QED
    BY <1>1, <1>2, AllocIInv, FreeIInv DEF Next

LEMMA IInvKeepsApart == IInv => AllocationsApart
  <1> SUFFICES ASSUME IInv PROVE AllocationsApart
    OBVIOUS
  <1>1. ASSUME NEW h \in held PROVE h.addr + h.size <= heapSize
    <2>1. PICK s \in Slots : Holds(s, h)
      BY DEF IInv, HeldInv
    <2>2. /\ start[s] \in Nat /\ size[s] \in Nat /\ h.addr \in Nat /\ h.size \in Nat
          /\ heapSize \in Nat
      BY DEF IInv, TypeOK
    <2> QED
      BY <2>1, <2>2 DEF Holds, IInv, BlockInv
  <1>2. ASSUME NEW h \in held, NEW k \in held, h # k
        PROVE  Apart(h.addr, h.size, k.addr, k.size)
    <2>1. PICK s \in Slots : Holds(s, h)
      BY DEF IInv, HeldInv
    <2>2. PICK t \in Slots : Holds(t, k)
      BY DEF IInv, HeldInv
    <2>3. s # t
      BY <1>2, <2>1, <2>2 DEF Holds, IInv, HeldInv
    <2>4. /\ start[s] \in Nat /\ size[s] \in Nat /\ start[t] \in Nat /\ size[t] \in Nat
          /\ h.addr \in Nat /\ h.size \in Nat \ {0} /\ k.addr \in Nat /\ k.size \in Nat \ {0}
      BY DEF IInv, TypeOK
    <2>5. Apart(start[s], size[s], start[t], size[t])
      BY <2>1, <2>2, <2>3, <2>4 DEF Holds, IInv, BlocksApart
    <2> QED
      BY ONLY <2>1, <2>2, <2>4, <2>5 DEF Holds, Apart
  <1> QED
    BY <1>1, <1>2 DEF AllocationsApart

(* Whatever is allocated and freed, the block structs stay well formed, if  *)
(* no two calls overlap.                                                    *)
THEOREM TypeCorrect == SoleCaller => (Spec => []TypeOK)
  <1> SUFFICES ASSUME SoleCaller PROVE Spec => []TypeOK
    OBVIOUS
  <1>1. Init => IInv
    BY InitIInv
  <1>2. IInv /\ [Next]_vars => IInv'
    BY NextIInv
  <1>3. IInv => TypeOK
    BY DEF IInv
  <1> QED
    BY <1>1, <1>2, <1>3, PTL DEF Spec

(* Two allocations never overlap and none leaves the heap, whatever was     *)
(* split, merged and expanded before, if no two calls overlap.              *)
THEOREM AllocationsStayApart == SoleCaller => (Spec => []AllocationsApart)
  <1> SUFFICES ASSUME SoleCaller PROVE Spec => []AllocationsApart
    OBVIOUS
  <1>1. Init => IInv
    BY InitIInv
  <1>2. IInv /\ [Next]_vars => IInv'
    BY NextIInv
  <1>3. IInv => AllocationsApart
    BY IInvKeepsApart
  <1> QED
    BY <1>1, <1>2, <1>3, PTL DEF Spec

-----------------------------------------------------------------------------
(* What the kernel's heap keeps                                             *)

(* A block is empty only at the end of a heap that can grow no more.        *)
EmptyInv ==
  \A s \in Slots : used[s] /\ size[s] = 0 => free[s] /\ pagesLeft = 0 /\ start[s] = heapSize

(* A block that is not free is held, or is being given back.                *)
Returning(s) == \E c \in Callers : pc[c] = "find" /\ request[c].addr = start[s]
HeldAt(s) == \E h \in held : h.addr = start[s]

KeptInv == \A s \in Slots : used[s] /\ ~free[s] => HeldAt(s) \/ Returning(s)

(* The walk of heap_free has not passed what it looks for.                  *)
WalkInv ==
  /\ start[First] = 0
  /\ \A c \in Callers : pc[c] = "find" =>
       /\ start[cursor[c]] <= request[c].addr
       /\ \E s \in Slots : used[s] /\ ~free[s] /\ start[s] = request[c].addr

KernelInv == kind = "kernel" => EmptyInv /\ KeptInv /\ WalkInv

LEMMA Product ==
  ASSUME NEW m \in Nat \ {0}, NEW n \in Nat \ {0}
  PROVE  m * n # 0
  OBVIOUS

LEMMA AtLeastOne ==
  ASSUME NEW m \in Nat \ {0}, NEW n \in Nat \ {0}
  PROVE  (m + n - 1) \div n # 0
  <1> DEFINE a == m + n - 1
  <1>1. a \in Nat /\ a >= n
    OBVIOUS
  <1> HIDE DEF a
  <1>2. a \div n # 0
    BY <1>1
  <1> QED
    BY <1>2 DEF a

LEMMA InitKernel == StartSize # 0 /\ Init => KernelInv
  <1> SUFFICES ASSUME StartSize # 0, Init PROVE EmptyInv /\ KeptInv /\ WalkInv
    BY DEF KernelInv
  <1> QED
    BY FirstSlot DEF Init, EmptyInv, KeptInv, WalkInv

(* While nothing is being given back, blocks are held, or taken to be held. *)
LEMMA KeptWhileHeld ==
  ASSUME SoleCaller, IInv, KeptInv, NEW c \in Callers, pc[c] # "find", held \subseteq held',
         \A s \in Slots : used'[s] /\ ~free'[s] =>
            \/ used[s] /\ ~free[s] /\ start'[s] = start[s]
            \/ HeldAt(s)'
  PROVE  KeptInv'
  <1> SUFFICES ASSUME NEW s \in Slots, used'[s], ~free'[s] PROVE HeldAt(s)'
    BY DEF KeptInv
  <1>1. CASE used[s] /\ ~free[s] /\ start'[s] = start[s]
    <2>1. ~Returning(s)
      BY DEF Returning, SoleCaller
    <2>2. HeldAt(s)
      BY <1>1, <2>1 DEF KeptInv
    <2> QED
      BY <1>1, <2>2 DEF HeldAt
  <1> QED
    BY <1>1

(* Outside the walk only the beginning of the heap matters to it.           *)
LEMMA NoWalk ==
  ASSUME SoleCaller, IInv, WalkInv, NEW c \in Callers, NEW place \in Place \ {"find"},
         Goto(c, place) \/ (UNCHANGED pc /\ pc[c] # "find"), start'[First] = start[First]
  PROVE  WalkInv'
  <1>1. \A d \in Callers : pc'[d] # "find"
    BY DEF SoleCaller, Goto, IInv, TypeOK
  <1> QED
    BY <1>1 DEF WalkInv

(* The blocks stay as they are, and no call ends or begins to give back.    *)
LEMMA BlocksKept ==
  ASSUME SoleCaller, IInv, KernelInv, UNCHANGED <<block, memory, held>>,
         NEW c \in Callers, pc[c] # "find", NEW place \in Place \ {"find"},
         Goto(c, place) \/ UNCHANGED pc
  PROVE  KernelInv'
  <1> SUFFICES ASSUME kind = "kernel" PROVE EmptyInv' /\ KeptInv' /\ WalkInv'
    BY DEF KernelInv, memory
  <1>1. EmptyInv /\ KeptInv /\ WalkInv
    BY DEF KernelInv
  <1>2. EmptyInv'
    BY <1>1 DEF EmptyInv, block, memory
  <1>3. KeptInv'
    BY <1>1, KeptWhileHeld DEF block
  <1>4. WalkInv'
    BY <1>1, NoWalk DEF block
  <1> QED
    BY <1>2, <1>3, <1>4

LEMMA AllocExactKernel ==
  ASSUME SoleCaller, IInv, KernelInv, NEW c \in Callers, AllocExact(c)
  PROVE  KernelInv'
  <1>1. EmptyInv /\ KeptInv /\ WalkInv
    BY DEF KernelInv, AllocExact
  <1> PICK d : d = donor[c]
    OBVIOUS
  <1>2. /\ d \in Slots /\ used[d] /\ free[d] /\ size[d] = request[c].size
        /\ size[d] \in Nat \ {0} /\ start[d] \in Nat
    BY DEF AllocExact, IsExact, IInv, TypeOK, CallInv, FoundInv
  <1>3. /\ free' = [free EXCEPT ![d] = FALSE] /\ used' = used
        /\ held' = held \cup {[addr |-> start[d], size |-> request[c].size]}
        /\ Goto(c, "idle") /\ pc[c] = "alloc"
        /\ UNCHANGED <<start, size, next, memory>>
    BY <1>2 DEF AllocExact, HandOut, Return, IInv, TypeOK
  <1>4. EmptyInv'
    BY <1>1, <1>2, <1>3 DEF EmptyInv, memory, IInv, TypeOK
  <1>5. KeptInv'
    <2>1. [addr |-> start[d], size |-> request[c].size] \in held'
      BY <1>3
    <2>2. HeldAt(d)'
      BY <1>3, <2>1 DEF HeldAt
    <2>3. \A s \in Slots : used'[s] /\ ~free'[s] =>
            (used[s] /\ ~free[s] /\ start'[s] = start[s]) \/ HeldAt(s)'
      BY <1>2, <1>3, <2>2 DEF IInv, TypeOK
    <2> QED
      BY <1>1, <1>3, <2>3, KeptWhileHeld
  <1>6. WalkInv'
    BY <1>1, <1>3, NoWalk DEF Place
  <1> QED
    BY <1>4, <1>5, <1>6 DEF KernelInv

LEMMA AllocSplitKernel ==
  ASSUME SoleCaller, IInv, KernelInv, NEW c \in Callers, AllocSplit(c)
  PROVE  KernelInv'
  <1>1. EmptyInv /\ KeptInv /\ WalkInv
    BY DEF KernelInv, AllocSplit
  <1> PICK d, u, rest, a : /\ d = donor[c] /\ u = unused[c]
                           /\ rest = size[d] - request[c].size
                           /\ a = start[d] + rest
    OBVIOUS
  <1>2. /\ d \in Slots /\ used[d] /\ free[d] /\ u \in Slots /\ ~used[u] /\ u # d
        /\ size[d] \in Nat /\ start[d] \in Nat /\ rest \in Nat \ {0}
        /\ request[c].size \in Nat \ {0}
    <2>1. pc[c] = "alloc" /\ kind = "kernel" /\ IsBoth(c) /\ size[d] # request[c].size
      BY DEF AllocSplit, IsExact, IsBoth
    <2>2. size[d] >= request[c].size
      BY <2>1, FoundBlocks DEF Wanted
    <2> QED
      BY <2>1, <2>2, FoundBlocks
  <1>3. /\ start' = [start EXCEPT ![u] = a]
        /\ size' = [size EXCEPT ![d] = rest, ![u] = request[c].size]
        /\ free' = [free EXCEPT ![u] = FALSE]
        /\ used' = [used EXCEPT ![u] = TRUE]
        /\ held' = held \cup {[addr |-> a, size |-> request[c].size]}
        /\ Goto(c, "idle") /\ pc[c] = "alloc" /\ UNCHANGED memory
    BY DEF AllocSplit, HandOut, Return
  <1>4. /\ start'[u] = a /\ size'[u] # 0 /\ size'[d] # 0 /\ ~free'[u]
        /\ \A s \in Slots \ {u} : /\ start'[s] = start[s] /\ used'[s] = used[s]
                                  /\ free'[s] = free[s]
        /\ \A s \in Slots \ {d, u} : size'[s] = size[s]
    BY <1>2, <1>3 DEF IInv, TypeOK
  <1>5. EmptyInv'
    <2>1. \A s \in Slots : used'[s] /\ size'[s] = 0 => used[s] /\ size[s] = 0 /\ s \in Slots \ {d, u}
      BY <1>2, <1>4
    <2>2. pagesLeft' = pagesLeft /\ heapSize' = heapSize
      BY <1>3 DEF memory
    <2> QED
      BY <1>1, <1>4, <2>1, <2>2 DEF EmptyInv
  <1>6. KeptInv'
    <2>1. [addr |-> a, size |-> request[c].size] \in held'
      BY <1>3
    <2>2. HeldAt(u)'
      BY <1>4, <2>1 DEF HeldAt
    <2> QED
      BY <1>1, <1>3, <1>4, <2>2, KeptWhileHeld
  <1>7. WalkInv'
    <2>1. u # First
      BY <1>2 DEF IInv, LinkInv
    <2> QED
      BY <1>1, <1>3, <1>4, <2>1, FirstSlot, NoWalk DEF Place
  <1> QED
    BY <1>5, <1>6, <1>7 DEF KernelInv

(* New memory is empty only when there is none left.                        *)
LEMMA ExpandKernel ==
  ASSUME SoleCaller, IInv, KernelInv, NEW c \in Callers, Expand(c)
  PROVE  KernelInv'
  <1>1. EmptyInv /\ KeptInv /\ WalkInv
    BY DEF KernelInv, Expand
  <1> PICK l, u, need, got, more :
        /\ l = Least(Last) /\ u = Least(Unused)
        /\ need = (request[c].size + LargePage - 1) \div LargePage
        /\ got = IF need <= pagesLeft THEN need ELSE pagesLeft
        /\ more = got * LargePage
    OBVIOUS
  <1>2. u \in Slots /\ ~used[u]
    <2>1. Unused \in SUBSET Slots /\ u # None
      BY DEF Expand, Unused
    <2> QED
      BY <2>1, LeastOfSlots DEF Unused
  <1>3. need \in Nat /\ need # 0
    <2>1. request[c].size \in Nat \ {0}
      BY DEF IInv, TypeOK
    <2>2. request[c].size + LargePage - 1 \in Nat
      BY <2>1, HeapAssumption
    <2> QED
      BY <2>1, <2>2, AtLeastOne, Quotient, HeapAssumption
  <1>4. pagesLeft \in Nat /\ got \in Nat /\ got <= pagesLeft /\ (got = 0 => pagesLeft = 0)
    BY <1>3 DEF IInv, TypeOK
  <1>5. more \in Nat /\ (more = 0 <=> got = 0)
    BY <1>4, Product, HeapAssumption
  <1>6. /\ start' = [start EXCEPT ![u] = heapSize]
        /\ size' = [size EXCEPT ![u] = more]
        /\ free' = [free EXCEPT ![u] = TRUE]
        /\ used' = [used EXCEPT ![u] = TRUE]
        /\ heapSize' = heapSize + more
        /\ pagesLeft' = pagesLeft - got
        /\ Goto(c, "scan") /\ pc[c] = "alloc"
        /\ UNCHANGED <<kind, held, request, found, cursor>>
    BY DEF Expand
  <1>7. /\ start'[u] = heapSize /\ size'[u] = more /\ free'[u]
        /\ heapSize \in Nat
        /\ \A s \in Slots \ {u} : /\ start'[s] = start[s] /\ size'[s] = size[s]
                                  /\ used'[s] = used[s] /\ free'[s] = free[s]
    BY <1>2, <1>6 DEF IInv, TypeOK
  <1>8. EmptyInv'
    <2> SUFFICES ASSUME NEW s \in Slots, used'[s], size'[s] = 0
                 PROVE  free'[s] /\ pagesLeft' = 0 /\ start'[s] = heapSize'
      BY DEF EmptyInv
    <2>1. free'[s] /\ start'[s] = heapSize /\ pagesLeft = 0
      BY <1>1, <1>4, <1>5, <1>7 DEF EmptyInv
    <2> QED
      BY <1>4, <1>5, <1>6, <1>7, <2>1
  <1>9. KeptInv'
    BY <1>1, <1>6, <1>7, KeptWhileHeld
  <1>10. WalkInv'
    <2>1. u # First
      BY <1>2 DEF IInv, LinkInv
    <2> QED
      BY <1>1, <1>6, <1>7, <2>1, FirstSlot, NoWalk DEF Place
  <1> QED
    BY <1>8, <1>9, <1>10 DEF KernelInv

(* No other block begins where one that is not free does.                   *)
LEMMA OneBeginning ==
  ASSUME IInv, EmptyInv, NEW s \in Slots, NEW b \in Slots,
         used[s], ~free[s], used[b], start[b] = start[s]
  PROVE  b = s
  <1>1. /\ start[s] \in Nat /\ size[s] \in Nat \ {0} /\ start[b] \in Nat /\ size[b] \in Nat
        /\ heapSize \in Nat
    BY DEF IInv, TypeOK, EmptyInv
  <1>2. start[s] + size[s] <= heapSize /\ (size[b] = 0 => start[b] = heapSize)
    BY DEF IInv, BlockInv, EmptyInv
  <1>3. size[b] # 0 /\ b # s => Apart(start[b], size[b], start[s], size[s])
    BY <1>1 DEF IInv, BlocksApart
  <1> QED
    BY <1>1, <1>2, <1>3 DEF Apart

(* A block before one that is not free has another one behind it.           *)
LEMMA Further ==
  ASSUME IInv, EmptyInv, NEW s \in Slots, NEW b \in Slots,
         used[s], ~free[s], used[b], start[b] <= start[s], start[b] # start[s]
  PROVE  /\ next[b] \in Slots /\ next[b] # None
         /\ start[next[b]] <= start[s]
  <1>1. /\ start[s] \in Nat /\ size[s] \in Nat \ {0} /\ start[b] \in Nat /\ size[b] \in Nat
        /\ heapSize \in Nat
    BY DEF IInv, TypeOK, EmptyInv
  <1>2. start[s] + size[s] <= heapSize
    BY DEF IInv, BlockInv
  <1>3. size[b] # 0 => Apart(start[b], size[b], start[s], size[s])
    BY <1>1 DEF IInv, BlocksApart
  <1>4. start[b] + size[b] <= start[s]
    BY <1>1, <1>2, <1>3 DEF Apart
  <1>5. next[b] # None
    BY <1>1, <1>2, <1>4 DEF IInv, LinkInv
  <1> QED
    BY <1>4, <1>5 DEF IInv, LinkInv, TypeOK

LEMMA FreeKernel ==
  ASSUME SoleCaller, IInv, KernelInv, NEW c \in Callers, NEW h \in held, Free(c, h)
  PROVE  KernelInv'
  <1> SUFFICES ASSUME kind = "kernel" PROVE EmptyInv' /\ KeptInv' /\ WalkInv'
    BY DEF KernelInv, Free, memory
  <1>1. EmptyInv /\ KeptInv /\ WalkInv
    BY DEF KernelInv
  <1>2. /\ held' = held \ {h} /\ pc[c] = "idle"
        /\ pc'[c] = "find" /\ request'[c].addr = h.addr /\ cursor'[c] = First
        /\ UNCHANGED <<block, memory>>
    BY FirstSlot DEF Free, Goto, IInv, TypeOK
  <1>3. EmptyInv'
    BY <1>1, <1>2 DEF EmptyInv, block, memory
  <1>4. KeptInv'
    <2> SUFFICES ASSUME NEW s \in Slots, used[s], ~free[s]
                 PROVE  HeldAt(s)' \/ Returning(s)'
      BY <1>2 DEF KeptInv, block
    <2>1. PICK k \in held : k.addr = start[s]
      BY <1>1, <1>2 DEF KeptInv, HeldAt, Returning, SoleCaller
    <2> QED
      BY <1>2, <2>1 DEF HeldAt, Returning, block
  <1>5. WalkInv'
    <2>1. PICK s \in Slots : used[s] /\ ~free[s] /\ start[s] = h.addr
      BY DEF IInv, HeldInv, Holds
    <2>2. start[First] <= h.addr /\ start[First] = 0
      BY <1>1 DEF WalkInv, IInv, TypeOK
    <2> QED
      BY <1>2, <2>1, <2>2 DEF WalkInv, SoleCaller, block
  <1> QED
    BY <1>3, <1>4, <1>5

(* The walk stops at the block that is given back, and only there.          *)
LEMMA FindKernel ==
  ASSUME SoleCaller, IInv, KernelInv, NEW c \in Callers, FindHits(c) \/ FindMoves(c)
  PROVE  KernelInv'
  <1> SUFFICES ASSUME kind = "kernel" PROVE EmptyInv' /\ KeptInv' /\ WalkInv'
    BY DEF KernelInv, FindHits, FindMoves, memory
  <1>1. EmptyInv /\ KeptInv /\ WalkInv
    BY DEF KernelInv
  <1> PICK b, addr : b = cursor[c] /\ addr = request[c].addr
    OBVIOUS
  <1>2. /\ pc[c] = "find" /\ UNCHANGED <<start, size, next, used, memory, held, request>>
        /\ b \in Slots /\ used[b] /\ start[b] <= addr
    BY <1>1 DEF FindHits, FindMoves, block, IInv, TypeOK, CallInv, GivenBack, WalkInv
  <1>3. PICK s \in Slots : used[s] /\ ~free[s] /\ start[s] = addr
    BY <1>1, <1>2 DEF WalkInv
  <1>4. CASE FindHits(c)
    <2>1. /\ start[b] = addr /\ free' = [free EXCEPT ![b] = TRUE]
          /\ Goto(c, "merge")
      BY <1>4 DEF FindHits
    <2>2. EmptyInv'
      BY <1>1, <1>2, <2>1 DEF EmptyInv, memory, IInv, TypeOK
    <2>3. KeptInv'
      <3> SUFFICES ASSUME NEW r \in Slots, used[r], ~free'[r] PROVE HeldAt(r)'
        BY <1>2 DEF KeptInv
      <3>1. r # b /\ ~free[r]
        BY <1>2, <2>1 DEF IInv, TypeOK
      <3>2. start[r] # addr
        BY <1>1, <1>2, <2>1, <3>1, OneBeginning
      <3>3. ~Returning(r)
        BY <3>2 DEF Returning, SoleCaller
      <3> QED
        BY <1>1, <1>2, <3>1, <3>3 DEF KeptInv, HeldAt
    <2>4. WalkInv'
      <3>1. start'[First] = start[First] /\ "merge" \in Place \ {"find"}
        BY <1>2 DEF Place
      <3> QED
        BY <1>1, <2>1, <3>1, NoWalk
    <2> QED
      BY <2>2, <2>3, <2>4
  <1>5. CASE FindMoves(c)
    <2>1. start[b] # addr /\ UNCHANGED block
      BY <1>5 DEF FindMoves
    <2>2. next[b] \in Slots /\ next[b] # None /\ start[next[b]] <= addr
      BY <1>1, <1>2, <1>3, <2>1, Further
    <2>3. UNCHANGED pc /\ cursor'[c] = next[b]
      BY <1>5, <2>2 DEF FindMoves, IInv, TypeOK
    <2>4. EmptyInv' /\ KeptInv'
      BY <1>1, <1>2, <2>1, <2>3 DEF EmptyInv, KeptInv, HeldAt, Returning, block, memory
    <2>5. WalkInv'
      BY <1>1, <1>2, <1>3, <2>1, <2>2, <2>3 DEF WalkInv, SoleCaller, block
    <2> QED
      BY <2>4, <2>5
  <1> QED
    BY <1>4, <1>5

LEMMA MergesKernel ==
  ASSUME SoleCaller, IInv, KernelInv, NEW c \in Callers, Merges(c)
  PROVE  KernelInv'
  <1> SUFFICES ASSUME kind = "kernel" PROVE EmptyInv' /\ KeptInv' /\ WalkInv'
    BY DEF KernelInv, Merges, memory
  <1>1. EmptyInv /\ KeptInv /\ WalkInv
    BY DEF KernelInv
  <1> PICK b, n : b = cursor[c] /\ n = next[b]
    OBVIOUS
  <1>2. /\ b \in Slots /\ n \in Slots /\ free[b] /\ free[n] /\ used[b] /\ used[n]
        /\ n # First /\ start[n] = start[b] + size[b]
    BY DEF Merges, BothFree, IInv, TypeOK, BlockInv, LinkInv
  <1>3. /\ start' = [start EXCEPT ![n] = 0]
        /\ size' = [size EXCEPT ![b] = @ + size[n], ![n] = 0]
        /\ free' = [free EXCEPT ![n] = FALSE]
        /\ used' = [used EXCEPT ![n] = FALSE]
        /\ Goto(c, "idle") \/ UNCHANGED pc
        /\ UNCHANGED <<memory, held>>
    BY DEF Merges, MergeMoves
  <1>4. /\ ~used'[n] /\ pc[c] = "merge"
        /\ b # n => size'[b] = size[b] + size[n]
        /\ \A s \in Slots \ {n} : /\ start'[s] = start[s] /\ used'[s] = used[s]
                                  /\ free'[s] = free[s]
        /\ \A s \in Slots \ {b, n} : size'[s] = size[s]
        /\ size[b] \in Nat /\ size[n] \in Nat
    BY <1>2, <1>3 DEF IInv, TypeOK, Merges
  <1>5. EmptyInv'
    <2> SUFFICES ASSUME NEW s \in Slots, used'[s], size'[s] = 0
                 PROVE  free'[s] /\ pagesLeft' = 0 /\ start'[s] = heapSize'
      BY DEF EmptyInv
    <2>1. s # n /\ used[s]
      BY <1>4
    <2>2. size[s] = 0
      BY <1>4, <2>1
    <2>3. UNCHANGED <<heapSize, pagesLeft>>
      BY <1>3 DEF memory
    <2>4. free[s] /\ pagesLeft = 0 /\ start[s] = heapSize
      BY <1>1, <2>1, <2>2 DEF EmptyInv
    <2> QED
      BY <1>4, <2>1, <2>3, <2>4
  <1>6. KeptInv'
    <2>1. held \subseteq held' /\ pc[c] # "find"
      BY <1>3, <1>4
    <2>2. \A s \in Slots : used'[s] /\ ~free'[s] =>
            used[s] /\ ~free[s] /\ start'[s] = start[s]
      BY <1>4
    <2> QED
      BY <1>1, <2>1, <2>2, KeptWhileHeld
  <1>7. WalkInv'
    <2>1. /\ start'[First] = start[First] /\ "idle" \in Place \ {"find"}
          /\ Goto(c, "idle") \/ (UNCHANGED pc /\ pc[c] # "find")
      BY <1>2, <1>3, <1>4, FirstSlot DEF Place
    <2> QED
      BY <1>1, <2>1, NoWalk
  <1> QED
    BY <1>5, <1>6, <1>7

LEMMA NextKernel == SoleCaller /\ IInv /\ KernelInv /\ [Next]_vars => KernelInv'
  <1> SUFFICES ASSUME SoleCaller, IInv, KernelInv, [Next]_vars PROVE KernelInv'
    OBVIOUS
  <1>1. ASSUME NEW c \in Callers, NEW r \in Requests, Alloc(c, r) PROVE KernelInv'
    BY <1>1, BlocksKept DEF Alloc, Place
  <1>2. ASSUME NEW c \in Callers,
               Scan(c) \/ AllocFails(c) \/ DmaFails(c) \/ PassesOver(c)
        PROVE  KernelInv'
    <2>1. /\ UNCHANGED <<block, held>> /\ pc[c] # "find"
          /\ Goto(c, "alloc") \/ Goto(c, "idle") \/ UNCHANGED pc
      BY <1>2 DEF Scan, AllocFails, DmaFails, PassesOver, Return, MergeMoves
    <2>2. UNCHANGED memory
      BY <1>2 DEF Scan, AllocFails, DmaFails, PassesOver
    <2> QED
      BY <2>1, <2>2, BlocksKept DEF Place
  <1>3. ASSUME NEW c \in Callers, DmaSplit(c) PROVE KernelInv'
    BY <1>3 DEF DmaSplit, KernelInv, memory
  <1>4. CASE UNCHANGED vars
    BY <1>4 DEF vars, block, memory, KernelInv, EmptyInv, KeptInv, WalkInv, HeldAt, Returning
  <1> QED
    BY <1>1, <1>2, <1>3, <1>4, AllocExactKernel, AllocSplitKernel, ExpandKernel, FreeKernel,
       FindKernel, MergesKernel DEF Next, Inside

(* Every byte of the kernel's heap is free or held by someone between two   *)
(* calls: heap_free finds the very block that heap_alloc handed out.  A     *)
(* heap that starts with memory in it is needed, as an empty first block    *)
(* would be found instead of the one behind it.                             *)
THEOREM KernelHeapKeeps ==
  SoleCaller /\ StartSize # 0 => (Spec => []KernelHeapKeepsNothing)
  <1> SUFFICES ASSUME SoleCaller, StartSize # 0 PROVE Spec => []KernelHeapKeepsNothing
    OBVIOUS
  <1>1. Init => IInv /\ KernelInv
    BY InitIInv, InitKernel
  <1>2. IInv /\ KernelInv /\ [Next]_vars => IInv' /\ KernelInv'
    BY NextIInv, NextKernel
  <1>3. KernelInv => KernelHeapKeepsNothing
    BY DEF KernelInv, KeptInv, HeldAt, Returning, KernelHeapKeepsNothing, NothingLeaks, Idle
  <1> QED
    BY <1>1, <1>2, <1>3, PTL DEF Spec

=============================================================================
