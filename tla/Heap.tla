-------------------------------- MODULE Heap --------------------------------
(***************************************************************************)
(* The block allocator of kernel/src/memory/heap.cpp, as the kernel heap    *)
(* (heap_alloc, heap_expand, heap_free) and as the DMA heap of a driver     *)
(* (dma_heap_alloc, dma_heap_free).                                         *)
(*                                                                          *)
(* The heap is an array of block structs, searched in array order for a     *)
(* donor and for unused structs, and threaded by `next' into a list in      *)
(* address order, walked from its first block to free and to merge.         *)
(* Nothing locks it: a caller may be preempted between the search and what  *)
(* it does with the result, and in every turn of the two loops of           *)
(* heap_free.  Addresses are counted from start_virtual_addr.               *)
(***************************************************************************)
EXTENDS Integers, FiniteSets

CONSTANTS
  Callers,     \* who calls malloc and free
  NSlots,      \* heap_block_array_size
  StartSize,   \* size of the heap at the beginning
  LargePage,   \* PAGE_SIZE_LARGE, what the heap grows by
  LargePages,  \* how many of them physical memory still has
  Requests     \* the [size, align] that callers ask for

(* Callers ask for something, and dma_heap_alloc refuses another alignment. *)
ASSUME HeapAssumption ==
  /\ NSlots \in Nat \ {0}
  /\ StartSize \in Nat
  /\ LargePage \in Nat \ {0}
  /\ LargePages \in Nat
  /\ \A r \in Requests :
       /\ r.size \in Nat \ {0}
       /\ r.align \in Nat \ {0}
       /\ r.size % r.align = 0

Slots == 1 .. NSlots
None  == 0                \* nullptr
First == 1                \* heap_block_array[0], where the list begins

Kind  == {"kernel", "dma"}
Place == {"idle", "scan", "alloc", "find", "merge"}

VARIABLES
  start,      \* start_real_addr of each block struct
  size,       \* its size
  next,       \* its next
  free,       \* its free bit
  used,       \* its used bit
  heapSize,   \* p_heap->size
  pagesLeft,  \* large pages pmem_get_page still finds
  kind,       \* whether it is the kernel's heap or a driver's
  held,       \* what callers were given and have not freed
  pc,         \* per caller: where it is
  request,    \* what it asked for, or gave back
  donor,      \* blocks[0] of its search
  unused,     \* blocks[1]
  filler,     \* blocks[2] of dma_heap_alloc
  cursor      \* current_block of heap_free

vars == <<start, size, next, free, used, heapSize, pagesLeft, kind, held, pc,
          request, donor, unused, filler, cursor>>

block  == <<start, size, next, free, used>>
memory == <<heapSize, pagesLeft, kind>>
found  == <<donor, unused, filler>>

Nothing == [size |-> 1, align |-> 1, addr |-> 0]

(* heap_init and dma_heap_init: one free block, and an array of zeros. *)
Init ==
  /\ start = [s \in Slots |-> 0]
  /\ size = [s \in Slots |-> IF s = First THEN StartSize ELSE 0]
  /\ next = [s \in Slots |-> None]
  /\ free = [s \in Slots |-> s = First]
  /\ used = [s \in Slots |-> s = First]
  /\ heapSize = StartSize
  /\ pagesLeft = LargePages
  /\ kind \in Kind
  /\ held = {}
  /\ pc = [c \in Callers |-> "idle"]
  /\ request = [c \in Callers |-> Nothing]
  /\ donor = [c \in Callers |-> None]
  /\ unused = [c \in Callers |-> None]
  /\ filler = [c \in Callers |-> None]
  /\ cursor = [c \in Callers |-> First]

-----------------------------------------------------------------------------
(* heap_filter_blocks: the first struct of the array that passes a filter.  *)

Least(S) == IF S = {} THEN None ELSE CHOOSE s \in S : \A t \in S : s <= t

DonorsOfAnySize(n) == {s \in Slots : used[s] /\ free[s] /\ size[s] # 0}

Donors(n) == {s \in Slots : used[s] /\ free[s] /\ size[s] >= n}
Unused    == {s \in Slots : ~used[s]}
Last      == {s \in Slots : used[s] /\ next[s] = None}

Goto(c, place) == pc' = [pc EXCEPT ![c] = place]

(* What heap_alloc wants of a donor, and what dma_heap_alloc wants of one. *)
Wanted(c) ==
  IF kind = "dma" THEN request[c].size + request[c].align ELSE request[c].size

Alloc(c, r) ==
  /\ pc[c] = "idle"
  /\ kind = "kernel" => r.align = 1         \* heap_alloc takes none
  /\ request' = [request EXCEPT ![c] = [size |-> r.size, align |-> r.align, addr |-> 0]]
  /\ Goto(c, "scan")
  /\ UNCHANGED <<block, memory, held, found, cursor>>

Scan(c) ==
  /\ pc[c] = "scan"
  /\ donor' = [donor EXCEPT ![c] = Least(Donors(Wanted(c)))]
  /\ unused' = [unused EXCEPT ![c] = Least(Unused)]
  /\ filler' = [filler EXCEPT ![c] = Least(Unused \ {Least(Unused)})]
  /\ Goto(c, "alloc")
  /\ UNCHANGED <<block, memory, held, request, cursor>>

(* The call returns, and its locals are gone. *)
Return(c) ==
  /\ Goto(c, "idle")
  /\ request' = [request EXCEPT ![c] = Nothing]
  /\ donor' = [donor EXCEPT ![c] = None]
  /\ unused' = [unused EXCEPT ![c] = None]
  /\ filler' = [filler EXCEPT ![c] = None]
  /\ UNCHANGED cursor

HandOut(c, addr) ==
  /\ held' = held \cup {[addr |-> addr, size |-> request[c].size]}
  /\ Return(c)

-----------------------------------------------------------------------------
(* heap_alloc                                                               *)

IsExact(c) == donor[c] # None /\ size[donor[c]] = request[c].size

IsBoth(c) == donor[c] # None /\ unused[c] # None

(* Early return: the donor is the block. *)
AllocExact(c) ==
  /\ pc[c] = "alloc" /\ kind = "kernel"
  /\ IsExact(c)
  /\ free' = [free EXCEPT ![donor[c]] = FALSE]
  /\ used' = [used EXCEPT ![donor[c]] = TRUE]
  /\ HandOut(c, start[donor[c]])
  /\ UNCHANGED <<start, size, next, memory>>

AllocSplitKeepsDonor(c) ==
  LET d == donor[c]
      u == unused[c]
      rest == size[d] - request[c].size
  IN
  /\ pc[c] = "alloc" /\ kind = "kernel"
  /\ IsBoth(c) /\ ~IsExact(c)
  /\ start' = [start EXCEPT ![u] = start[d] + rest]
  /\ size' = [size EXCEPT ![u] = request[c].size]
  /\ next' = [next EXCEPT ![u] = next[d], ![d] = u]
  /\ free' = [free EXCEPT ![u] = FALSE]
  /\ used' = [used EXCEPT ![u] = TRUE]
  /\ HandOut(c, start[d] + rest)
  /\ UNCHANGED memory

(* The end of the donor becomes a block of its own. *)
AllocSplit(c) ==
  LET d == donor[c]
      u == unused[c]
      rest == size[d] - request[c].size
  IN
  /\ pc[c] = "alloc" /\ kind = "kernel"
  /\ IsBoth(c) /\ ~IsExact(c)
  /\ start' = [start EXCEPT ![u] = start[d] + rest]
  /\ size' = [size EXCEPT ![d] = rest, ![u] = request[c].size]
  /\ next' = [next EXCEPT ![u] = next[d], ![d] = u]
  /\ free' = [free EXCEPT ![u] = FALSE]
  /\ used' = [used EXCEPT ![u] = TRUE]
  /\ HandOut(c, start[d] + rest)
  /\ UNCHANGED memory

ExpandUnused(c) ==
  LET l == Least(Last)
      u == Least(Unused)
      need == (request[c].size + LargePage - 1) \div LargePage
      got == IF need <= pagesLeft THEN need ELSE pagesLeft
  IN
  /\ pc[c] = "alloc" /\ kind = "kernel"
  /\ ~IsExact(c) /\ ~IsBoth(c)
  /\ l # None /\ u # None
  /\ start' = [start EXCEPT ![u] = heapSize]
  /\ size' = [size EXCEPT ![u] = got * LargePage]
  /\ next' = [next EXCEPT ![l] = u]
  /\ free' = [free EXCEPT ![u] = TRUE]
  /\ heapSize' = heapSize + got * LargePage
  /\ pagesLeft' = pagesLeft - got
  /\ Goto(c, "scan")
  /\ UNCHANGED <<used, kind, held, request, found, cursor>>

(* heap_expand: as many large pages as the request takes, or as are left,   *)
(* which may be none; then heap_alloc calls itself.                         *)
Expand(c) ==
  LET l == Least(Last)
      u == Least(Unused)
      need == (request[c].size + LargePage - 1) \div LargePage
      got == IF need <= pagesLeft THEN need ELSE pagesLeft
  IN
  /\ pc[c] = "alloc" /\ kind = "kernel"
  /\ ~IsExact(c) /\ ~IsBoth(c)
  /\ l # None /\ u # None
  /\ start' = [start EXCEPT ![u] = heapSize]
  /\ size' = [size EXCEPT ![u] = got * LargePage]
  /\ next' = [next EXCEPT ![l] = u]
  /\ free' = [free EXCEPT ![u] = TRUE]
  /\ used' = [used EXCEPT ![u] = TRUE]
  /\ heapSize' = heapSize + got * LargePage
  /\ pagesLeft' = pagesLeft - got
  /\ Goto(c, "scan")
  /\ UNCHANGED <<kind, held, request, found, cursor>>

(* heap_expand finds no struct to describe new memory with: nullptr. *)
AllocFails(c) ==
  /\ pc[c] = "alloc" /\ kind = "kernel"
  /\ ~IsExact(c) /\ ~IsBoth(c)
  /\ Unused = {} \/ Last = {}
  /\ Return(c)
  /\ UNCHANGED <<block, memory, held>>

-----------------------------------------------------------------------------
(* dma_heap_alloc: the end of the donor, of size + align, is cut off; what  *)
(* lies before the first aligned address in it becomes a free block.  Its   *)
(* early return, for a donor of exactly size, is never taken: a donor has   *)
(* size + align.                                                            *)

DmaSplit(c) ==
  LET d == donor[c]
      u == unused[c]
      f == filler[c]
      taken == request[c].size + request[c].align
      rest == size[d] - taken
      cut == start[d] + rest
      misalignment == cut % request[c].align
      correction == IF misalignment = 0 THEN 0 ELSE request[c].align - misalignment
  IN
  /\ pc[c] = "alloc" /\ kind = "dma"
  /\ IsBoth(c) /\ f # None
  /\ IF correction = 0
       THEN /\ start' = [start EXCEPT ![u] = cut]
            /\ size' = [size EXCEPT ![d] = rest, ![u] = taken]
            /\ next' = [next EXCEPT ![u] = next[d], ![d] = u]
            /\ free' = [free EXCEPT ![u] = FALSE]
            /\ used' = [used EXCEPT ![u] = TRUE]
       ELSE /\ start' = [start EXCEPT ![f] = cut, ![u] = cut + correction]
            /\ size' = [size EXCEPT ![d] = rest, ![f] = correction, ![u] = taken - correction]
            /\ next' = [next EXCEPT ![d] = f, ![f] = u, ![u] = next[d]]
            /\ free' = [free EXCEPT ![f] = TRUE, ![u] = FALSE]
            /\ used' = [used EXCEPT ![f] = TRUE, ![u] = TRUE]
  /\ HandOut(c, cut + correction)
  /\ UNCHANGED memory

(* A DMA heap does not grow. *)
DmaFails(c) ==
  /\ pc[c] = "alloc" /\ kind = "dma"
  /\ ~(IsBoth(c) /\ filler[c] # None)
  /\ Return(c)
  /\ UNCHANGED <<block, memory, held>>

-----------------------------------------------------------------------------
(* heap_free and dma_heap_free                                              *)

Free(c, h) ==
  /\ pc[c] = "idle"
  /\ h \in held
  /\ held' = held \ {h}
  /\ request' = [request EXCEPT ![c].addr = h.addr]
  /\ cursor' = [cursor EXCEPT ![c] = First]
  /\ Goto(c, "find")
  /\ UNCHANGED <<block, memory, found>>

FindHits(c) ==
  /\ pc[c] = "find"
  /\ start[cursor[c]] = request[c].addr
  /\ free' = [free EXCEPT ![cursor[c]] = TRUE]
  /\ cursor' = [cursor EXCEPT ![c] = First]
  /\ Goto(c, "merge")
  /\ UNCHANGED <<start, size, next, used, memory, held, request, found>>

FindMovesShort(c) ==
  /\ pc[c] = "find"
  /\ start[cursor[c]] # request[c].addr
  /\ IF next[cursor[c]] = None \/ next[next[cursor[c]]] = None
       THEN cursor' = [cursor EXCEPT ![c] = First] /\ Goto(c, "merge")
       ELSE cursor' = [cursor EXCEPT ![c] = next[cursor[c]]] /\ UNCHANGED pc
  /\ UNCHANGED <<block, memory, held, request, found>>

FindMoves(c) ==
  /\ pc[c] = "find"
  /\ start[cursor[c]] # request[c].addr
  /\ IF next[cursor[c]] = None
       THEN cursor' = [cursor EXCEPT ![c] = First] /\ Goto(c, "merge")
       ELSE cursor' = [cursor EXCEPT ![c] = next[cursor[c]]] /\ UNCHANGED pc
  /\ UNCHANGED <<block, memory, held, request, found>>

(* One turn of the second loop; a merged block may have another free one    *)
(* behind it, which waits for the next call.                                *)
MergeMoves(c, following) ==
  IF following = None
    THEN /\ Goto(c, "idle")
         /\ cursor' = [cursor EXCEPT ![c] = First]
         /\ request' = [request EXCEPT ![c] = Nothing]
    ELSE /\ cursor' = [cursor EXCEPT ![c] = following]
         /\ UNCHANGED <<pc, request>>

BothFree(b) == free[b] /\ next[b] # None /\ free[next[b]]

MergesSizeless(c) ==
  LET b == cursor[c]
      n == next[b]
  IN
  /\ pc[c] = "merge"
  /\ BothFree(b)
  /\ start' = [start EXCEPT ![n] = 0]
  /\ size' = [size EXCEPT ![n] = 0]
  /\ next' = [next EXCEPT ![b] = next[n], ![n] = None]
  /\ free' = [free EXCEPT ![n] = FALSE]
  /\ used' = [used EXCEPT ![n] = FALSE]
  /\ MergeMoves(c, next[n])
  /\ UNCHANGED <<memory, held, found>>

Merges(c) ==
  LET b == cursor[c]
      n == next[b]
  IN
  /\ pc[c] = "merge"
  /\ BothFree(b)
  /\ start' = [start EXCEPT ![n] = 0]
  /\ size' = [size EXCEPT ![b] = @ + size[n], ![n] = 0]
  /\ next' = [next EXCEPT ![b] = next[n], ![n] = None]
  /\ free' = [free EXCEPT ![n] = FALSE]
  /\ used' = [used EXCEPT ![n] = FALSE]
  /\ MergeMoves(c, next[n])
  /\ UNCHANGED <<memory, held, found>>

PassesOver(c) ==
  LET b == cursor[c] IN
  /\ pc[c] = "merge"
  /\ ~BothFree(b)
  /\ MergeMoves(c, next[b])
  /\ UNCHANGED <<block, memory, held, found>>

-----------------------------------------------------------------------------
Inside(c) ==
  \/ Scan(c)
  \/ AllocExact(c)
  \/ AllocSplit(c)
  \/ Expand(c)
  \/ AllocFails(c)
  \/ DmaSplit(c)
  \/ DmaFails(c)
  \/ FindHits(c)
  \/ FindMoves(c)
  \/ Merges(c)
  \/ PassesOver(c)

Next ==
  \E c \in Callers :
    \/ \E r \in Requests : Alloc(c, r)
    \/ \E h \in held : Free(c, h)
    \/ Inside(c)

Spec == Init /\ [][Next]_vars

(* Whoever is inside the allocator executes on: every thread is scheduled   *)
(* again and again (VThread, EveryThreadRuns).                              *)
FairSpec == Spec /\ \A c \in Callers : WF_vars(Inside(c))

-----------------------------------------------------------------------------
(* Properties                                                               *)

(* Every variable has the values the code can give it. *)
TypeOK ==
  /\ start \in [Slots -> Nat]
  /\ size \in [Slots -> Nat]
  /\ next \in [Slots -> Slots \cup {None}]
  /\ free \in [Slots -> BOOLEAN]
  /\ used \in [Slots -> BOOLEAN]
  /\ heapSize \in Nat
  /\ pagesLeft \in Nat
  /\ kind \in Kind
  /\ held \subseteq [addr : Nat, size : Nat \ {0}]
  /\ pc \in [Callers -> Place]
  /\ request \in [Callers -> [size : Nat \ {0}, align : Nat \ {0}, addr : Nat]]
  /\ donor \in [Callers -> Slots \cup {None}]
  /\ unused \in [Callers -> Slots \cup {None}]
  /\ filler \in [Callers -> Slots \cup {None}]
  /\ cursor \in [Callers -> Slots]

Apart(a, m, b, n) == a + m <= b \/ b + n <= a

(* heap_alloc "allocates memory from a heap" (heap.hpp:92): what two        *)
(* callers hold never overlaps and lies inside the heap, whatever was       *)
(* split, merged, expanded, aligned and handed out again before.            *)
AllocationsApart ==
  /\ \A h \in held : h.addr + h.size <= heapSize
  /\ \A h, k \in held : h # k => Apart(h.addr, h.size, k.addr, k.size)

Idle == \A c \in Callers : pc[c] = "idle"

(* dma_heap_free "frees the given block" (heap.hpp:108), and heap_free does *)
(* the same: between two calls, what is not free is held by someone.        *)
NothingLeaks ==
  Idle => \A s \in Slots :
            used[s] /\ ~free[s] => \E h \in held : h.addr = start[s]

(* The same, of the kernel's heap only: its blocks are never empty, so no   *)
(* two of them begin at one address.                                        *)
KernelHeapKeepsNothing == kind = "kernel" => NothingLeaks

(* The blocks the list reaches from its first one. *)
Listed ==
  LET within[n \in 0 .. NSlots] ==
        IF n = 0 THEN {First}
        ELSE within[n - 1] \cup ({next[s] : s \in within[n - 1]} \ {None})
  IN within[NSlots]

(* The list threads every block in use, the last ends where the heap does,  *)
(* and each begins where the one before it ends: no memory falls out of the *)
(* heap, and the walk of heap_free finds every block.                       *)
ListCoversHeap ==
  /\ Listed = {s \in Slots : used[s]}
  /\ \A s \in Slots : used[s] =>
       start[s] + size[s] = IF next[s] = None THEN heapSize ELSE start[next[s]]

(* Every call returns: the list has no cycle, and heap_alloc does not call  *)
(* itself for ever, even when physical memory is exhausted and heap_expand  *)
(* succeeds with nothing.                                                   *)
CallsReturn == \A c \in Callers : pc[c] # "idle" ~> pc[c] = "idle"
=============================================================================
