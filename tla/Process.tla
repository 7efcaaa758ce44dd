------------------------------ MODULE Process ------------------------------
(***************************************************************************)
(* From pages of memory to a running program: the page bitmap of             *)
(* memory/paging.cpp, the page tables of memory/vmem.cpp and                 *)
(* arch/amd64/vmem.cpp, the growth of a heap, elf.cpp, and create_process    *)
(* and delete_process of process.cpp.                                        *)
(*                                                                          *)
(* An address counts small pages; PagesPerLarge of them are the 2 MB that    *)
(* are mapped at a time, a page table has Fanout entries.  A large page is   *)
(* given by its number.  The kernel heap is the arena create_process takes   *)
(* its large blocks from (Heap.tla says how); a heap grows by one large page,*)
(* that of a process in a system call, whose interrupts are off.            *)
(* Every loop of pmem_get_page is under its mutex and one step; so is        *)
(* pmem_try_reserve_address, which takes none, and vmem_map_2mb.             *)
(***************************************************************************)
EXTENDS Integers, Sequences, FiniteSets, SequencesExt, FiniteSetsExt, Functions

CONSTANTS
  PagesPerLarge,  \* PAGE_SIZE_LARGE / PAGE_SIZE
  Fanout,         \* entries of a page table: PAGE_SIZE_HUGE / PAGE_SIZE_LARGE
  RamPages,       \* what the memory map calls usable
  BitmapPages,    \* bits of global_page_bitmap
  KernelLarge,    \* large pages of the kernel's image
  HeapStart,      \* HEAP_START_SIZE, in large pages
  FirmwareMaps,   \* what a memory map reserves: sets of entries [first, pages]
  Growers,        \* kernel threads that find the kernel heap too small
  Processes,
  Images,         \* executables: sequences of program headers
  MaxGrowths, MaxCreated  \* bounds: heap expansions, processes created

ASSUME ProcessAssumption ==
  /\ PagesPerLarge \in Nat \ {0, 1} /\ Fanout \in Nat \ {0, 1}
  /\ RamPages \in Nat /\ BitmapPages \in Nat /\ BitmapPages % PagesPerLarge = 0
  /\ KernelLarge \in Nat \ {0} /\ HeapStart \in Nat /\ "kernel" \notin Processes

VARIABLES
  firmware,   \* the memory map of this machine
  pmem,       \* [taken: global_page_bitmap, tables, mapped: per address space,
              \*  mishap: a table was made when no page was left, or while an
              \*  expansion had its first page and not yet the others; or two
              \*  expansions mapped the same end of the kernel heap]
  growth,     \* per grower: where its heap_expand is
  heapPages,  \* per address space: large pages of the heap's arena
  blocks,     \* large pages of the kernel heap that are allocated
  procs,      \* process_t
  strayed,    \* create_process failed with the new page table loaded and interrupts off
  pcount      \* counts against the bounds

processVars == <<firmware, pmem, growth, heapPages, blocks, procs, strayed, pcount>>

AddressSpaces == {"kernel"} \union Processes
Idle == [step |-> "idle", page |-> 0, end |-> 0]
NoProcess == [state |-> "none"]

-----------------------------------------------------------------------------
(* paging.cpp.  The index is compared with the memory size in kB, so four    *)
(* times as many pages are handed out as there are.                          *)
Allocatable == Min({BitmapPages, 4 * RamPages})
FreePages(m) == {i \in 1 .. Allocatable - 1 : i \notin m.taken}
FirstFree(m) == IF FreePages(m) = {} THEN 0 ELSE Min(FreePages(m))
Take(m, pages) == [m EXCEPT !.taken = @ \union pages]
AlignedLarge(page) == page % PagesPerLarge = 0
Large(n) == n * PagesPerLarge .. (n + 1) * PagesPerLarge - 1

(* Mutant: the last small page of a large one is not reserved. *)
RestShort(page) == page + 1 .. page + PagesPerLarge - 2

Rest(page) == page + 1 .. page + PagesPerLarge - 1

(* pmem_init: an entry that ends beyond the bitmap is passed over whole.     *)
PagesOf(e) == e.first .. e.first + e.pages - 1
KernelImage == UNION {Large(n) : n \in 0 .. KernelLarge - 1}
Reserved(map) == KernelImage \union UNION {PagesOf(e) : e \in {d \in map : d.first + d.pages <= BitmapPages}}

-----------------------------------------------------------------------------
(* vmem_map_2mb: the tables above an entry are made when they are missing;   *)
(* the kernel's first one is made at boot.                                   *)
TableKeys(s, v) ==
  (IF s = "kernel" THEN <<>> ELSE << <<v \div (Fanout * Fanout)>> >>)
  \o << <<v \div (Fanout * Fanout), (v \div Fanout) % Fanout>> >>

HalfTaken == \E g \in Growers : growth[g].step = "reserve"
MakeTable(m, s, key) ==
  IF key \in DOMAIN m.tables[s] THEN m
  ELSE LET page == FirstFree(m)
       IN [Take(m, {page}) EXCEPT !.tables[s] = [k \in DOMAIN @ \union {key} |-> IF k = key THEN page ELSE @[k]],
                                  !.mishap = @ \/ page = 0 \/ HalfTaken]
Map2mb(m, s, v, large) ==
  [FoldLeft(LAMBDA acc, key : MakeTable(acc, s, key), m, TableKeys(s, v)) EXCEPT
     !.mapped[s] = [w \in DOMAIN @ \union {v} |-> IF w = v THEN large ELSE @[w]]]

(* vmem_smart_alloc_pages and the struct of heap_init, when nothing comes in *)
(* between: pages below the first one that begins a large page are lost.     *)
MapFresh(m, s, v) ==
  LET whole == {i \in FreePages(m) : AlignedLarge(i)}
  IN IF whole = {} THEN [ok |-> FALSE, mem |-> Take(m, FreePages(m))]
     ELSE LET page == Min(whole)
              m1 == Take(m, {i \in FreePages(m) : i <= page} \union Rest(page))
          IN [ok |-> TRUE, mem |-> Map2mb(m1, s, v, page \div PagesPerLarge)]

(* heap_init: an arena, which may stay empty, above the page of the structs. *)
HeapAt(s) == IF s = "kernel" THEN 0 ELSE Fanout
HeapInit(m, s, size) ==
  LET more(acc, k) ==
        LET fresh == MapFresh(acc.mem, s, HeapAt(s) + k)
        IN [mem |-> fresh.mem, pages |-> IF fresh.ok THEN k ELSE acc.pages]
      arena == FoldLeft(more, [mem |-> m, pages |-> 0], [k \in 1 .. size |-> k])
      structs == MapFresh(arena.mem, s, HeapAt(s))
  IN [arena EXCEPT !.mem = structs.mem] @@ [ok |-> structs.ok]

-----------------------------------------------------------------------------
(* heap_expand.  On the kernel's heap, which has no lock, another thread may *)
(* run between its steps, and expand the heap as well.                      *)
GrowStarts(g) ==
  /\ growth[g] = Idle /\ pcount.growths < MaxGrowths
  /\ growth' = [growth EXCEPT ![g] = [step |-> "get", page |-> 0, end |-> HeapAt("kernel") + 1 + heapPages["kernel"]]]
  /\ pcount' = [pcount EXCEPT !.growths = @ + 1]
  /\ UNCHANGED <<pmem, heapPages>>

GrowGets(g) ==
  /\ growth[g].step = "get"
  /\ LET page == FirstFree(pmem)
     IN IF page = 0 THEN growth' = [growth EXCEPT ![g] = Idle] /\ UNCHANGED pmem
        ELSE /\ pmem' = Take(pmem, {page})
             /\ growth' = IF AlignedLarge(page) THEN [growth EXCEPT ![g].step = "reserve", ![g].page = page]
                          ELSE growth
  /\ UNCHANGED <<heapPages, pcount>>

GrowReserves(g) ==
  /\ growth[g].step = "reserve"
  /\ pmem' = Take(pmem, Rest(growth[g].page))
  /\ growth' = [growth EXCEPT ![g].step = "map"]
  /\ UNCHANGED <<heapPages, pcount>>

(* Mutant: the end of the heap is left where it was. *)
EndKept(pages) == pages

EndAfter(pages) == pages + 1

GrowMaps(g) ==
  /\ growth[g].step = "map"
  /\ pmem' = [Map2mb(pmem, "kernel", growth[g].end, growth[g].page \div PagesPerLarge) EXCEPT
                !.mishap = @ \/ growth[g].end \in DOMAIN pmem.mapped["kernel"]]
  /\ heapPages' = [heapPages EXCEPT !["kernel"] = EndAfter(@)]
  /\ growth' = [growth EXCEPT ![g] = Idle]
  /\ UNCHANGED pcount

(* syscall_heap_alloc, on the heap of a process.                             *)
SyscallGrows(p) ==
  /\ procs[p].state = "live" /\ pcount.growths < MaxGrowths
  /\ LET fresh == MapFresh(pmem, p, HeapAt(p) + 1 + heapPages[p])
     IN /\ pmem' = fresh.mem
        /\ heapPages' = IF fresh.ok THEN [heapPages EXCEPT ![p] = EndAfter(@)] ELSE heapPages
  /\ pcount' = [pcount EXCEPT !.growths = @ + 1]
  /\ UNCHANGED growth

-----------------------------------------------------------------------------
(* elf.cpp.  -1 is what min_address starts from.                             *)
Loads(image) == {i \in DOMAIN image : image[i].load}
MinAddress(image) == IF Loads(image) = {} THEN -1 ELSE Min({image[i].address : i \in Loads(image)})
MaxAddress(image) == Max({0} \union {image[i].address + image[i].memorySize : i \in Loads(image)})
SizeOf(image) == MaxAddress(image) - MinAddress(image)
LargePages(size) == (size + PagesPerLarge - 1) \div PagesPerLarge

Zero == -1
Junk == -2
LoadSections(image) ==
  LET write(buf, h) ==
        IF ~h.load THEN buf
        ELSE [c \in DOMAIN buf |->
                LET at == c - (h.address - MinAddress(image))
                IN IF at \in 0 .. h.fileSize - 1 THEN h.offset + at
                   ELSE IF at \in h.fileSize .. h.memorySize - 1 THEN Zero ELSE buf[c]]
  IN FoldLeft(write, [c \in 0 .. LargePages(SizeOf(image)) * PagesPerLarge - 1 |-> Junk], image)

-----------------------------------------------------------------------------
(* create_process: first what other threads may interrupt, two blocks of the *)
(* kernel heap, then the new address space with interrupts off.              *)
Arena == {v \in DOMAIN pmem.mapped["kernel"] : v > HeapAt("kernel")}
Block(first, n) == first .. first + n - 1
StackAt == 1

CreateLoads(p, image, first, stack) ==
  /\ procs[p] = NoProcess /\ pcount.created < MaxCreated
  /\ SizeOf(image) # 0
  /\ LET own == Block(first, LargePages(SizeOf(image))) \union {stack}
     IN /\ stack \notin Block(first, LargePages(SizeOf(image))) /\ own \subseteq Arena \ blocks
        /\ blocks' = blocks \union own
  /\ procs' = [procs EXCEPT ![p] = [state |-> "loaded", image |-> image, first |-> first, stack |-> stack,
                                    bytes |-> LoadSections(image)]]
  /\ pcount' = [pcount EXCEPT !.created = @ + 1]
  /\ UNCHANGED <<pmem, growth, heapPages, strayed>>

Physical(v) == pmem.mapped["kernel"][v]

(* The loop counts bytes and multiplies them again: only the first page of a *)
(* program goes where it belongs.                                            *)
MapProgram(m, p, f) ==
  LET map(acc, k) == Map2mb(acc, p, MinAddress(f.image) \div PagesPerLarge + k * PagesPerLarge,
                            Physical(f.first) + k * PagesPerLarge)
  IN FoldLeft(map, m, [k \in 1 .. LargePages(SizeOf(f.image)) |-> k - 1])

CreateMaps(p) ==
  /\ procs[p].state = "loaded"
  /\ LET f == procs[p]
         heap == HeapInit(MapProgram(pmem, p, f), p, 1)
     IN IF ~AlignedLarge(MinAddress(f.image)) THEN strayed' = TRUE /\ UNCHANGED <<pmem, heapPages, procs>>
        ELSE IF ~heap.ok THEN strayed' = TRUE /\ pmem' = heap.mem /\ UNCHANGED <<heapPages, procs>>
        ELSE /\ pmem' = Map2mb(heap.mem, p, StackAt, Physical(f.stack))
             /\ heapPages' = [heapPages EXCEPT ![p] = heap.pages]
             /\ procs' = [procs EXCEPT ![p].state = "live"]
             /\ UNCHANGED strayed
  /\ UNCHANGED <<growth, blocks, pcount>>

(* vthread_cleanup: delete_process and the thread's kernel view of the stack.*)
(* The page tables and the pages of the process's heap are not given back.   *)
DeleteProcess(p) ==
  /\ procs[p].state = "live"
  /\ blocks' = blocks \ (Block(procs[p].first, LargePages(SizeOf(procs[p].image))) \union {procs[p].stack})
  /\ pmem' = [pmem EXCEPT !.tables[p] = <<>>, !.mapped[p] = <<>>]
  /\ heapPages' = [heapPages EXCEPT ![p] = 0]
  /\ procs' = [procs EXCEPT ![p] = NoProcess]
  /\ UNCHANGED <<growth, strayed, pcount>>

ProcessInit ==
  /\ firmware \in FirmwareMaps
  /\ growth = [g \in Growers |-> Idle]
  /\ LET boot == HeapInit([taken |-> Reserved(firmware), mishap |-> FALSE,
                           tables |-> [s \in AddressSpaces |-> <<>>], mapped |-> [s \in AddressSpaces |-> <<>>]], "kernel", HeapStart)
     IN /\ boot.ok /\ pmem = boot.mem
        /\ heapPages = [s \in AddressSpaces |-> IF s = "kernel" THEN boot.pages ELSE 0]
  /\ blocks = {} /\ procs = [p \in Processes |-> NoProcess] /\ strayed = FALSE
  /\ pcount = [growths |-> 0, created |-> 0]

ProcessNext ==
  /\ ~strayed /\ UNCHANGED firmware
  /\ \/ /\ \/ \E g \in Growers : GrowStarts(g) \/ GrowGets(g) \/ GrowReserves(g) \/ GrowMaps(g)
           \/ \E p \in Processes : SyscallGrows(p)
        /\ UNCHANGED <<blocks, procs, strayed>>
     \/ \E p \in Processes : \/ \E i \in Images, first, stack \in Arena : CreateLoads(p, i, first, stack)
                             \/ CreateMaps(p)
                             \/ DeleteProcess(p)

-----------------------------------------------------------------------------
(* Pages in use: those of the large pages of a heap, and one for each table. *)
HeapUses == UNION {{<<s, v>> : v \in {w \in DOMAIN pmem.mapped[s] : w \in HeapAt(s) .. HeapAt(s) + heapPages[s]}} :
                   s \in AddressSpaces}
TableUses == UNION {{<<s, key>> : key \in DOMAIN pmem.tables[s]} : s \in AddressSpaces}
UsedPages == UNION {Large(pmem.mapped[u[1]][u[2]]) : u \in HeapUses} \union {pmem.tables[u[1]][u[2]] : u \in TableUses}

(* The firmware keeps its pages, except those of an entry that ends beyond   *)
(* the bitmap, and what lies behind the first page of a large page.         *)
KnownTo(e) == e.first + e.pages <= BitmapPages
FirstOfLarge(page) == page - (page % PagesPerLarge)
FirmwareIsLeft(used) ==
  \A e \in firmware : \A page \in used \intersect PagesOf(e) :
    KnownTo(e) => \A d \in firmware : KnownTo(d) => FirstOfLarge(page) \notin PagesOf(d)

(* What a process finds at an address, by way of its page table.             *)
Finds(p, address, cell) ==
  LET v == address \div PagesPerLarge
      f == procs[p]
  IN v \in DOMAIN pmem.mapped[p] /\
     \E j \in 0 .. LargePages(SizeOf(f.image)) - 1 :
       /\ Physical(f.first + j) = pmem.mapped[p][v]
       /\ f.bytes[j * PagesPerLarge + (address % PagesPerLarge)] = cell
Alive(s) == s # "kernel" => procs[s].state = "live"
LinkedApart(image) == LET v == MinAddress(image) \div PagesPerLarge IN v # StackAt /\ v < Fanout

(* A process that has been created finds, at every address of the first large*)
(* page its program was linked for, the byte of its file or the zero that    *)
(* belongs there, unless it was linked over its stack or its heap; every     *)
(* address of a heap leads to a page; no page is used twice, by a heap, a    *)
(* table or the kernel's image, and the firmware keeps its own; and pages    *)
(* beyond the memory are handed out only when there are no others.  Excused: *)
(* a table was made when no page was left, or while an expansion held the    *)
(* first of its pages only, and two expansions of the kernel heap that have  *)
(* read the same end of it.                                                 *)
ProgramIsLaidOut ==
  ~pmem.mishap =>
    /\ \A p \in Processes : procs[p].state = "live" /\ LinkedApart(procs[p].image) =>
         LET image == procs[p].image
         IN \A i \in Loads(image) : \A k \in 0 .. image[i].memorySize - 1 :
              image[i].address + k < MinAddress(image) + PagesPerLarge =>
                Finds(p, image[i].address + k, IF k < image[i].fileSize THEN image[i].offset + k ELSE Zero)
    /\ \A s \in AddressSpaces : Alive(s) => HeapAt(s) .. HeapAt(s) + heapPages[s] \subseteq DOMAIN pmem.mapped[s]
    /\ LET used == UsedPages
       IN /\ Cardinality(used) = Cardinality(HeapUses) * PagesPerLarge + Cardinality(TableUses)
          /\ used \intersect KernelImage = {} /\ FirmwareIsLeft(used)
          /\ (\E page \in used : page >= RamPages) => 1 .. RamPages - 1 \subseteq pmem.taken

=============================================================================
