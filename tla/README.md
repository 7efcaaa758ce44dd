# Verification of the VirtualReflectionsOS kernel

VirtualReflectionsOS is a single-processor amd64 hobby kernel in C++ with its own
threads, heap, drivers, network stack, file systems and window manager. This directory
holds TLA+ models of its parts, the TLC configurations that check them on small
instances, and TLAPS proofs of the properties that matter most. Paths below are
relative to the repository root; `kernel/` is short for `src/kernel/`.

    tlc -config Heap.cfg MCHeap          # one model-checking run
    tlapm Heap_proofs.tla                # the proofs about one component

`PROJECT.json` lists the runs, the mutants that show each property can fail, the source
lines every definition stands for, the hazards of the code and the theorems.

## 1. The system

### Components, their state and operations

| component | state | operations | what makes it correct |
|---|---|---|---|
| scheduler (`virtual_thread.cpp`, `drivers/pit.cpp`) | `g_threads` (a map in an array), `vt_state`, deadlines, current thread | create, yield, sleep, terminate, wait, the timer interrupt's scan | never frees the running stack; a stopped thread never runs; sleeps last; no starvation; stopped threads are reaped |
| crash handling (`crash_handler.cpp`, `amd64_entry.cpp`) | depth of interrupts, fatal screen | crash of a thread, of the main thread | only the crashing thread dies, and its locks come free |
| mutex, spinlock (`utils/mutex.cpp`) | `locked`, owner, the array of held mutexes, per-thread interrupt flag and depth | lock, unlock, release of a dead thread's locks | exclusion, only owners unlock, interrupts come back exactly once |
| ring buffer (`shared/include/std/ring_buffer.hpp`) | `head`, `tail`, slots | `insert` in an interrupt, `get` in a thread | a bounded FIFO; no torn entry |
| heaps (`memory/heap.cpp`) | array of block structs threaded into a list | `heap_alloc`, `heap_expand`, `heap_free`, `dma_heap_alloc`, `dma_heap_free` | allocations disjoint, nothing leaks, the list covers the heap, calls return |
| page frames, page tables (`memory/paging.cpp`, `memory/vmem.cpp`) | page bitmap, mmio bitmap, tables | get, reserve, map 2 MB, map remote | a frame has one owner |
| processes, system calls (`process.cpp`, `elf.cpp`, `syscall_handler.cpp`) | process list, page table in use | create, destroy, window and file calls | a program finds its bytes where it was linked; its pages are nobody else's |
| TCP and sockets (`network/tcp.cpp`, `network/socket.cpp`) | control blocks, sockets | connect on first send, send, receive | in-order delivery, no use of a deleted control block, senders wake |
| ARP, IP, UDP, ICMP | ARP cache | send, receive | what is asked for is resolved; checksums verify |
| DHCP, DNS (`network/network_manager.cpp`) | one session, the record cache | discover, offer, request, ack; query, answer | the address configured is one that was acknowledged, an answer belongs to its name |
| network interfaces, e1000, rtl8168 (`network/nidm.cpp`) | two packet rings, descriptor rings | the nic thread, receive interrupt | frames keep their order and reach the stack |
| NVMe, AHCI, IDE, block devices | submission and completion queues, command slots, DMA blocks | read, identify (nothing writes) | an answer goes to its command; DMA stays in memory that is held; calls end |
| VFS, FAT32, ISO 9660 | mounts, file handles | open, read, list, close | a handle stays with its file, a volume is read as it was written |
| keyboard, mouse (`drivers/ps2`) | packet buffer, key states, rings | interrupts, polling threads | packets resynchronise, keys mean what was typed |
| terminal (`kterminal.cpp`) | the screen, the cursor, the input line | a key, a command and its output | the screen shows the line, the command is the line |
| window manager (`gui/display_driver.cpp`) | window list, drag and focus flags, event queues | create, resize, mouse events, render loop | one drag at a time, and drags end |
| Minesweeper (`src/minesweeper`) | the board | clicks | the rules of the game |
| graphics, hardware discovery, strings, other programs | | | pixels, tables read once at boot |

### How they interact

- The **timer interrupt** (or `int 129` of a yield) calls `vthread_schedule`, which walks
  `g_threads`, reaping stopped threads and waking sleepers, and switches. Everything
  below runs in threads and is preemptible unless interrupts are masked.
- **Masking**: a kernel mutex masks interrupts while it is held, a spinlock too; inside a
  mutex the CPU changes hands only when a nested lock is contended and yields.
- **Interrupt handlers** of keyboard, mouse and network cards put entries into ring
  buffers; critical kernel threads drain them (nic, ps2 mouse, ps2 keyboard) and call
  event hooks or `ethernet_receive`, which runs the network stack on the nic thread.
- **Sending threads** walk down socket → TCP/UDP → IP → Ethernet and end in the outgoing
  ring of the interface, which the nic thread empties into the card.
- **malloc** is called from all of them, holds no lock, and reaches `pmem_get_page`, which does.
- **Crashes** release the crashing thread's mutexes and stop it; a thread stopped by
  handle keeps its mutexes locked.

### What is hard

Preemption between any two instructions of the thread table, the heap and the lists;
removals that shift arrays under an iterator; flags saved and restored across nesting;
interrupts that meet a half-done `get`; locks of threads that die; the round robin while
positions move; a heap that recurses when it is exhausted; on the network and the disks,
lost, late and reordered answers. `PROJECT.json` lists the hazards line by line.

## 2. Plan

1. **VThread** - the scheduler, because everything else runs on it. *Done, four theorems.*
2. **KMutex** - the locks over it. *Done, four theorems.*
3. **RingBuffer** implementing **BoundedFifo** - the channel between interrupts and threads.
   *Done, two theorems, one of them the refinement.*
4. **Heap** - the kernel's and the DMA heap. *Done, three theorems.*
5. **Tcp** implementing **ByteStream** - a socket between a sending thread, the nic thread and
   a network that loses and reorders. *Done, five theorems, one of them the refinement.*
6. **Nic**, **NetConfig**, **NetCodecs**, composed by MCNetwork - the cards with their rings and the
   nic thread; ARP, DHCP and DNS; names, options, checksums. *Done, three theorems about NetConfig
   and one about Nic.*
7. **Disk** and **Files**, composed by MCStorage - three kinds of controller; directories, files, paths,
   partitions and the table of open files. *Done, two theorems about Disk.*
8. **Mouse**, **Windows**, **Console**, **Minesweeper** and **Process**, composed by MCDesktop - input,
   the window manager, the terminal, a game; pages, page tables and processes. *Done, one theorem about Windows and one
   about Mouse.*

Runs stay few: each composition runs its parts side by side, one per behaviour, plus one run per
disagreement with the documentation.

## 3. The modules

### VThread

Models `kernel/src/virtual_thread.cpp`, the tick of `drivers/pit.cpp`, and the part of
`crash_handler.cpp` that stops threads. State: `table` is `g_threads` in array order with
its `capacity`, `state`/`critical`/`sleepLeft` the fields of the record, `current`, the
scheduler's `cursor`, and per thread a `pc` and the `local` of the call by handle it is in.
`cpu` is `"thread"`, `"scan"` (inside `vthread_schedule`, one loop turn per action, since
the interrupt gate keeps everybody else out), `"fatal"` or `"hung"`.

- `Tick` is the timer interrupt, possible between any two actions of a thread.
- `ScanRunning`, `ScanStarting`, `ScanWakes`, `ScanReaps`, ... are the cases of the loop;
  `NextPosition` is `vthread_get_next_thead`.
- `CountLoad`/`CountStore`/`Add`/`AddFails` are `vthread_create`; the counter's increment is two steps.
- `Call`, the `Find*` and `Write*` actions are `vthread_terminate(handle)`, `vthread_set_critical` and
  `vthread_wait_for_close`: an iterator over an array that may shift or be reallocated. A search that ran off the array still
  has to be compared with `end()`, which is read later (`CompareEnds`, `CompareFinds`): a removal or an insertion in
  between makes it look like a hit.
- `Crash` covers a STOPPING thread that crashes again: it spins with interrupts disabled
  (`hung`), as `crash_handler.cpp:93-97` does.

Deadlines are kept as remaining ticks, floored at 0. The branch that would check a
thread's stack is unreachable in the code and has no action.

### KMutex

Models `utils/mutex.cpp` and the release of a dying thread's mutexes. The words of the
mutex, its owner, `global_mutex_array` slot by slot, the thread's depth and saved flag are
variables; what lies between two points at which the CPU can change hands is one action.
`MutexLock` masks and counts, `Acquire` or `Contend` is the exchange, `MutexUnlock` gives
the flags back *before* `RemoveFromArray` and `Release`, which is the window the properties
are about. `Kill` is `vthread_terminate(handle)` by another thread. Mutexes are nested in
one order, the one of the call graph (event → device → page bitmap), and unlocked in the
opposite one because every user is a `mutex_lock_guard` or a straight pair of calls.
The header says the mutex works "w/o disabling interrupts" (`utils/mutex.hpp:3-4`), but `mutex_lock` masks them before it touches the
word (`mutex.cpp:50-51`). The model follows the code, and `HeldWithInterruptsOn` is the header's sentence, which the run `mutex_masks` refutes.

### RingBuffer and BoundedFifo

`RingBuffer` is `std::ring_buffer` between one interrupt (`Insert`, one step) and one thread
(`GetTests`, `GetCopiesFirst`, `GetCopiesSecond`, `GetAdvances`). `BoundedFifo` is what its users
rely on: a queue of `N - 1` entries that drops a new entry only when it is full. The refinement
mapping reads the queue off the indices (`Contents`). `MCSharing` runs KMutex and RingBuffer side by side.

### Heap

Models `memory/heap.cpp`: the block structs as functions on `Slots` (`start`, `size`, `next`,
`free`, `used`), the searches of `heap_filter_blocks` (`Scan`), the exact fit, the split, the expansion, the
DMA split with its filler, the search of `heap_free` and its one pass of merging, one block
per step. `kind` selects the kernel's heap or a driver's. Callers are preemptible between
search and split and in every turn of the loops. `held` is a history of what callers own.
Requests of size 0 are left out. Physical memory is a number of large pages, so running out of it
happens: `heap_expand` then succeeds with nothing and the recursion goes on until the structs are used up.

### Tcp and ByteStream

Models one TCP socket: `socket_send` and `tcp_send` on a thread, `tcp_receive` on the nic thread,
and of the layers below `ip_send`, which fails and asks for the address while the next hop is unknown.
`socketData`, `tcb`, `created` and `freed` are the pointer, the control blocks (numbered by connection)
and which of them were made and deleted; `sender` and `nic` say where the two threads are. A call of the
sender is cut where another thread can notice: `SocketSend` creates the block, `TcpSend` loads it and
looks at its state, `SynSend`/`DataSend` put the segment out, `SynCount`/`DataCount` move
`snd_nxt` on, and `Wait` polls. `tcp_receive` begins with one action per case (`ReceiveFin`, `ReceiveRst`,
`ReceiveSynAck`, `ReceiveData`, `ReceiveOutOfOrder`). What a preempting sender can see half done goes on in steps of its own: a byte is counted
(`ReceiveData`), heard (`Hear`) and acknowledged (`AckData`); a FIN is counted (`ReceiveFin`), acknowledged (`AckFin`), and the
block deleted (`Close`); and the null store after `delete` is `Clear`. In between the sender may hold a deleted block: either its contents are still there and
the steps go on with them, or `TouchesDead` lets it find anything.

The peer and the network are not this repository's code. Whatever was sent may arrive at any later
time, again, or never: `sent` only grows, and `ToKernel` is computed from what the peer has done. That
covers the outgoing ring as well, which drops a packet when it is full. The peer numbers its bytes
from `Irs` on, answers or refuses a SYN, writes, closes and resets.

A byte stands for the payload of a segment. The numbers in use are assumed to differ
(`NumbersAssumption`), between two connections of a socket too: that is what initial sequence numbers
are for, and with it a late segment is recognisable at all. Not in the model: the checksum, malformed headers,
the search for the socket by port, and the entry `ip_receive` makes in the ARP table, which comes too late to matter
(a segment of the peer answers one that was sent, so the address is known).

`ByteStream` is what the listener relies on: of each connection the bytes written, in order,
and nothing of an old connection after one of a new.

### Nic

Models `network/nidm.cpp`, `drivers/network/e1000.cpp` and `rtl8168.cpp`, `ethernet_send`, and the
registration in `main.cpp`. `kind` says which card it is. `rx`, `rxCard`, `rxNext` and `rdt` are the receive
descriptors with the two positions, `tx`, `txCard`, `txNext` the transmit descriptors, `incoming` and
`outBuf`/`outHead`/`outTail` the two packet rings. A frame is a number. The boot thread
(`SetsUpRings` ... `Registers`) overlaps with everything else. The interrupt handler is cut frame by frame
(`IrqEnters`, `IrqTakes`, `IrqEnds`): no thread runs meanwhile, but the card does. `Dispatch` and `AdvanceHead` are the two steps
of inserting into the outgoing ring. The nic thread looks at one ring or the other (`NicReceives`, `NicSends`,
`NicYields`), may answer while it receives, and hands frames to the card (`E1000Sends`, `RtlSends`, `RtlMovesOn`).
The card and the cable are external. `e1000_enable_interrupts` reads ICR and so clears it (`Unmasks`): a frame that came before is found only
with the next one. A frame the handler takes before the card is registered has no interface (`orphans`), and the nic thread halts when `ip_receive` or
`arp_receive` follows the null pointer.

### NetConfig and NetCodecs

`NetConfig` models `network_manager.cpp`, the parts of `dhcp.cpp` and `dns.cpp` that keep state, and what
lies under them: the ARP table, `route_lookup`, `udp_send`, the answer to a ping. An address is a host of a network;
`sent` is what left the machine, and what is sent may be answered late, repeatedly, or never. `Replies` are the DHCP answers of several servers,
some meant for other machines, some lacking an option. An acknowledgement is five unlocked stores, each a step (`ReceiveAck` the mask, then `StoreGateway`,
`StoreIp`, `StoreActive`, `StoreRemote`), with senders reading in between. A DNS query chooses its interface (`Route`), which reads address and mask, and goes
out (`SendQuery`), which reads them again with the gateway; then the thread looks (`LookAgain`, `GiveUp`,
`ReadRecord`) against `ReceiveAnswer` on the nic thread. `moved` notes that the array of records
was reallocated between finding a record and reading it. The ARP table is a set whose insertions are one step: `arp.cpp` only ever adds to it and
stores the same hardware address again for a host it has. A look-up that runs into a half-made insertion, which the unlocked map allows, is left out.

`NetCodecs` holds the pure parts as operators on bytes: host names with compression pointers, the option area of DHCP, and the checksums, with what
each promises another (`NameSurvives`, `PacketIsRead`, `OptionIsFound`, `OptionIsInField`, `ChecksumVerifies`). The encoder writes before it looks at the length of the
whole (`Stored`, then `Encodes`). The reader of options goes through the field of `sizeof(options)` bytes whatever was received: behind the bytes
received it reads `stale` ones, which may be anything.

### Disk

Models `drivers/storage/nvme.cpp`, `ahci.cpp`, `ide.cpp` and `block_device_read_sized`. `controller` says which driver;
threads read runs of blocks, `boot` identifies the drives first. NVMe has its two queues with tails, heads
and phases (`queue`, and the controller's side `hba`), AHCI its slots per port (`port`), IDE the device register of the
channel (`selected`). `dma` and `owner` are the DMA heap's blocks and the mutexes. `dma_heap_alloc` and `dma_heap_free` of
`nvme_read` run outside `submit_mutex` on a list nobody locks: each is a span of steps (`NvmeBegins` to `NvmeAllocates`, `NvmeCopies` to `NvmeFrees`), and once two threads have
been inside together (`mishaps.torn`) a search returns any block, taken or not, or none, or never ends (`NvmeHangs`). A dry heap returns `nullptr`, which `nvme_read` uses:
the controller gets the physical address 0, and the copy out of it ends the thread. AHCI allocates with its port's mutex held, which masks
interrupts, and so in one step. A block of data is named by where it comes from. The
controllers are external: they execute in order, may fail (`MaxErrors`) and NVMe may be late (`MaxSlow`). An
AHCI port stops on an error, as the specification of that controller has it. An ATA drive behind IDE refuses every
read in the code, so the channel's drives are ATAPI ones.

### Files

Five parts. Directories of FAT32 with their long-name entries, the two dot entries a directory below the root begins with and the label of the volume in the root, the cluster chain of a file, directories of ISO 9660, paths and
mount points, and the partition table with the choice of a file system are pure functions of what is on the
volume. Layouts are the formats' own, scaled down (two characters in a long-name entry, two bytes in a cluster).
The fifth is the state machine of `vfs.cpp`'s table of open files: `last_fd++` is a load and a store, insertion and removal shift
the array, and a read holds its place in it.

### Mouse, Console

`Mouse` is the interrupt handler of `mouse.cpp`: bytes of four-byte packets, of which some are lost. Each byte carries the packet it came
from, which only the properties see. A packet's fourth byte is the wheel's and may look like a first one. `Console` goes from a key to a command: the key states with prefixes,
the queue, the keyboard thread that takes a state (`TakePacket`) and, interrupts being on in between, hands it to the handlers (`FireEvent`, where the mutex of
`fire_event` masks them while the modifiers are read), the translation of `generic_keyboard.cpp`, and the terminal with its screen cell by cell. `intent` is what the one who types means. `ps2_read` does not wait
for a byte; that the second one of an extended key is ready is assumed, and so is that the terminal alone
writes on the screen.

### Windows, Minesweeper

`Windows` is what decides which window gets the mouse: `kdc_mouse_handler` turns a state of the mouse into up to three calls, each an action of
its own, and programs create, resize and poll windows in between. Cursor coordinates are `u64`, a window's are `int`, and comparing the
two wraps (`U64`). `Minesweeper` is the game of `src/minesweeper`, with presses whose release another window got, marks that are taken off again, and a new
game that finds no memory (`crashed`: the answer of `game_board_create` is ignored, and the process ends at a null pointer). In this commit
`kernel_main` does not start the window manager (`main.cpp:730` is commented out), so both
are modelled as they would run.

### Process

From the page bitmap to a running program. `pmem` holds the bitmap, the tables made and what is mapped, per address space. An entry of the firmware is
reserved page by page, unless it ends beyond the bitmap: `pmem_init` passes that one over whole. `heap_expand` of the kernel heap reads the heap's end (`GrowStarts`) and goes on with the
three steps of `vmem_smart_alloc_pages` (`GrowGets`, `GrowReserves`, `GrowMaps`); two threads (`Growers`) may do so at a time, and interleave with
each other and with `create_process`. The heap of a process grows inside a system call, with interrupts off, and so in one step (`SyscallGrows`). `create_process` loads the program (`CreateLoads`) and then, with interrupts off, lays out the new
address space (`CreateMaps`). Addresses count small pages, four of which make a large one. The model stops where
creation has failed with the new address space loaded and interrupts off (`strayed`).

## 4. The runs

| run | what it asks | bounds and why they are enough |
|---|---|---|
| `vthread` | does the scheduler keep its promises under every interleaving? | main thread and two others, sleep of one tick, one call by handle: two removable threads suffice for a removal to shift another entry and for handles to collide; one tick separates early from late |
| `vthread_terminate` | does `vthread_terminate(handle)` stop the thread it names? **No** | the same, no sleep |
| `vthread_wait` | does `vthread_wait_for_close` wait until the thread is removed? **No** | the same, no sleep |
| `sharing` | are the locks exclusive, owned, and the flags right, with crashes and kills; is the ring a bounded FIFO under interrupts? | two threads, three nested mutexes and an array with as many slots: inner contention under two outer locks, releases out of order; four slots, three distinguishable entries: the indices wrap and the ring fills |
| `mutex_masks` | is the mutex held with interrupts enabled, as its header has it? **No** | the same |
| `heap` | with one call at a time: disjoint, complete, leak-free, terminating? | four structs, five units, two more large pages: splits, reuse of structs, merges, expansion, exhaustion; five structs and six units were checked too (677,565 states) |
| `tcp` | does a socket deliver a byte stream, and do handshakes end? | two connections, two calls of `socket_send`, two bytes from the peer, sixteen numbers with both sides wrapping: late segments of the first connection meet the second, bytes overtake each other; three calls were checked too (1,374,675 states) |
| `network` | do frames keep their order and reach the stack; is the address an acknowledged one, an answer for its name; do the codecs agree? | two descriptors each way and two slots per ring, three frames each way: all of them fill and wrap; two servers, three names, one look of a waiting query; packets of 4 bytes and names of 5 with labels of 3 and buffers of 5, options in a field of 8 with two stale bytes repeated behind them: every limit is met |
| `storage` | does a read return what was asked, DMA stay in place, every call end; do handles keep their file, do volumes read back? | two drives, two threads, two blocks a call, queues of two and one error and one late command: the queues wrap and each mishap meets the other thread; two threads with four descriptors; directories of up to four files of which two may be deleted, behind nothing, the dots, a label or another file, and five slots a cluster; paths of five characters, alone and behind the prefix of a logical mount |
| `desktop` | does the mouse resynchronise, do drags end, is the line what was typed, is a program laid out, is the game fair? | four packets of which two bytes get lost, with first bytes in all three other places; two windows, three states of the mouse; three strokes on a queue of two with a screen of 2 x 9; 16 large pages of which the memory fills 13 and a half, with the firmware's entry in one, in most of them, or past the bitmap, which is a machine without one, two processes and two threads that expand the heap; 3 x 2 tiles with two bombs, two marks, and clicks on, beside and around the board |
| `heap_race` | are allocations disjoint when calls overlap? **No** | as above with two callers |
| `heap_dma_leak` | is what is freed on a DMA heap free? **No** | as above |

`vthread`, `sharing` and `tcp` do not check for deadlock: the fatal screen and the crash loop
really stop the machine, and a sender may wait for a peer that never answers. `heap` does.
`network`, `storage` and `desktop` end when their bounds are used up, and do not check either. In these three and in `sharing`, `scene` picks one part, and the others
stay as they begin: the parts share no variable, and so every behaviour of each is there without the product of them all.
The board with four bombs on 4 x 2 tiles, where a tile can have nothing but bombs around, was checked by hand (266,424 states).

### Properties

`TypeOK` is a module's type invariant; of VThread, Heap and Tcp it is checked and proved, of KMutex and
RingBuffer proved as part of the inductive invariant. The others:

- `CurrentNeverFreed`: the thread whose stack the CPU is on is in the table.
- `StoppedIsFinal`: a stopped thread that is not running leaves that state only by removal.
- `SleepsLongEnough`: `vthread_sleep` never returns early.
- `EveryThreadRuns`, `StoppedIsReaped`: no starvation, and stopped threads disappear.
- `MutualExclusion`, `UnlockedByItsOwner`, `MaskedExactlyInside`: the locks exclude, `mutex_unlock`'s
  trap is unreachable, and a thread has interrupts masked exactly while it should.
- `NoMutexOrphaned`: a crash leaves no lock behind. `InnermostComesFree`: the mutex every allocation
  needs is released again, unless a thread was killed by handle. Outer mutexes have no such
  promise: `mutex_lock` keeps no queue, and a holder can lose the inner race for ever.
- `NeverTorn`, `IsBoundedFifo`: no mixed entry; the ring implements the queue, liveness included.
- `AllocationsApart`, `KernelHeapKeepsNothing`, `ListCoversHeap`, `CallsReturn`: see Heap.
- `SentInOrder`: bytes that `tcp_send` accepted carry consecutive numbers, none used twice, although
  acknowledgements go out between sending and counting. `AcksOnlyDelivered`: the kernel acknowledges only what its listener has
  heard - except for a FIN, which it accepts whatever is missing before it, and for the one byte between its count and the listener. `EstablishedAgreed`: an established
  connection was answered by the peer, for this SYN, and both expect the same byte. `IsByteStream`: the refinement.
  `HandshakeCompletes`: a sender that waits is released once the peer has answered, though
  an answer that overtakes the counting of the SYN is dropped.

- `FramesInOrder`: the stack hears a subsequence of what the card received, the wire carries one of what was dispatched:
  nothing repeated, overtaken or made up. `EveryFrameHandled`: what the card stored is taken out and handed on.
- `ConfiguredAsAcked`: the address is one its server granted to this machine, and gateway and server are of the
  same network, save the fields that an acknowledgement under way has not stored yet; an active interface has mask and address. `AnswerIsForTheName`: a query returns the address of the name it asked for. `WhoAsksIsAnswered`: who keeps asking gets an answer,
  although the first query after configuration is lost. `CodecsAgree`: what is encoded decodes to the same, no bytes lead a
  reader of names out of the packet, nor the reader of options out of their field.
- `ReadsWhatWasAsked`, `DmaStaysInside`, `EveryReadEnds`, `HandlesKeepTheirFile`, `VolumesReadBack`: see Disk and Files.
- `MouseResyncs`: two packets' worth of bytes after a loss the driver is in step again, and what it reports
  was sent. `LineIsWhatWasTyped`: the last line shows prompt, input and cursor, and input and commands are those typed.
  `DragEndsWithTheButton`: a window is dragged only while the button is down, and no two are. `GameIsFair`: the rules.
  `ProgramIsLaidOut`: at each address of its first large page a program finds the byte of its file or a zero, and no page is used twice.

**What the properties except.** Where the code gives less than one would want, the property says so in a named conjunct
rather than leaving the case out of the model, and each of these was seen to be needed: without it TLC finds a violation
(`FramesInOrder` with a second sending thread, `HandlesKeepTheirFile` when `FilesNext` goes on after the first overlap).

| property | excepts | because |
|---|---|---|
| `FramesInOrder` | several threads sending at once (`OneSender`) | both store into one slot of the outgoing ring; with `OneSender = FALSE` a frame goes out twice, and its buffer is freed twice |
| `AcksOnlyDelivered` | a FIN; a byte sent while the nic thread is between counting a byte and handing it over, or out of a block a FIN is closing | the number is stored before the listener is called, and a sender carries it out |
| `EveryFrameHandled` | an rtl8168 whose driver believes the link down; frames from before the interrupts were enabled with none behind them; what follows a packet without an interface | it spins on the link, also when that belief is stale; the e1000's cause is cleared; the nic thread crashes |
| `ConfiguredAsAcked` | the fields of an acknowledgement that is being stored | five stores without a lock |
| `AnswerIsForTheName` | a record read after the array moved | the pointer is used without the mutex |
| `WhoAsksIsAnswered` | a changing address, a second card | a second card without an address has the mask 0 and takes every packet that is not local |
| `ReadsWhatWasAsked`, `DmaStaysInside` | NVMe after a command outlasted the wait (`Sound`) | later completions are taken for earlier ones, freed memory is written |
| `ReadsWhatWasAsked`, `DmaStaysInside` | NVMe after two threads were in the DMA heap at a time (`Sound`) | nothing locks it: two reads may share a block |
| `DmaStaysInside` | the command of a read that got no block | `nvme_read` does not look at the pointer: physical address 0 is written |
| `ReadsWhatWasAsked` | an IDE call overtaken between selection and lock (`stolen`) | the command goes to the other drive |
| `EveryReadEnds` | an AHCI port that an error has stopped (`Stuck`); a thread that a torn or dry DMA heap has halted | nothing restarts it, and the wait has no end; the list leads into itself, or the copy faults |
| `HandlesKeepTheirFile` | what follows two calls inside the table at once | nothing locks it |
| `VolumesReadBack` | a long name behind a longer one in its cluster or split between clusters; a file whose FAT sector is unreadable; a file named like the label of the volume; a name continued in a second NM entry; two slashes in front of a path; a FAT volume without a partition table | the buffer keeps a tail; the file ends early without an error; attributes are not looked at; only the first NM entry is read; the prefix is cut by length; its boot sector passes for a table |
| `DragEndsWithTheButton` | a release out of reach of the dragged window, a resize meanwhile | the release goes to what is under the cursor |
| `LineIsWhatWasTyped` | a modifier behind queued keys or behind one just taken off the queue, a full queue, a key whose extended twin was used, a line too long | modifiers are read at delivery; keys are dropped; `is_escaped` sticks |
| `ProgramIsLaidOut` | all behind the first large page; a program linked over its stack or heap; a table made while no page was left or while an expansion held only its first page; two expansions that read one end of the kernel heap; firmware inside a large page or in an entry past the bitmap | the stride of the mapping loop; fixed addresses; page 0 serves as a table, pages are reserved untested; nothing locks the heap; `pmem_init` passes it over |
| `GameIsFair` | a lost game counted as won | the count follows the end of the game |

### Fairness

- `SF(Tick)`: the PIT keeps interrupting, and an interrupt that arrives while masked stays
  pending until the next `iretq` or `popfq` sets IF; so a tick that is enabled again and again is taken.
- `WF` on the scheduler's loop: it runs inside an interrupt with nothing to preempt it.
- KMutex assumes what VThread shows (`EveryThreadRuns`): each thread is dispatched again and
  again. It assumes strong fairness of what a dispatched thread does inside the lock functions,
  and that no critical section is left open for ever; the bodies under `mutex_lock` are bounded loops.
- RingBuffer and Heap: the draining or calling thread executes on, again by `EveryThreadRuns`.
- Tcp: the sending thread, and the nic thread in the middle of `tcp_receive` (`WF`); and `SF` on the arrival of the SYN|ACK while
  the peer waits for its acknowledgement, because a peer repeats it. Nothing else of the network is fair.
- Nic: `WF` of the interrupt handler, the nic thread, a thread inside `ethernet_send` and the card's sending. NetConfig:
  the threads, the stores of an acknowledgement, and that hosts which are asked keep answering (gateways ARP, the name server). Disk: the threads, and a
  controller that works off its commands, unless it stopped. The desktop has no liveness property.

### Findings

1. `vthread_terminate(handle)` (`virtual_thread.cpp:333`) can stop a different thread.
2. `vthread_wait_for_close` (`virtual_thread.cpp:320`) can return with the thread still there.
3. `heap_alloc` (`heap.cpp:139`) gives one address to two preempted callers; nothing locks `malloc`.
4. `dma_heap_free` (`heap.cpp:268`) can free an empty block in place of the real one.
5. `mutex_lock` (`mutex.cpp:51`) masks interrupts, and its header says it does not (`utils/mutex.hpp:3-4`): the code is what the
   other properties rest on, the comment is out of date.

The table of exceptions above is the list of what else was met, each with the line in the hazards of `PROJECT.json`.
Seen while reading, without a run: a device's full ring drops a frame without freeing it; a host name with an empty label is encoded up to that label
(`dns.cpp:26`); `delete_process` gives back neither page tables nor the pages of the heap; the stack check at `virtual_thread.cpp:267` is dead code; the
early return of `dma_heap_alloc` (`heap.cpp:208`) cannot be taken, because the donor it tests is at
least `size + align`; one pass of merging can leave two free neighbours.

## 5. The proofs

| module | theorem | says |
|---|---|---|
| `VThread_proofs` | `TypeCorrect`, `CurrentIsNeverFreed`, `StoppedStaysStopped`, `SleepsLast` | `Spec => []TypeOK`, `[]CurrentNeverFreed`, `StoppedIsFinal`, `SleepsLongEnough`, for every number of threads, ticks and calls |
| `KMutex_proofs` | `MutexesExclude`, `OnlyOwnersUnlock`, `InterruptsComeBack`, `CrashesReleaseLocks` | exclusion, ownership, the flags and no lock left by a crash for every number of threads and mutexes |
| `RingBuffer_proofs` | `CopiesAreWhole`, `RingIsFifo` | no torn entry, and every behaviour is one of `BoundedFifo!Spec`, for every size |
| `Heap_proofs` | `TypeCorrect`, `AllocationsStayApart`, `KernelHeapKeeps` | for every heap, page size and set of requests, if no two calls overlap; the last for a heap that starts with memory in it |
| `Tcp_proofs` | `TypeCorrect`, `EstablishedMeansAgreed`, `AcksAreHonest`, `BytesAreNumbered`, `SocketIsByteStream` | for every number space, choice of initial numbers, and bound on connections, calls and bytes; the last is `Spec => ByteStream!Spec` |
| `Network_proofs` | `TypeCorrect`, `AddressWasAcked`, `AnswersMatch` | of NetConfig: types, `[]ConfiguredAsAcked` and `[]AnswerIsForTheName` for any number of servers, networks, names and asking threads |
| | `FramesKeepTheirOrder` | of Nic: types and `[]FramesInOrder` for both cards and any number of descriptors, slots, threads and frames, if the threads send one at a time |
| `Disk_proofs` | `ReadsAreRight`, `WritesStayInside` | `[]ReadsWhatWasAsked` and `[]DmaStaysInside` for the three controllers and any number of drives, threads, blocks, command slots, queue entries, errors and late commands, with a DMA heap that may be torn or run dry at any time |
| `Desktop_proofs` | `DragsEnd` | of Windows: `[]DragEndsWithTheButton` for any number of windows and states of the mouse, any sizes, resizes and positions |
| | `MouseFindsItsPackets` | of Mouse: `[]MouseResyncs` for any packets, any losses and any size of the queue |

The assumptions are the named ones about the constants, and three that theorems state themselves. The heap's carry
`SoleCaller`, that there is at most one caller: without it `heap_race` shows they are false.
`KernelHeapKeeps` needs `StartSize # 0` too: before an empty first block, `heap_free` would find that one in place of
the block behind it; `heap_init` is given a constant size. `FramesKeepTheirOrder` carries `OneSender`,
that one thread at a time is inside `ethernet_send`, which nothing enforces: the table of exceptions says what happens without.
Two of the named ones say something of the outside. `EdgesAssumption`: as far as the mouse has moved things (`Reach` a packet, 256
on the real one), the edge of a window stays below the 2^64 of the cursor. `StatusAssumption`: a mouse sets bit 3 in each
first byte, as the protocol has it and the driver's test of `PS2_MOUSE_STATUS_VALID_PKT` presumes.

**The inductive invariants.**

- *VThread*: `TypeOK`; the table holds each handle once, the main thread first, and every handle whose state is
  not UNKNOWN (`TableInv`); the main thread stays RUNNING, and a call that found another thread
  points past the first slot (`MainInv`); and while the scheduler scans, the thread it was called on is in
  the table and the cursor is past it, or back at the first slot (`ScanInv`). The last is the
  argument: the loop frees every stopped thread it meets, but on its way round it meets the main
  thread before the current one, and the main thread is always RUNNING, so it stops there at the latest.
  For sleep: a thread that rests with time left is SLEEPING or being stopped, and it has run out when the thread is
  switched to (`SleepInv`).
- *KMutex*: a thread's claim on a mutex is unique and means `locked` (`ClaimInv`), the owner field
  names the holder (`OwnerInv`), the depth counts the claims (`DepthInv`), and the flag follows from
  the depth and the place (`FlagInv`). Exclusion follows from claims alone; ownership needs that
  a former holder has finished writing before the word is free. For crashes: the array has each mutex that is held
  exactly once, and room for the next, as it has a slot per mutex (`ArrayInv`); so the handler finds all of them, and a
  thread is gone only with nothing held (`GoneInv`).
- *RingBuffer*: `Size` entries lie between the indices, and in the middle of a copy the slot at `tail`
  is one of them, so `Insert` never writes there.
- *Heap*: unused structs are blank (`BlankInv`), blocks in use lie in the heap and do not overlap
  (`BlockInv`, `BlocksApart`), a link leads to the block that begins where this one ends (`LinkInv`),
  what is held is a block that is not free (`HeldInv`), and between search and split the search result still holds
  (`CallInv`) - the conjunct that fails with two callers. What is kept: blocks are empty only at the end of a heap
  that can grow no more (`EmptyInv`), so the block to be freed is the only one at its address but that one,
  and the walk of `heap_free` does not pass it (`WalkInv`); a block that is not free is held or being freed (`KeptInv`).
- *Tcp*: how far a block is by its state (`ConnInv`): nothing heard before it is established, from then on
  `rcv_nxt` is the number after what was heard; what the sender knows of the block it holds (`SenderInv`);
  that the socket holds the youngest block (`SocketInv`); and that between counting a byte and acknowledging it the nic thread
  works on the socket's block, which is still established, with the byte the listener lacks in its hand (`NicInv`): `rcv_nxt` is ahead of the listener by that one. A segment with the number expected is then, the numbers
  being apart, the byte expected of this connection, and the step is `Read` of the byte stream.
  For what is sent: at most one byte of a block is on the wire and not counted; it has the next number, and either
  the sender is about to count it or the block is deleted (`BlockInv`).
- *NetConfig*: once it is set, the session names one server of one network and the address that server leased
  (`SessionInv`), so an acknowledgement that matches the address is of the server the session holds; while that acknowledgement is stored the fields done are of its network (`StoringInv`); what was sent stays
  sent; and a record is filed under the name whose address it is (`CacheInv`).
- *Nic*: each ring is a window that begins where frames are taken out and ends where they are put in; the e1000's has
  one descriptor the card may not write, so full and empty differ (`RxInv`, `TxInv`). Along each way
  a place holds older frames than the one before it (`ReceivedInv`, `OutInv`, `DispatchedInv`), which is the order.
- *Disk*: boot and the readers do not overlap (`BootInv`), what a call has got so far is right (`GotInv`), and the blocks of
  two calls are disjoint, unless the DMA heap was torn, and held only by who is between allocating and freeing (`BlocksInv`). A command's answer is then its own for a different
  reason in each controller. NVMe: one mutex covers both queues, so each side is caught up with the
  other or one entry ahead; the phases tell the new entries from the old, and what is fetched has been written
  (`PhasesInv`, `WrittenInv`, `NvmeInv`). AHCI: a running port has only its owner's command, in its slot (`AhciInv`).
  IDE: the packet goes to the drive selected, unless that was stolen (`IdeInv`).
- *Windows* (`WmInv`): as long as nothing slipped, the point where a window was gripped is under the cursor modulo 2^64, inside the
  frame (`Gripped`): both move by the same amounts, and neither a click nor a poll moves either. At most one window is dragged, and
  the button is down or a call that says otherwise is still to be made (`Pressed`); that call then hits the frame it was gripped
  by. Windows are no further out than the mouse can have taken them (`Near`), so no edge wraps.
- *Mouse* (`MouseInv`): bytes are numbered by their place in what the mouse sent. What is buffered increases, and the last `calm` bytes,
  since which nothing was lost and no movement looked like a first byte, are next to each other up to the newest (`BufferInv`, `CalmInv`). With a packet's worth of them
  behind it, the buffer begins where a packet does: among four such bytes one is a first one, which the search for bit 3 finds.
  Reports are of packets begun before what is buffered, so they come in order (`ReportsInv`); and without losses each packet whose
  bytes have passed is reported or dropped (`CountInv`).

**Only model-checked.** Liveness (`EveryThreadRuns`, `StoppedIsReaped`, `InnermostComesFree`, `CallsReturn`, `HandshakeCompletes`,
`EveryFrameHandled`, `WhoAsksIsAnswered`, `EveryReadEnds`, the fair part of `IsBoundedFifo`), because the prover does
not handle fairness and `ENABLED`. `CodecsAgree`, `VolumesReadBack` and `GameIsFair` rest on recursive operators that a proof
cannot reach, and so does the module of `HandlesKeepTheirFile`. `ListCoversHeap` says what is reachable along
`next`, a recursive function that needs induction; so do the folds and filters in which `ProgramIsLaidOut` and
`LineIsWhatWasTyped` are stated.

## 6. What is not modelled

- Registers, fpu state, permission bits and the TLB (a thread is its record and a program counter); kernel page tables made
  after a process was created, which it does not see; allocations that fail during boot.
- The boot sequence before threads start, the set-up of devices register by register, tables of the firmware.
- What is drawn: the render loop, framebuffers, fonts, bitmaps, colours; the web browser.
- Malformed headers of packets, the search for a socket by port, the ownership of packet buffers.
- Relocations (only loadable drivers have them), the old `network_drivers` program and the empty calculator,
  `terminal.cpp`, which nothing calls, and the commands of the terminal except those that act on threads.
- Writing to disks: `ahci_write` and `ide_write` are stubs.
- The spinlock, with the flags it saves in a shared struct, and the circle of thread lock, page mutex and
  scheduler in which all could wait on each other: a hazard no property covers. Nor is
  the null buffer that a failed resize leaves to the render loop covered.
