-------------------------------- MODULE Disk --------------------------------
(***************************************************************************)
(* The storage drivers of kernel/src/drivers/storage: one NVMe controller    *)
(* with its two queues, one AHCI controller with a port per drive, or one    *)
(* IDE channel with two drives on it.  Threads read runs of blocks through   *)
(* block_device_read_sized; "boot" identifies the drives first.  A block of  *)
(* data is named by where it comes from: <<drive, lba>>, or <<drive, Identity>>. *)
(*                                                                          *)
(* The controllers are not this repository's code: a command is executed in  *)
(* the order of its queue, may fail, and may take longer than the driver     *)
(* waits.  An AHCI port that reports a task file error stops until software  *)
(* restarts it.  The DMA heap has no lock: an AHCI driver enters it behind a *)
(* mutex that masks interrupts, nvme_read does not.                         *)
(***************************************************************************)
EXTENDS Integers, Sequences, FiniteSets, Functions

CONSTANTS
  DriveOrder, \* namespaces, ports or the drives of a channel, as they are found
  Readers,    \* threads that read
  LbaCount,   \* lba_count, block_count
  MaxCount,   \* bound: blocks of one call
  Depth,      \* depth of both NVMe queues
  Slots,      \* command slots of an AHCI port
  Blocks,     \* blocks of the controller's DMA heap
  MaxReads,   \* bound: calls of a thread
  MaxErrors,  \* bound: commands that fail
  MaxSlow,    \* bound: commands that outlast the driver's patience
  Nobody, Null

Actors == Readers \union {"boot"}

ASSUME DiskAssumption ==
  /\ DriveOrder \in Seq(STRING) /\ Blocks \in SUBSET Nat /\ IsFiniteSet(Blocks)
  /\ Null \notin Blocks /\ "boot" \notin Readers /\ Nobody \notin Actors
  /\ LbaCount \in Nat /\ MaxCount \in Nat \ {0} /\ Depth \in Nat \ {0, 1}
  /\ Slots \in Nat \ {0} /\ MaxReads \in Nat /\ MaxErrors \in Nat /\ MaxSlow \in Nat

Identity == -1   \* the data that identifies a drive
Entries == 0 .. Depth - 1
Controllers == {"nvme", "ahci", "ide"}

VARIABLES
  controller,  \* what kind it is
  actor,       \* per thread: its call, and how far it is
  todo,        \* what boot still has to ask the controller
  listed,      \* the device list: what identifying the drive returned
  dma,         \* contents of the DMA blocks
  owner,       \* submit_mutex of the controller, mutex of a port
  queue,       \* nvme_queue_t: sq, sq_tail, cq, cq_head, cq_phase
  hba,         \* NVMe: the controller's side of the queues
  port,        \* AHCI: ci and TFES of a port; whether it has stopped
  selected,    \* IDE: the device register of the channel
  mishaps      \* how many commands have failed, were slow; did two calls of the DMA heap overlap

diskVars == <<controller, actor, todo, listed, dma, owner, queue, hba, port, selected, mishaps>>
deviceVars == <<queue, hba, port, selected>>

Setup == <<"ctrl", "list", "cq", "sq">>
Drives == Range(DriveOrder)
NoCompletion == [phase |-> 0, status |-> "ok"]
Idle == [pc |-> "idle", drive |-> Nobody, lba |-> 0, count |-> 0, blks |-> {}, buf |-> Null,
         q |-> "io", slot |-> 0, data |-> Null, got |-> <<>>, ok |-> FALSE, stolen |-> FALSE, calls |-> 0]

DiskInit ==
  /\ controller \in Controllers
  /\ actor = [a \in Actors |-> Idle]
  /\ todo = IF controller = "nvme" THEN Setup \o DriveOrder ELSE DriveOrder
  /\ listed = [d \in Drives |-> Null]
  /\ dma = [b \in Blocks |-> Null]
  /\ owner = [l \in Drives \union {"submit"} |-> Nobody]
  /\ queue = [q \in {"admin", "io"} |->
                [sq |-> [e \in Entries |-> Null], sqTail |-> 0,
                 cq |-> [e \in Entries |-> NoCompletion], cqHead |-> 0, cqPhase |-> 1]]
  /\ hba = [q \in {"admin", "io"} |-> [sqHead |-> 0, cqTail |-> 0, phase |-> 1]]
  /\ port = [d \in Drives |-> [ci |-> {}, cmd |-> [s \in 1 .. Slots |-> Null],
                               tfes |-> FALSE, moved |-> FALSE, stopped |-> FALSE]]
  /\ selected = Nobody
  /\ mishaps = [errors |-> 0, slow |-> 0, torn |-> FALSE]

-----------------------------------------------------------------------------
(* What the drivers share                                                   *)

Booted == todo = <<>>
Lba(a) == actor[a].lba + Len(actor[a].got)
Wanted(a) == IF a = "boot" THEN <<actor[a].drive, Identity>> ELSE <<actor[a].drive, Lba(a)>>
Held == UNION {actor[a].blks : a \in Actors}

(* Mutant: every namespace has a mutex of its own. *)
MutexOfDrive(a) == IF controller = "nvme" /\ a = "boot" THEN "submit" ELSE actor[a].drive

Mutex(a) == IF controller = "nvme" THEN "submit" ELSE actor[a].drive

MutexFree(a) == owner[Mutex(a)] = Nobody

(* Mutant: a failed command keeps the mutex. *)
UnlockedIfOk(a, ok) == IF ok THEN [owner EXCEPT ![Mutex(a)] = Nobody] ELSE owner

Unlocked(a, ok) == [owner EXCEPT ![Mutex(a)] = Nobody]
EntryAfter(e) == (e + 1) % Depth

(* Mutant: the early return of an error keeps the blocks. *)
KeptOnError(a, ok) == IF ok /\ a # "boot" THEN {} ELSE actor[a].blks

(* What the end of a read keeps: nvme_init never frees its identify buffers. *)
Kept(a, ok) == IF controller = "nvme" /\ a = "boot" THEN actor[a].blks ELSE {}

(* What the command of a thread has left in its buffer.                     *)
Buffer(a) == IF actor[a].buf \in Blocks THEN dma[actor[a].buf] ELSE Null

(* A read ends: the next block of the call, or its end.                     *)
ReadEnds(r, ok, data) ==
  LET got == IF ok THEN Append(actor[r].got, data) ELSE actor[r].got
  IN /\ actor' = [actor EXCEPT ![r].pc = IF ok /\ Len(got) < actor[r].count THEN "read" ELSE "done",
                               ![r].ok = ok, ![r].blks = Kept(r, ok), ![r].got = got,
                               ![r].buf = Null, ![r].data = Null]
     /\ UNCHANGED <<listed, todo>>

(* A step of the init ends: a drive that has answered is listed, one that   *)
(* has not is passed over; without its queues a controller is given up.     *)
InitEnds(ok, data) ==
  LET d == Head(todo)
  IN /\ actor' = [actor EXCEPT !["boot"].pc = "idle", !["boot"].blks = Kept("boot", ok)]
     /\ listed' = IF ok /\ d \in Drives THEN [listed EXCEPT ![d] = data] ELSE listed
     /\ todo' = IF ok \/ d \in Drives THEN Tail(todo) ELSE <<>>

Ended(a, ok, data) == IF a = "boot" THEN InitEnds(ok, data) ELSE ReadEnds(a, ok, data)

(* block_device_read_sized: a mounted volume reads count blocks from lba.   *)
Calls(r) ==
  /\ Booted /\ actor[r].pc \in {"idle", "done"} /\ actor[r].calls < MaxReads
  /\ \E d \in Drives, lba \in 0 .. LbaCount - 1, count \in 1 .. MaxCount :
       /\ listed[d] # Null
       /\ actor' = [actor EXCEPT ![r] = [Idle EXCEPT !.pc = "read", !.drive = d, !.lba = lba,
                                                     !.count = count, !.calls = actor[r].calls + 1]]
  /\ UNCHANGED <<controller, todo, listed, dma, owner, deviceVars, mishaps>>

(* The driver's own init asks every drive in turn who it is.                *)
Identifies ==
  /\ ~Booted /\ actor["boot"].pc = "idle"
  /\ actor' = [actor EXCEPT !["boot"].pc = "read", !["boot"].drive = Head(todo),
                            !["boot"].q = "admin"]
  /\ UNCHANGED <<controller, todo, listed, dma, owner, deviceVars, mishaps>>

OutOfRange(a) == a # "boot" /\ Lba(a) >= LbaCount

(* A request beyond the drive never reaches an AHCI or an IDE drive.        *)
Refuses(a) ==
  /\ actor[a].pc = "read" /\ controller # "nvme" /\ OutOfRange(a)
  /\ Ended(a, FALSE, Null)
  /\ UNCHANGED <<controller, dma, owner, deviceVars, mishaps>>

-----------------------------------------------------------------------------
(* NVMe: nvme_read, nvme_identify, nvme_submit_and_wait                     *)

Free == Blocks \ Held
First(S) == CHOOSE x \in S : \A y \in S : x <= y   \* dma_heap_alloc, a search for a slot

(* dma_heap_alloc and dma_heap_free walk and change a list nobody locks.     *)
InHeap(a) == actor[a].pc \in {"alloc", "free"}
TornBy(a) == [mishaps EXCEPT !.torn = @ \/ \E b \in Actors \ {a} : InHeap(b)]

(* The init asks for a block for each answer it keeps, and for one that the  *)
(* namespaces share; the commands for the other queues need none.           *)
NeedsBlock(a) == a = "boot" => Head(todo) \in {"ctrl", "list", Head(DriveOrder)}

NvmeBegins(a) ==
  /\ controller = "nvme" /\ actor[a].pc = "read"
  /\ \/ /\ NeedsBlock(a)
        /\ actor' = [actor EXCEPT ![a].pc = "alloc"]
        /\ mishaps' = TornBy(a)
     \/ /\ ~NeedsBlock(a)
        /\ actor' = [actor EXCEPT ![a].pc = "lock",
                                  ![a].buf = IF Head(todo) \in Drives THEN @ ELSE Null]
        /\ UNCHANGED mishaps
  /\ UNCHANGED <<controller, todo, listed, dma, owner, deviceVars>>

(* What a search can return: the first block that is free, nullptr when none *)
(* is.  Once two calls have been in the list at a time, that is any block or *)
(* none (nobody reads what the init keeps any more: those are left out).     *)
CanGet ==
  IF mishaps.torn THEN (Blocks \ actor["boot"].blks) \union {Null}
  ELSE IF Free = {} THEN {Null} ELSE {First(Free)}

(* dma_heap_alloc returns.  nvme_init looks at its answer, nvme_read does    *)
(* not: its command then has the physical address 0.                        *)
NvmeAllocates(a) ==
  /\ controller = "nvme" /\ actor[a].pc = "alloc"
  /\ \E buf \in CanGet :
       IF a = "boot" /\ buf = Null
       THEN actor' = [actor EXCEPT ![a].pc = "idle"] /\ todo' = <<>>
       ELSE /\ actor' = [actor EXCEPT ![a].pc = "lock", ![a].buf = buf,
                                      ![a].blks = @ \union ({buf} \ {Null})]
            /\ UNCHANGED todo
  /\ UNCHANGED <<controller, listed, dma, owner, deviceVars, mishaps>>

(* The command goes into the submission queue, and the doorbell rings.      *)
NvmeSubmits(a) ==
  LET q == actor[a].q
      c == [what |-> Wanted(a), buf |-> actor[a].buf, for |-> a]
  IN /\ controller = "nvme" /\ actor[a].pc = "lock" /\ MutexFree(a)
     /\ owner' = [owner EXCEPT ![Mutex(a)] = a]
     /\ queue' = [queue EXCEPT ![q].sq[queue[q].sqTail] = c, ![q].sqTail = EntryAfter(@)]
     /\ actor' = [actor EXCEPT ![a].pc = "wait"]
     /\ UNCHANGED <<controller, todo, listed, dma, hba, port, selected, mishaps>>

(* The head of the completion queue moves, and its phase when it wraps.     *)
PhaseAfter(q) == IF queue[q].cqHead + 1 = Depth THEN 1 - queue[q].cqPhase ELSE queue[q].cqPhase

NvmeAnswered(a) == queue[actor[a].q].cq[queue[actor[a].q].cqHead].phase = queue[actor[a].q].cqPhase

(* Behind the mutex: nvme_init goes on, nvme_read still has a block to free. *)
NvmeLeaves(a, ok) ==
  /\ owner' = Unlocked(a, ok)
  /\ IF a = "boot" THEN InitEnds(ok, Buffer(a))
     ELSE /\ actor' = [actor EXCEPT ![a].pc = "copy", ![a].ok = ok]
          /\ UNCHANGED <<listed, todo>>

(* The first new entry is taken for the answer, whichever command it names. *)
NvmeTakes(a) ==
  LET q == actor[a].q
      status == queue[q].cq[queue[q].cqHead].status
  IN /\ controller = "nvme" /\ actor[a].pc = "wait" /\ NvmeAnswered(a)
     /\ queue' = [queue EXCEPT ![q].cqHead = EntryAfter(@), ![q].cqPhase = PhaseAfter(q)]
     /\ NvmeLeaves(a, status = "ok")
     /\ UNCHANGED <<controller, dma, hba, port, selected, mishaps>>

NvmeOwes(q) == hba[q].sqHead # queue[q].sqTail
NvmeRoom(q) == EntryAfter(hba[q].cqTail) # queue[q].cqHead

(* 5,000,000 spins are over.  The command stays where it is.                *)
NvmeGivesUp(a) ==
  /\ controller = "nvme" /\ actor[a].pc = "wait" /\ ~NvmeAnswered(a)
  /\ \/ mishaps.slow < MaxSlow /\ mishaps' = [mishaps EXCEPT !.slow = @ + 1]
     \/ mishaps.slow = MaxSlow /\ ~(NvmeOwes(actor[a].q) /\ NvmeRoom(actor[a].q)) /\ UNCHANGED mishaps
  /\ NvmeLeaves(a, FALSE)
  /\ UNCHANGED <<controller, dma, deviceVars>>

(* What is read is copied out of the block, which dma_heap_free then takes.  *)
(* Out of nullptr nothing is copied: the page fault ends the thread.         *)
NvmeCopies(a) ==
  /\ controller = "nvme" /\ actor[a].pc = "copy"
  /\ \/ /\ actor[a].ok /\ actor[a].buf = Null
        /\ actor' = [actor EXCEPT ![a].pc = "halted"] /\ UNCHANGED mishaps
     \/ /\ actor[a].ok => actor[a].buf # Null
        /\ actor' = [actor EXCEPT ![a].pc = "free",
                                  ![a].data = IF actor[a].ok THEN Buffer(a) ELSE Null]
        /\ mishaps' = TornBy(a)
  /\ UNCHANGED <<controller, todo, listed, dma, owner, deviceVars>>

NvmeFrees(a) ==
  /\ controller = "nvme" /\ actor[a].pc = "free"
  /\ Ended(a, actor[a].ok, actor[a].data)
  /\ UNCHANGED <<controller, dma, owner, deviceVars, mishaps>>

(* A list that two calls have changed at a time may lead back into itself.   *)
NvmeHangs(a) ==
  /\ controller = "nvme" /\ InHeap(a) /\ mishaps.torn
  /\ actor' = [actor EXCEPT ![a].pc = "halted"]
  /\ UNCHANGED <<controller, todo, listed, dma, owner, deviceVars, mishaps>>

(* The controller executes the oldest command it has not fetched yet.       *)
Executes(c, status) == IF status = "ok" /\ c.buf \in Blocks THEN [dma EXCEPT ![c.buf] = c.what] ELSE dma
Fails(what) == what[2] >= LbaCount

NvmeExecutes(q, status) ==
  LET c == queue[q].sq[hba[q].sqHead]
  IN /\ controller = "nvme" /\ NvmeOwes(q) /\ NvmeRoom(q)
     /\ Fails(c.what) => status = "error"
     /\ IF status = "error" /\ ~Fails(c.what)
        THEN mishaps.errors < MaxErrors /\ mishaps' = [mishaps EXCEPT !.errors = @ + 1]
        ELSE UNCHANGED mishaps
     /\ dma' = Executes(c, status)
     /\ queue' = [queue EXCEPT ![q].cq[hba[q].cqTail] = [phase |-> hba[q].phase, status |-> status]]
     /\ hba' = [hba EXCEPT ![q] =
                  [sqHead |-> EntryAfter(@.sqHead), cqTail |-> EntryAfter(@.cqTail),
                   phase |-> IF @.cqTail + 1 = Depth THEN 1 - @.phase ELSE @.phase]]
     /\ UNCHANGED <<controller, actor, todo, listed, owner, port, selected>>

-----------------------------------------------------------------------------
(* AHCI: ahci_sata_identify_device, ahci_sata_read                          *)

FreeSlots(d) == (1 .. Slots) \ port[d].ci

(* The mutex, which masks interrupts, a slot, a command table and a zeroed   *)
(* buffer; the command is set in ci, after is has been cleared.             *)
AhciIssues(a) ==
  LET d == actor[a].drive
      p == port[d]
      slot == First(FreeSlots(d))
      table == First(Free)
      buf == First(Free \ {table})
  IN /\ controller = "ahci" /\ actor[a].pc = "read" /\ ~OutOfRange(a) /\ MutexFree(a)
     /\ FreeSlots(d) # {}
     /\ Cardinality(Free) > 1
     /\ actor' = [actor EXCEPT ![a].pc = "wait", ![a].blks = {table, buf}, ![a].buf = buf, ![a].slot = slot]
     /\ dma' = [dma EXCEPT ![table] = Null, ![buf] = Null]
     /\ port' = [port EXCEPT ![d] = [p EXCEPT !.ci = @ \union {slot}, !.tfes = FALSE, !.moved = FALSE,
                                              !.cmd[slot] = [what |-> Wanted(a), buf |-> buf, for |-> a]]]
     /\ owner' = [owner EXCEPT ![d] = a]
     /\ UNCHANGED <<controller, todo, listed, queue, hba, selected, mishaps>>

(* No slot, no table, or no buffer (the table is given back).               *)
AhciCannot(a) ==
  /\ controller = "ahci" /\ actor[a].pc = "read" /\ ~OutOfRange(a) /\ MutexFree(a)
  /\ FreeSlots(actor[a].drive) = {} \/ Cardinality(Free) < 2
  /\ Ended(a, FALSE, Null)
  /\ UNCHANGED <<controller, dma, owner, deviceVars, mishaps>>

(* ci is clear, or the error shows first; identifying looks at ci only.     *)
AhciEnds(a) ==
  LET p == port[actor[a].drive]
      clear == actor[a].slot \notin p.ci
  IN /\ controller = "ahci" /\ actor[a].pc = "wait"
     /\ clear \/ (a # "boot" /\ p.tfes)
     /\ Ended(a, clear /\ (a = "boot" \/ (~p.tfes /\ p.moved)), Buffer(a))
     /\ owner' = Unlocked(a, clear /\ ~p.tfes)
     /\ UNCHANGED <<controller, dma, deviceVars, mishaps>>

HbaExecutes(d, s, outcome) ==
  LET p == port[d]
      c == p.cmd[s]
  IN /\ controller = "ahci" /\ s \in p.ci /\ ~p.stopped
     /\ IF outcome = "ok" THEN UNCHANGED mishaps
        ELSE mishaps.errors < MaxErrors /\ mishaps' = [mishaps EXCEPT !.errors = @ + 1]
     /\ dma' = Executes(c, outcome)
     /\ port' = [port EXCEPT ![d] =
                   IF outcome = "error" THEN [p EXCEPT !.tfes = TRUE, !.stopped = TRUE]
                   ELSE [p EXCEPT !.ci = @ \ {s}, !.moved = outcome = "ok"]]
     /\ UNCHANGED <<controller, actor, todo, listed, owner, queue, hba, selected>>

-----------------------------------------------------------------------------
(* IDE: ide_send_identify, ide_atapi_send_packet                            *)

(* The device register is written before the spinlock is taken.             *)
IdeSelects(a) ==
  /\ controller = "ide" /\ actor[a].pc = "read" /\ ~OutOfRange(a)
  /\ selected' = actor[a].drive
  /\ actor' = [b \in Actors |->
                 IF b = a THEN [actor[a] EXCEPT !.pc = "packet"]
                 ELSE IF actor[b].pc = "packet" /\ selected' # selected
                      THEN [actor[b] EXCEPT !.stolen = TRUE] ELSE actor[b]]
  /\ UNCHANGED <<controller, todo, listed, dma, owner, queue, hba, port, mishaps>>

(* Behind the spinlock interrupts are off until the data is in.             *)
IdeTransfers(a) ==
  LET word == IF a = "boot" THEN <<selected, Identity>> ELSE <<selected, Lba(a)>>
      more == Len(actor[a].got) + 1 < actor[a].count
  IN /\ controller = "ide" /\ actor[a].pc = "packet"
     /\ \/ /\ mishaps.errors < MaxErrors /\ mishaps' = [mishaps EXCEPT !.errors = @ + 1]
           /\ Ended(a, FALSE, Null)
        \/ /\ a = "boot" /\ UNCHANGED mishaps
           /\ listed' = [listed EXCEPT ![Head(todo)] = word] /\ todo' = Tail(todo)
           /\ actor' = [actor EXCEPT ![a].pc = "idle"]
        \/ /\ a # "boot" /\ UNCHANGED <<mishaps, listed, todo>>
           /\ actor' = [actor EXCEPT ![a].pc = IF more THEN "read" ELSE "done", ![a].ok = TRUE,
                                     ![a].got = Append(@, word)]
     /\ UNCHANGED <<controller, dma, owner, deviceVars>>

-----------------------------------------------------------------------------

NvmeSteps(a) == NvmeBegins(a) \/ NvmeAllocates(a) \/ NvmeSubmits(a) \/ NvmeTakes(a) \/ NvmeGivesUp(a)
                \/ NvmeCopies(a) \/ NvmeFrees(a) \/ NvmeHangs(a)
Steps(a) == Refuses(a) \/ NvmeSteps(a)
            \/ AhciIssues(a) \/ AhciCannot(a) \/ AhciEnds(a) \/ IdeSelects(a) \/ IdeTransfers(a)
Executing == \/ \E q \in DOMAIN queue, s \in {"ok", "error"} : NvmeExecutes(q, s)
             \/ \E d \in Drives, s \in 1 .. Slots, o \in {"ok", "nothing", "error"} : HbaExecutes(d, s, o)
DiskNext == Identifies \/ (\E r \in Readers : Calls(r)) \/ (\E a \in Actors : Steps(a)) \/ Executing

DiskSpec == DiskInit /\ [][DiskNext]_diskVars

(* Threads are scheduled and a controller that runs gets on with its work.  *)
DiskFairness ==
  /\ WF_diskVars(Identifies) /\ WF_diskVars(Executing)
  /\ \A a \in Actors : WF_diskVars(Steps(a))

-----------------------------------------------------------------------------

Names == Range(Setup) \union Drives
Places == (Names \union {Nobody}) \X Int
Commands == [what : Places, buf : Blocks \union {Null}, for : Actors]
ActorStates ==
  [pc : {"idle", "read", "alloc", "lock", "wait", "packet", "copy", "free", "done", "halted"},
   drive : Names \union {Nobody},
   lba : Nat, count : Nat, blks : SUBSET Blocks, buf : Blocks \union {Null}, q : {"admin", "io"},
   slot : 0 .. Slots, data : Places \union {Null}, got : Seq(Places \union {Null}), ok : BOOLEAN, stolen : BOOLEAN, calls : Nat]
QueueStates ==
  [sq : [Entries -> Commands \union {Null}], sqTail : Entries,
   cq : [Entries -> [phase : {0, 1}, status : {"ok", "error"}]], cqHead : Entries, cqPhase : {0, 1}]
PortStates ==
  [ci : SUBSET (1 .. Slots), cmd : [1 .. Slots -> Commands \union {Null}],
   tfes : BOOLEAN, moved : BOOLEAN, stopped : BOOLEAN]

DiskTypeOK ==
  /\ controller \in Controllers
  /\ actor \in [Actors -> ActorStates]
  /\ todo \in Seq(IF controller = "nvme" THEN Names ELSE Drives)
  /\ listed \in [Drives -> Places \union {Null}] /\ dma \in [Blocks -> Places \union {Null}]
  /\ owner \in [Drives \union {"submit"} -> Actors \union {Nobody}]
  /\ queue \in [{"admin", "io"} -> QueueStates]
  /\ hba \in [{"admin", "io"} -> [sqHead : Entries, cqTail : Entries, phase : {0, 1}]]
  /\ port \in [Drives -> PortStates]
  /\ selected \in Names \union {Nobody}
  /\ mishaps \in [errors : 0 .. MaxErrors, slow : 0 .. MaxSlow, torn : BOOLEAN]

Sound == mishaps.slow = 0 /\ ~mishaps.torn

(* A read that returns true has the blocks of the drive and of the lbas it  *)
(* was asked for, in order, and a drive is listed with its own answer,      *)
(* whatever the other threads read meanwhile.  Three things take that away: *)
(* a command that once outlasted nvme_submit_and_wait (the next one takes   *)
(* its answer), two threads of nvme_read in the unlocked DMA heap at a time *)
(* (they may get one block), and a thread that selects the other drive of   *)
(* an IDE channel before ide_atapi_send_packet has its lock.                *)
ReadsWhatWasAsked ==
  /\ \A r \in Readers :
       LET x == actor[r]
       IN x.pc = "done" /\ x.ok /\ Sound /\ ~x.stolen
            => x.got = [i \in 1 .. x.count |-> <<x.drive, x.lba + i - 1>>]
  /\ Sound => \A d \in Drives : listed[d] \in {Null, <<d, Identity>>}

Before(q) == {e \in Entries : (e - hba[q].sqHead) % Depth < (queue[q].sqTail - hba[q].sqHead) % Depth}
Outstanding ==
  IF controller = "nvme" THEN UNION {{queue[q].sq[e] : e \in Before(q)} : q \in {"admin", "io"}}
  ELSE UNION {{port[d].cmd[s] : s \in port[d].ci} : d \in {e \in Drives : ~port[e].stopped}}

(* A command the controller may still execute writes into a block that the  *)
(* thread waiting for it holds, nobody else holds a block of that thread,   *)
(* and a thread that waits for nothing holds nothing: freed too early the   *)
(* heap is overwritten, too late it runs dry.  A command that outlasts       *)
(* nvme_submit_and_wait does write into freed memory, two threads in the DMA *)
(* heap at a time may share a block, and what nvme_read asks for when the   *)
(* heap is dry is written to the physical address 0.                        *)
DmaStaysInside ==
  /\ Sound => /\ \A c \in Outstanding :
                   /\ actor[c.for].pc = "wait"
                   /\ IF c.buf = Null THEN controller = "nvme" ELSE c.buf \in actor[c.for].blks
              /\ \A a, b \in Actors : a # b => actor[a].blks \intersect actor[b].blks = {}
  /\ \A a \in Actors : actor[a].pc \in {"idle", "read", "done"} => actor[a].blks = Kept(a, TRUE)

Stuck == \E d \in Drives : port[d].stopped

(* Every call comes to an end, answered or not, and so does every question   *)
(* the init asks, while every AHCI port runs and nobody has met an empty or  *)
(* a torn DMA heap: the calls are bounded, so in the end nobody is in one.   *)
(* Behind a port that an error has stopped, the next read (or the            *)
(* identification itself) spins for ever, with the mutex.                   *)
EveryReadEnds == <>[](Stuck \/ \A a \in Actors : actor[a].pc \in {"idle", "done", "halted"})

=============================================================================
