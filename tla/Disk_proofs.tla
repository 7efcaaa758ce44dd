----------------------------- MODULE Disk_proofs -----------------------------
(***************************************************************************)
(* For any number of drives, threads, blocks, command slots and queue       *)
(* entries, and for each of the three controllers: a read returns what it    *)
(* asked for, and a command never writes into a block that has been freed.   *)
(*                                                                          *)
(* The controllers have different reasons.  An NVMe command is alone between *)
(* its doorbell and its completion, because one mutex covers both queues; an *)
(* AHCI command is alone in its port, and its buffer is its own; an IDE      *)
(* packet goes to the drive that was selected last.                         *)
(***************************************************************************)
EXTENDS Disk, FiniteSetTheorems, SequenceTheorems, WellFoundedInduction, TLAPS

Waiting(a) == actor[a].pc = "wait"
InCall(a) == actor[a].pc \notin {"idle", "done"}
Pcs == {"idle", "read", "alloc", "lock", "wait", "packet", "copy", "free", "done", "halted"}

-----------------------------------------------------------------------------
(* The invariant: calls                                                     *)

(* The drives are identified before anybody reads.                          *)
BootInv ==
  /\ \A r \in Readers : InCall(r) => Booted
  /\ actor["boot"].pc # "done" /\ ~actor["boot"].stolen
  /\ InCall("boot") => ~Booted /\ actor["boot"].drive = Head(todo)
  /\ \A a \in Actors : InCall(a) /\ (a = "boot" => controller # "nvme") => actor[a].drive \in Drives
  /\ \A a \in Actors : InCall(a) => actor[a].q = IF a = "boot" THEN "admin" ELSE "io"

(* A call has no more blocks than it asked for, and they are the right ones. *)
GotInv ==
  \A r \in Readers :
    LET x == actor[r]
    IN /\ Len(x.got) <= x.count
       /\ InCall(r) => Len(x.got) < x.count
       /\ x.pc = "done" /\ x.ok => Len(x.got) = x.count
       /\ Sound /\ ~x.stolen => \A i \in 1 .. Len(x.got) : x.got[i] = <<x.drive, x.lba + i - 1>>

ListedInv == Sound => \A d \in Drives : listed[d] \in {Null, <<d, Identity>>}

-----------------------------------------------------------------------------
(* The invariant: the heap of DMA blocks                                    *)

(* Only nvme_read enters the heap without a lock.                           *)
Tidy == controller = "nvme" => Sound

BlocksInv ==
  /\ Tidy => \A a, b \in Actors : a # b => actor[a].blks \intersect actor[b].blks = {}
  /\ \A a \in Actors : actor[a].pc \in {"idle", "read", "alloc", "done"} => actor[a].blks = Kept(a, TRUE)
  /\ controller = "nvme" => \A a \in Actors : actor[a].buf \in actor[a].blks \union {Null}

-----------------------------------------------------------------------------
(* The invariant: the controllers                                           *)

Command(a) == [what |-> Wanted(a), buf |-> actor[a].buf, for |-> a]

(* One side of an NVMe queue has caught up with the other, or is one ahead: *)
(* by a command the controller has not fetched, or by an answer nobody has   *)
(* taken.                                                                   *)
Fetched(q) == hba[q].sqHead = queue[q].sqTail
Taken(q) == hba[q].cqTail = queue[q].cqHead /\ hba[q].phase = queue[q].cqPhase
Owed(a) ==
  LET q == actor[a].q
  IN /\ Taken(q) /\ queue[q].sqTail = EntryAfter(hba[q].sqHead)
     /\ queue[q].sq[hba[q].sqHead] = Command(a)
Answered(a) ==
  LET q == actor[a].q
  IN /\ Fetched(q) /\ hba[q].cqTail = EntryAfter(queue[q].cqHead) /\ hba[q].phase = PhaseAfter(q)
     /\ queue[q].cq[queue[q].cqHead].status = "ok" /\ actor[a].buf \in Blocks
          => dma[actor[a].buf] = Wanted(a)

(* What a thread of nvme_read takes out of its block is what it asked for.  *)
Copied(a) ==
  /\ actor[a].pc = "copy" /\ actor[a].ok /\ actor[a].buf \in Blocks => dma[actor[a].buf] = Wanted(a)
  /\ actor[a].pc = "free" /\ actor[a].ok => actor[a].data = Wanted(a)

(* The entries up to the tail are of this turn, the others of the last.     *)
PhasesInv ==
  \A q \in {"admin", "io"} : \A e \in Entries :
    queue[q].cq[e].phase = IF e < hba[q].cqTail THEN hba[q].phase ELSE 1 - hba[q].phase

(* What the controller fetches has been written.                            *)
WrittenInv ==
  \A q \in {"admin", "io"} : \A e \in Entries :
    queue[q].sq[e] \in Commands \/ (hba[q].sqHead <= queue[q].sqTail /\ queue[q].sqTail <= e)

NvmeInv ==
  controller = "nvme" =>
    /\ \A a \in Actors : Waiting(a) => owner["submit"] = a
    /\ \A a \in Actors : actor[a].pc # "packet"
    /\ PhasesInv /\ WrittenInv
    /\ Sound => \A a \in Actors : Copied(a)
    /\ Sound => /\ \A a \in Actors : Waiting(a) => Owed(a) \/ Answered(a)
                /\ \A q \in {"admin", "io"} :
                     (\A a \in Actors : Waiting(a) => actor[a].q # q) => Fetched(q) /\ Taken(q)

(* A port that runs has no command but that of the thread that owns it.     *)
AhciInv ==
  IF controller = "ahci" THEN
    /\ \A a \in Actors :
         Waiting(a) => LET d == actor[a].drive
                       IN /\ owner[d] = a /\ actor[a].buf \in actor[a].blks
                          /\ dma[actor[a].buf] \in {Null, Wanted(a)}
                          /\ actor[a].slot \notin port[d].ci /\ port[d].moved => dma[actor[a].buf] = Wanted(a)
    /\ \A a \in Actors : actor[a].pc \notin {"lock", "packet"}
    /\ \A d \in Drives : port[d].tfes => port[d].stopped
    /\ \A d \in Drives : ~port[d].stopped =>
         \A s \in port[d].ci :
           \E a \in Actors : /\ Waiting(a) /\ actor[a].drive = d /\ actor[a].slot = s
                             /\ port[d].cmd[s] = Command(a)
  ELSE \A d \in Drives : port[d].ci = {}

IdeInv ==
  controller = "ide" =>
    \A a \in Actors : /\ actor[a].pc \notin {"lock", "wait"} /\ actor[a].blks = {}
                      /\ actor[a].pc = "packet" /\ ~actor[a].stolen => selected = actor[a].drive

CallsInv == BootInv /\ GotInv /\ ListedInv /\ BlocksInv

IInv ==
  /\ DiskTypeOK /\ CallsInv
  /\ NvmeInv /\ AhciInv /\ IdeInv

-----------------------------------------------------------------------------
(* What the actions do to their actor                                       *)

LEMMA Typed ==
  ASSUME DiskTypeOK
  PROVE  /\ controller \in Controllers /\ actor \in [Actors -> ActorStates]
         /\ \A a \in Actors :
              /\ actor[a].drive \in Names \union {Nobody}
              /\ actor[a].lba \in Nat /\ actor[a].count \in Nat /\ actor[a].blks \subseteq Blocks
              /\ actor[a].buf \in Blocks \union {Null} /\ actor[a].q \in {"admin", "io"}
              /\ actor[a].data \in Places \union {Null}
              /\ actor[a].slot \in 0 .. Slots /\ actor[a].got \in Seq(Places \union {Null})
              /\ actor[a].ok \in BOOLEAN /\ actor[a].stolen \in BOOLEAN /\ actor[a].calls \in Nat
              /\ actor[a].pc \in Pcs
         /\ dma \in [Blocks -> Places \union {Null}] /\ listed \in [Drives -> Places \union {Null}]
         /\ todo \in Seq(IF controller = "nvme" THEN Names ELSE Drives)
BY DEF DiskTypeOK, ActorStates, Pcs

LEMMA WhoActs ==
  /\ "boot" \in Actors /\ "boot" \notin Readers /\ Readers \subseteq Actors
  /\ \A a \in Actors : a # "boot" => a \in Readers
  /\ Nobody \notin Actors
BY DiskAssumption DEF Actors

LEMMA DriveNames == Drives \subseteq Names /\ DriveOrder \in Seq(Drives)
<1>1. DriveOrder \in Seq(STRING)
  BY DiskAssumption
<1>2. \A i \in DOMAIN DriveOrder : DriveOrder[i] \in Drives
  BY DEF Drives, Range
<1>3. DriveOrder \in Seq(Drives)
  BY <1>1, <1>2
<1> QED
  BY <1>3 DEF Names

LEMMA IdleTyped == Idle \in ActorStates
<1>1. 0 \in 0 .. Slots /\ <<>> \in Seq(Places \union {Null}) /\ {} \in SUBSET Blocks
  BY DiskAssumption
<1> QED
  BY <1>1, SMTT(30) DEF ActorStates, Idle

(* What an actor's record may be changed to.                                *)
LEMMA Changed ==
  ASSUME NEW x \in ActorStates, NEW pc \in Pcs, NEW blks \in SUBSET Blocks
  PROVE  /\ [x EXCEPT !.pc = pc] \in ActorStates
         /\ [x EXCEPT !.pc = pc, !.blks = blks] \in ActorStates
BY DEF ActorStates, Pcs

LEMMA ChangedAtEnd ==
  ASSUME NEW x \in ActorStates, NEW pc \in Pcs, NEW blks \in SUBSET Blocks,
         NEW ok \in BOOLEAN, NEW got \in Seq(Places \union {Null})
  PROVE  [x EXCEPT !.pc = pc, !.ok = ok, !.blks = blks, !.got = got, !.buf = Null, !.data = Null]
           \in ActorStates
<1> PICK G : G = Seq(Places \union {Null})
  OBVIOUS
<1> PICK D : D = Places \union {Null}
  OBVIOUS
<1> QED
  BY DEF ActorStates, Pcs

(* The end of a call changes no more than the one who made it.              *)
LEMMA EndedChanges ==
  ASSUME DiskTypeOK, NEW a \in Actors, NEW ok \in BOOLEAN, NEW data \in Places \union {Null},
         Ended(a, ok, data), a = "boot" => todo # <<>>
  PROVE  /\ actor' \in [Actors -> ActorStates]
         /\ \A b \in Actors : b # a => actor'[b] = actor[b]
         /\ actor'[a].drive = actor[a].drive /\ actor'[a].lba = actor[a].lba
         /\ actor'[a].count = actor[a].count /\ actor'[a].buf \in {actor[a].buf, Null} /\ actor'[a].q = actor[a].q
         /\ actor'[a].stolen = actor[a].stolen /\ actor'[a].blks = Kept(a, ok)
         /\ a = "boot" => /\ actor'[a].pc = "idle" /\ actor'[a].buf = actor[a].buf
                          /\ listed' = IF ok /\ Head(todo) \in Drives
                                       THEN [listed EXCEPT ![Head(todo)] = data] ELSE listed
                          /\ todo' = IF ok \/ Head(todo) \in Drives THEN Tail(todo) ELSE <<>>
         /\ a # "boot" =>
              /\ listed' = listed /\ todo' = todo /\ actor'[a].ok = ok
              /\ actor'[a].buf = Null
              /\ actor'[a].got = IF ok THEN Append(actor[a].got, data) ELSE actor[a].got
              /\ actor'[a].pc = IF ok /\ Len(actor'[a].got) < actor[a].count THEN "read" ELSE "done"
         /\ listed' \in [Drives -> Places \union {Null}]
         /\ todo' \in Seq(IF controller = "nvme" THEN Names ELSE Drives)
<1>1. Kept(a, ok) \subseteq Blocks
  BY Typed DEF Kept
<1>3. CASE a = "boot"
  <2>1. actor' = [actor EXCEPT !["boot"].pc = "idle", !["boot"].blks = Kept("boot", ok)]
    BY <1>3 DEF Ended, InitEnds
  <2>2. actor'["boot"] = [actor["boot"] EXCEPT !.pc = "idle", !.blks = Kept("boot", ok)]
        /\ \A b \in Actors : b # a => actor'[b] = actor[b]
    BY <2>1, <1>3, Typed
  <2>3. actor' \in [Actors -> ActorStates]
    <3>1. [actor["boot"] EXCEPT !.pc = "idle", !.blks = Kept("boot", ok)] \in ActorStates
      BY <1>1, <1>3, Typed, Changed DEF Pcs
    <3>2. actor' = [actor EXCEPT !["boot"] = [actor["boot"] EXCEPT !.pc = "idle", !.blks = Kept("boot", ok)]]
      BY <2>1, <1>3, Typed
    <3> QED
      BY <3>1, <3>2, Typed
  <2>4. /\ listed' = IF ok /\ Head(todo) \in Drives
                     THEN [listed EXCEPT ![Head(todo)] = data] ELSE listed
        /\ todo' = IF ok \/ Head(todo) \in Drives THEN Tail(todo) ELSE <<>>
    BY <1>3 DEF Ended, InitEnds
  <2>5. listed' \in [Drives -> Places \union {Null}]
    BY <2>4, Typed
  <2>6. todo' \in Seq(IF controller = "nvme" THEN Names ELSE Drives)
    <3>1. PICK S : S = IF controller = "nvme" THEN Names ELSE Drives
      OBVIOUS
    <3>2. todo \in Seq(S) /\ todo # <<>>
      BY <1>3, <3>1, Typed
    <3>3. Tail(todo) \in Seq(S) /\ <<>> \in Seq(S)
      BY <3>2
    <3> QED
      BY <2>4, <3>1, <3>3
  <2>7. actor["boot"] \in ActorStates
    BY <1>3, Typed
  <2> QED
    BY <1>3, <2>2, <2>3, <2>4, <2>5, <2>6, <2>7 DEF ActorStates
<1>4. CASE a # "boot"
  <2> DEFINE got == IF ok THEN Append(actor[a].got, data) ELSE actor[a].got
  <2>1. got \in Seq(Places \union {Null})
    BY Typed
  <2>2. /\ actor' = [actor EXCEPT ![a].pc = IF ok /\ Len(got) < actor[a].count THEN "read" ELSE "done",
                                  ![a].ok = ok, ![a].blks = Kept(a, ok), ![a].got = got,
                                  ![a].buf = Null, ![a].data = Null]
        /\ listed' = listed /\ todo' = todo
    BY <1>4 DEF Ended, ReadEnds
  <2> HIDE DEF got
  <2>3. actor' \in [Actors -> ActorStates]
    <3> DEFINE pc == IF ok /\ Len(got) < actor[a].count THEN "read" ELSE "done"
    <3>1. pc \in {"read", "done"}
      OBVIOUS
    <3> HIDE DEF pc
    <3>2. [actor[a] EXCEPT !.pc = pc, !.ok = ok, !.blks = Kept(a, ok), !.got = got,
                                         !.buf = Null, !.data = Null] \in ActorStates
      <4>1. actor[a] \in ActorStates /\ pc \in Pcs
        BY <3>1, Typed DEF Pcs
      <4> QED
        BY <2>1, <4>1, <1>1, ChangedAtEnd
    <3>3. actor' = [actor EXCEPT ![a] = [actor[a] EXCEPT !.pc = pc, !.ok = ok, !.blks = Kept(a, ok), !.got = got,
                                         !.buf = Null, !.data = Null]]
      BY <2>2, Typed DEF pc
    <3> QED
      BY <3>2, <3>3, Typed
  <2>4. /\ actor'[a] = [actor[a] EXCEPT !.pc = IF ok /\ Len(got) < actor[a].count THEN "read" ELSE "done",
                                         !.ok = ok, !.blks = Kept(a, ok), !.got = got,
                                         !.buf = Null, !.data = Null]
        /\ \A b \in Actors : b # a => actor'[b] = actor[b]
    BY <2>2, Typed
  <2>5. actor[a] \in ActorStates
    BY Typed
  <2>6. /\ actor'[a].got = got /\ actor'[a].ok = ok /\ actor'[a].blks = Kept(a, ok)
        /\ actor'[a].pc = IF ok /\ Len(got) < actor[a].count THEN "read" ELSE "done"
        /\ actor'[a].drive = actor[a].drive /\ actor'[a].lba = actor[a].lba
        /\ actor'[a].count = actor[a].count /\ actor'[a].buf = Null /\ actor'[a].q = actor[a].q
        /\ actor'[a].stolen = actor[a].stolen
    BY <2>4, <2>5 DEF ActorStates
  <2> QED
    <3>1. /\ actor'[a].got = IF ok THEN Append(actor[a].got, data) ELSE actor[a].got
          /\ actor'[a].pc = IF ok /\ Len(actor'[a].got) < actor[a].count THEN "read" ELSE "done"
      BY <2>6 DEF got
    <3>2. /\ listed' \in [Drives -> Places \union {Null}]
          /\ todo' \in Seq(IF controller = "nvme" THEN Names ELSE Drives)
      BY <2>2, Typed
    <3> QED
      BY <1>4, <2>2, <2>3, <2>4, <2>6, <3>1, <3>2
<1> QED
  BY <1>3, <1>4

-----------------------------------------------------------------------------
(* The end of a call keeps what is said of calls                            *)

LEMMA EndedBoot ==
  ASSUME DiskTypeOK, BootInv, NEW a \in Actors, NEW ok \in BOOLEAN,
         NEW data \in Places \union {Null}, Ended(a, ok, data), InCall(a), controller' = controller
  PROVE  BootInv'
<1>1. a = "boot" => todo # <<>>
  BY DEF BootInv, Booted
<1>2. /\ \A b \in Actors : b # a => actor'[b] = actor[b]
      /\ actor'[a].drive = actor[a].drive /\ actor'[a].q = actor[a].q
      /\ actor'[a].stolen = actor[a].stolen
      /\ a = "boot" => actor'[a].pc = "idle"
      /\ a # "boot" => todo' = todo /\ actor'[a].pc \in {"read", "done"}
  BY <1>1, EndedChanges
<1>3. \A r \in Readers : InCall(r)' => Booted'
  <2>1. CASE a = "boot"
    BY <2>1, <1>2, WhoActs DEF BootInv, InCall
  <2>2. CASE a # "boot"
    BY <2>2, <1>2, WhoActs DEF BootInv, InCall, Booted
  <2> QED
    BY <2>1, <2>2
<1>4. actor'["boot"].pc # "done" /\ ~actor'["boot"].stolen
  BY <1>2, WhoActs DEF BootInv
<1>5. InCall("boot")' => ~Booted' /\ actor'["boot"].drive = Head(todo')
  BY <1>2, WhoActs DEF BootInv, InCall, Booted
<1>6. \A b \in Actors : InCall(b)' => InCall(b)
  BY <1>2 DEF InCall
<1>7. \A b \in Actors : actor'[b].drive = actor[b].drive /\ actor'[b].q = actor[b].q
  BY <1>2
<1> QED
  BY <1>3, <1>4, <1>5, <1>6, <1>7 DEF BootInv

(* One more block of the right data.                                        *)
LEMMA GotGrows ==
  ASSUME DiskTypeOK, GotInv, NEW a \in Readers, InCall(a), NEW v \in Places \union {Null},
         Sound' /\ ~actor[a].stolen => v = <<actor[a].drive, Lba(a)>>, Sound' => Sound,
         \A b \in Actors : b # a => actor'[b] = actor[b],
         actor'[a].drive = actor[a].drive, actor'[a].lba = actor[a].lba,
         actor'[a].count = actor[a].count, actor'[a].stolen = actor[a].stolen,
         actor'[a].got = Append(actor[a].got, v),
         actor'[a].pc = IF Len(actor[a].got) + 1 < actor[a].count THEN "read" ELSE "done"
  PROVE  GotInv'
<1>1. actor[a].got \in Seq(Places \union {Null}) /\ Len(actor[a].got) < actor[a].count
      /\ actor[a].lba \in Nat /\ actor[a].count \in Nat
  BY WhoActs, Typed DEF GotInv
<1>2. Sound /\ ~actor[a].stolen
        => \A i \in 1 .. Len(actor[a].got) : actor[a].got[i] = <<actor[a].drive, actor[a].lba + i - 1>>
  BY DEF GotInv
<1>3. Len(actor'[a].got) = Len(actor[a].got) + 1 /\ Len(actor[a].got) \in Nat
  BY <1>1
<1>4. /\ \A i \in 1 .. Len(actor[a].got) : actor'[a].got[i] = actor[a].got[i]
      /\ actor'[a].got[Len(actor[a].got) + 1] = v
  BY <1>1
<1>5. Sound' /\ ~actor[a].stolen => v = <<actor[a].drive, actor[a].lba + (Len(actor[a].got) + 1) - 1>>
  <2>1. actor[a].lba + (Len(actor[a].got) + 1) - 1 = actor[a].lba + Len(actor[a].got)
    BY <1>1, <1>3
  <2> QED
    BY <2>1 DEF Lba
<1>6. Sound' /\ ~actor'[a].stolen =>
        \A i \in 1 .. Len(actor'[a].got) : actor'[a].got[i] = <<actor'[a].drive, actor'[a].lba + i - 1>>
  <2> SUFFICES ASSUME Sound', ~actor'[a].stolen, NEW i \in 1 .. Len(actor'[a].got)
               PROVE actor'[a].got[i] = <<actor'[a].drive, actor'[a].lba + i - 1>>
    BY DEF Sound
  <2>1. Sound' /\ Sound /\ ~actor[a].stolen
    OBVIOUS
  <2>2. CASE i \in 1 .. Len(actor[a].got)
    BY <2>1, <2>2, <1>2, <1>4
  <2>3. CASE i = Len(actor[a].got) + 1
    BY <2>1, <2>3, <1>4, <1>5
  <2> QED
    BY <2>2, <2>3, <1>3
<1>7. Len(actor'[a].got) \in Nat /\ Len(actor'[a].got) <= actor'[a].count
  BY <1>1, <1>3
<1>8. InCall(a)' => Len(actor'[a].got) < actor'[a].count
  BY <1>3 DEF InCall
<1>9. actor'[a].pc = "done" => Len(actor'[a].got) = actor'[a].count
  BY <1>1, <1>3, <1>7
<1>10. \A r \in Readers : r # a => actor'[r] = actor[r]
  BY WhoActs
<1> SUFFICES ASSUME NEW r \in Readers
    PROVE LET x == actor'[r]
          IN /\ Len(x.got) <= x.count
             /\ InCall(r)' => Len(x.got) < x.count
             /\ x.pc = "done" /\ x.ok => Len(x.got) = x.count
             /\ Sound' /\ ~x.stolen => \A i \in 1 .. Len(x.got) : x.got[i] = <<x.drive, x.lba + i - 1>>
  BY DEF GotInv, Sound
<1>11. CASE r = a
  BY <1>6, <1>7, <1>8, <1>9, <1>11
<1>12. CASE r # a
  BY <1>10, <1>12 DEF GotInv, InCall
<1> QED
  BY <1>11, <1>12

LEMMA EndedGot ==
  ASSUME DiskTypeOK, BootInv, GotInv, NEW a \in Actors, NEW ok \in BOOLEAN,
         NEW data \in Places \union {Null}, Ended(a, ok, data), InCall(a), Sound' => Sound,
         a # "boot" /\ ok /\ Sound' /\ ~actor[a].stolen => data = Wanted(a)
  PROVE  GotInv'
<1>1. a = "boot" => todo # <<>>
  BY DEF BootInv, Booted
<1>2. /\ \A b \in Actors : b # a => actor'[b] = actor[b]
      /\ actor'[a].lba = actor[a].lba /\ actor'[a].count = actor[a].count
      /\ actor'[a].drive = actor[a].drive /\ actor'[a].stolen = actor[a].stolen
      /\ a # "boot" =>
              /\ actor'[a].ok = ok
              /\ actor'[a].got = IF ok THEN Append(actor[a].got, data) ELSE actor[a].got
              /\ actor'[a].pc = IF ok /\ Len(actor'[a].got) < actor[a].count THEN "read" ELSE "done"
  BY <1>1, EndedChanges
<1>3. CASE a \in Readers /\ ok
  <2>1. PICK v \in Places \union {Null} : v = data
    OBVIOUS
  <2>2. actor[a].got \in Seq(Places \union {Null}) /\ a # "boot"
    BY <1>3, Typed, WhoActs
  <2>3. actor'[a].got = Append(actor[a].got, v)
    BY <1>2, <1>3, <2>1, <2>2
  <2>4. Len(actor'[a].got) = Len(actor[a].got) + 1
    BY <2>2, <2>3
  <2>5. actor'[a].pc = IF Len(actor[a].got) + 1 < actor[a].count THEN "read" ELSE "done"
    BY <1>2, <1>3, <2>2, <2>4
  <2>6. Sound' /\ ~actor[a].stolen => v = <<actor[a].drive, Lba(a)>>
    BY <1>3, <2>1, <2>2 DEF Wanted
  <2> QED
    BY <1>2, <1>3, <2>3, <2>5, <2>6, GotGrows
<1>4. CASE ~(a \in Readers /\ ok)
  <2>1. \A r \in Readers :
          /\ actor'[r].drive = actor[r].drive /\ actor'[r].stolen = actor[r].stolen
          /\ actor'[r].lba = actor[r].lba /\ actor'[r].count = actor[r].count /\ actor'[r].got = actor[r].got
          /\ InCall(r)' => InCall(r)
          /\ actor'[r].pc = "done" /\ actor'[r].ok => actor[r].pc = "done" /\ actor[r].ok
    BY <1>2, <1>4, WhoActs DEF InCall
  <2> SUFFICES ASSUME NEW r \in Readers
      PROVE LET x == actor'[r]
            IN /\ Len(x.got) <= x.count
               /\ InCall(r)' => Len(x.got) < x.count
               /\ x.pc = "done" /\ x.ok => Len(x.got) = x.count
               /\ Sound' /\ ~x.stolen => \A i \in 1 .. Len(x.got) : x.got[i] = <<x.drive, x.lba + i - 1>>
    BY DEF GotInv, Sound
  <2> QED
    BY <2>1 DEF GotInv
<1> QED
  BY <1>3, <1>4

LEMMA EndedListed ==
  ASSUME DiskTypeOK, BootInv, ListedInv, NEW a \in Actors, NEW ok \in BOOLEAN,
         NEW data \in Places \union {Null}, Ended(a, ok, data), InCall(a), Sound' => Sound,
         a = "boot" /\ ok /\ Sound' => data \in {Null, Wanted(a)}
  PROVE  ListedInv'
<1>1. a = "boot" => todo # <<>> /\ Wanted(a) = <<Head(todo), Identity>>
  BY DEF BootInv, Booted, Wanted
<1>2. /\ a = "boot" => listed' = IF ok /\ Head(todo) \in Drives
                                 THEN [listed EXCEPT ![Head(todo)] = data] ELSE listed
      /\ a # "boot" => listed' = listed
  BY <1>1, EndedChanges
<1>3. Sound' => \A d \in Drives : listed'[d] \in {Null, <<d, Identity>>}
  BY <1>1, <1>2, Typed DEF ListedInv
<1> QED
  BY <1>3 DEF ListedInv, Sound

(* The blocks of one actor change, those of the others do not.              *)
LEMMA BlocksOfOne ==
  ASSUME BlocksInv, NEW a \in Actors, controller' = controller,
         \A b \in Actors : b # a => actor'[b] = actor[b],
         Sound' => Sound,
         Tidy => \A b \in Actors : b # a => actor'[a].blks \intersect actor[b].blks = {},
         actor'[a].pc \in {"idle", "read", "alloc", "done"} => actor'[a].blks = Kept(a, TRUE)',
         controller = "nvme" => actor'[a].buf \in actor'[a].blks \union {Null}
  PROVE  BlocksInv'
<1>0. Tidy' => Tidy
  BY DEF Tidy
<1>1. ASSUME Tidy', NEW b \in Actors, NEW c \in Actors, b # c
      PROVE  actor'[b].blks \intersect actor'[c].blks = {}
  <2>1. CASE b = a
    BY <1>0, <1>1, <2>1
  <2>2. CASE c = a
    BY <1>0, <1>1, <2>2
  <2>3. CASE b # a /\ c # a
    BY <1>0, <1>1, <2>3 DEF BlocksInv
  <2> QED
    BY <2>1, <2>2, <2>3
<1>2. ASSUME NEW b \in Actors
      PROVE  /\ actor'[b].pc \in {"idle", "read", "alloc", "done"} => actor'[b].blks = Kept(b, TRUE)'
             /\ controller = "nvme" => actor'[b].buf \in actor'[b].blks \union {Null}
  <2>1. CASE b = a
    BY <2>1
  <2>2. CASE b # a
    <3>1. actor'[b] = actor[b] /\ Kept(b, TRUE)' = Kept(b, TRUE)
      BY <2>2 DEF Kept
    <3> QED
      BY <3>1 DEF BlocksInv
  <2> QED
    BY <2>1, <2>2
<1> QED
  BY <1>1, <1>2 DEF BlocksInv

LEMMA EndedBlocks ==
  ASSUME DiskTypeOK, BootInv, BlocksInv, NEW a \in Actors, NEW ok \in BOOLEAN,
         NEW data \in Places \union {Null}, Ended(a, ok, data), InCall(a), controller' = controller, Sound' => Sound
  PROVE  BlocksInv'
<1>1. a = "boot" => todo # <<>>
  BY DEF BootInv, Booted
<1>2. /\ \A b \in Actors : b # a => actor'[b] = actor[b]
      /\ actor'[a].buf \in {actor[a].buf, Null} /\ actor'[a].blks = Kept(a, ok)
      /\ actor'[a].pc \in {"idle", "read", "done"}
  BY <1>1, EndedChanges
<1>3. /\ actor'[a].blks = {} \/ actor'[a].blks = actor[a].blks
      /\ actor'[a].blks = Kept(a, TRUE)'
  BY <1>2 DEF Kept
<1>4. Tidy => \A b \in Actors : b # a => actor'[a].blks \intersect actor[b].blks = {}
  BY <1>3 DEF BlocksInv
<1>5. controller = "nvme" => actor'[a].buf \in actor'[a].blks \union {Null}
  <2>1. CASE a = "boot"
    BY <2>1, <1>2 DEF BlocksInv, Kept
  <2>2. CASE a # "boot"
    BY <2>2, <1>1, EndedChanges
  <2> QED
    BY <2>1, <2>2
<1> QED
  BY <1>2, <1>3, <1>4, <1>5, BlocksOfOne

LEMMA EndedCalls ==
  ASSUME DiskTypeOK, CallsInv, NEW a \in Actors, NEW ok \in BOOLEAN,
         NEW data \in Places \union {Null}, Ended(a, ok, data), InCall(a), controller' = controller, Sound' => Sound,
         a # "boot" /\ ok /\ Sound' /\ ~actor[a].stolen => data = Wanted(a),
         a = "boot" /\ ok /\ Sound' => data \in {Null, Wanted(a)}
  PROVE  CallsInv'
BY EndedBoot, EndedGot, EndedListed, EndedBlocks DEF CallsInv

-----------------------------------------------------------------------------
(* Slots, entries and phases                                                *)

(* A search from below finds something when there is something.             *)
LEMMA FirstIsOne ==
  ASSUME NEW S \in SUBSET Nat, S # {}
  PROVE  First(S) \in S
<1> DEFINE Below(x, y) == x < y
<1>1. IsWellFoundedOn(OpToRel(Below, Nat), Nat)
  BY NatLessThanWellFounded DEF OpToRel, Below
<1>2. PICK x \in S : \A y \in S : ~(<<y, x>> \in OpToRel(Below, Nat))
  BY <1>1, WFMin
<1>3. \A y \in S : x <= y
  <2> SUFFICES ASSUME NEW y \in S PROVE x <= y
    OBVIOUS
  <2>1. x \in Nat /\ y \in Nat
    OBVIOUS
  <2>2. ~(y < x)
    BY <1>2, <2>1 DEF OpToRel, Below
  <2> QED
    BY <2>1, <2>2
<1> QED
  BY <1>3 DEF First

(* Of two blocks the first and the second are two.                          *)
LEMMA TwoAreFree ==
  ASSUME DiskTypeOK, Cardinality(Free) > 1
  PROVE  /\ First(Free) \in Free /\ First(Free \ {First(Free)}) \in Free
         /\ First(Free) # First(Free \ {First(Free)})
<1>1. Free \in SUBSET Nat /\ IsFiniteSet(Free)
  BY DiskAssumption, FS_Subset DEF Free
<1>2. Cardinality(Free) # 0 /\ Cardinality(Free) # 1
  BY SMT
<1>3. Free # {}
  BY <1>2, FS_EmptySet, Zenon
<1>4. \A x : Free # {x}
  BY <1>2, FS_Singleton, Zenon
<1>5. First(Free) \in Free
  BY <1>1, <1>3, FirstIsOne
<1>6. Free \ {First(Free)} # {} /\ Free \ {First(Free)} \in SUBSET Nat
  BY <1>1, <1>4, <1>5
<1>7. First(Free \ {First(Free)}) \in Free \ {First(Free)}
  BY <1>6, FirstIsOne
<1> QED
  BY <1>5, <1>7

LEMMA EntryRound ==
  ASSUME NEW e \in Entries
  PROVE  /\ EntryAfter(e) = IF e + 1 = Depth THEN 0 ELSE e + 1
         /\ EntryAfter(e) \in Entries /\ EntryAfter(e) # e
<1>1. Depth \in Nat \ {0, 1} /\ e \in 0 .. Depth - 1
  BY DiskAssumption DEF Entries
<1>2. \A k \in 0 .. Depth - 1 : k % Depth = k
  BY <1>1, SMT
<1>3. Depth % Depth = 0
  BY <1>1, SMT
<1> QED
  BY <1>1, <1>2, <1>3 DEF EntryAfter, Entries

(* The entry a driver looks at is new exactly when the controller is ahead. *)
LEMMA NewEntry ==
  ASSUME DiskTypeOK, PhasesInv, NEW a \in Actors
  PROVE  /\ Taken(actor[a].q) => ~NvmeAnswered(a)
         /\ Answered(a) => NvmeAnswered(a)
<1> DEFINE q == actor[a].q  h == hba[q]  u == queue[q]
<1>1. /\ u.cqHead \in Entries /\ u.cqPhase \in {0, 1} /\ h.cqTail \in Entries /\ h.phase \in {0, 1}
      /\ q \in {"admin", "io"}
  BY Typed DEF DiskTypeOK, QueueStates
<1>2. u.cq[u.cqHead].phase = IF u.cqHead < h.cqTail THEN h.phase ELSE 1 - h.phase
  BY <1>1 DEF PhasesInv
<1>3. NvmeAnswered(a) <=> u.cq[u.cqHead].phase = u.cqPhase
  BY DEF NvmeAnswered
<1>4. Taken(q) => h.cqTail = u.cqHead /\ h.phase = u.cqPhase
  BY DEF Taken
<1>5. Answered(a) => h.cqTail = EntryAfter(u.cqHead)
                     /\ h.phase = IF u.cqHead + 1 = Depth THEN 1 - u.cqPhase ELSE u.cqPhase
  BY DEF Answered, PhaseAfter
<1>6. EntryAfter(u.cqHead) = IF u.cqHead + 1 = Depth THEN 0 ELSE u.cqHead + 1
  BY <1>1, EntryRound
<1>7. u.cqHead \in Int /\ u.cqHead >= 0
  BY <1>1 DEF Entries
<1> HIDE DEF h, u, q
<1>8. Taken(q) => ~NvmeAnswered(a)
  BY <1>1, <1>2, <1>3, <1>4, <1>7
<1>9. Answered(a) => NvmeAnswered(a)
  BY <1>1, <1>2, <1>3, <1>5, <1>6, <1>7
<1> QED
  BY <1>8, <1>9 DEF q

(* In time, an answer is the answer to the command of the one who takes it. *)
LEMMA TakesItsAnswer ==
  ASSUME IInv, NEW a \in Actors, NvmeTakes(a), Sound
  PROVE  Answered(a)
<1>1. controller = "nvme" /\ Waiting(a) /\ NvmeAnswered(a)
  BY DEF NvmeTakes, Waiting
<1>2. PhasesInv /\ (Owed(a) \/ Answered(a))
  BY <1>1 DEF IInv, NvmeInv
<1>3. ~Owed(a)
  BY <1>1, <1>2, NewEntry DEF Owed, IInv
<1> QED
  BY <1>2, <1>3

(* Giving up is never in time.                                              *)
LEMMA GivingUpIsLate ==
  ASSUME IInv, NEW a \in Actors, NvmeGivesUp(a)
  PROVE  ~Sound'
<1>1. controller = "nvme" /\ Waiting(a) /\ ~NvmeAnswered(a)
  BY DEF NvmeGivesUp, Waiting
<1>2. mishaps.slow \in Nat
  BY DEF IInv, DiskTypeOK
<1>3. CASE mishaps.slow < MaxSlow /\ mishaps' = [mishaps EXCEPT !.slow = @ + 1]
  <2>1. mishaps'.slow = mishaps.slow + 1
    BY <1>3 DEF IInv, DiskTypeOK
  <2> QED
    BY <2>1, <1>2 DEF Sound
<1>4. CASE mishaps.slow = MaxSlow /\ ~(NvmeOwes(actor[a].q) /\ NvmeRoom(actor[a].q)) /\ UNCHANGED mishaps
  <2> SUFFICES ASSUME Sound PROVE FALSE
    BY <1>4 DEF Sound
  <2>1. PhasesInv /\ (Owed(a) \/ Answered(a))
    BY <1>1 DEF IInv, NvmeInv
  <2>2. Owed(a)
    BY <1>1, <2>1, NewEntry DEF IInv
  <2>3. hba[actor[a].q].sqHead \in Entries /\ hba[actor[a].q].cqTail \in Entries
    BY Typed DEF IInv, DiskTypeOK
  <2>4. NvmeOwes(actor[a].q)
    BY <2>2, <2>3, EntryRound DEF Owed, NvmeOwes
  <2>5. NvmeRoom(actor[a].q)
    BY <2>2, <2>3, EntryRound DEF Owed, Taken, NvmeRoom
  <2> QED
    BY <1>4, <2>4, <2>5
<1> QED
  BY <1>3, <1>4 DEF NvmeGivesUp

-----------------------------------------------------------------------------
(* What an action leaves alone                                              *)

LEMMA EndsWell ==
  ASSUME IInv, NEW a \in Actors, NEW ok \in BOOLEAN, NEW data \in Places \union {Null},
         Ended(a, ok, data), InCall(a),
         ok /\ Sound => data = Wanted(a) \/ (a = "boot" /\ data = Null),
         UNCHANGED <<controller, dma, hba, port, selected>>,
         owner' \in [Drives \union {"submit"} -> Actors \union {Nobody}],
         queue' \in [{"admin", "io"} -> QueueStates],
         mishaps' \in [errors : 0 .. MaxErrors, slow : 0 .. MaxSlow, torn : BOOLEAN], Sound' => Sound
  PROVE  DiskTypeOK' /\ CallsInv'
<1>1. DiskTypeOK /\ CallsInv /\ BootInv /\ BlocksInv
  BY DEF IInv, CallsInv
<1>3. a = "boot" => todo # <<>>
  BY <1>1 DEF BootInv, Booted
<1>4. actor' \in [Actors -> ActorStates] /\ listed' \in [Drives -> Places \union {Null}]
      /\ todo' \in Seq(IF controller = "nvme" THEN Names ELSE Drives)
  BY <1>1, <1>3, EndedChanges
<1>5. DiskTypeOK'
  BY <1>1, <1>4 DEF DiskTypeOK
<1>6. a # "boot" /\ ok /\ Sound' /\ ~actor[a].stolen => data = Wanted(a)
  OBVIOUS
<1>7. a = "boot" /\ ok /\ Sound' => data \in {Null, Wanted(a)}
  OBVIOUS
<1>8. CallsInv'
  BY <1>1, <1>6, <1>7, EndedCalls
<1> QED
  BY <1>5, <1>8

(* Who does not wait for a port has no part in it.                          *)
LEMMA AhciKept ==
  ASSUME AhciInv, NEW a \in Actors, ~Waiting(a), UNCHANGED <<controller, port>>,
         controller = "ahci" => UNCHANGED <<dma, owner>> /\ actor'[a].pc \notin {"lock", "packet", "wait"},
         \A b \in Actors : b # a => actor'[b] = actor[b]
  PROVE  AhciInv'
<1>1. CASE controller # "ahci"
  BY <1>1 DEF AhciInv
<1>2. CASE controller = "ahci"
  <2>1. /\ ~Waiting(a)'
        /\ \A b \in Actors : b # a => /\ Waiting(b)' <=> Waiting(b)
                                      /\ Wanted(b)' = Wanted(b) /\ Command(b)' = Command(b)
    BY <1>2 DEF Waiting, Wanted, Command, Lba
  <2>2. \A b \in Actors : Waiting(b)' =>
          LET d == actor'[b].drive
          IN /\ owner'[d] = b /\ actor'[b].buf \in actor'[b].blks
             /\ dma'[actor'[b].buf] \in {Null, Wanted(b)'}
             /\ actor'[b].slot \notin port'[d].ci /\ port'[d].moved => dma'[actor'[b].buf] = Wanted(b)'
    BY <1>2, <2>1 DEF AhciInv
  <2>3. \A b \in Actors : actor'[b].pc \notin {"lock", "packet"}
    BY <1>2 DEF AhciInv
  <2>4. \A d \in Drives : port'[d].tfes => port'[d].stopped
    BY <1>2 DEF AhciInv
  <2>5. ASSUME NEW d \in Drives, ~port'[d].stopped, NEW s \in port'[d].ci
        PROVE  \E b \in Actors : /\ Waiting(b)' /\ actor'[b].drive = d /\ actor'[b].slot = s
                                 /\ port'[d].cmd[s] = Command(b)'
    <3>1. PICK b \in Actors : Waiting(b) /\ actor[b].drive = d /\ actor[b].slot = s /\ port[d].cmd[s] = Command(b)
      BY <1>2, <2>5 DEF AhciInv
    <3>2. b # a
      BY <3>1
    <3> QED
      BY <3>1, <3>2, <2>1
  <2> QED
    BY <1>2, <2>2, <2>3, <2>4, <2>5 DEF AhciInv
<1> QED
  BY <1>1, <1>2

LEMMA IdeKept ==
  ASSUME IdeInv, NEW a \in Actors, UNCHANGED <<controller, selected>>,
         \A b \in Actors : b # a => actor'[b] = actor[b],
         controller = "ide" => actor'[a].pc \notin {"lock", "wait", "packet"} /\ actor'[a].blks = {}
  PROVE  IdeInv'
BY DEF IdeInv

(* Who does not wait for the NVMe controller has no part in its queues.     *)
LEMMA NvmeKept ==
  ASSUME NvmeInv, NEW a \in Actors, ~Waiting(a), UNCHANGED <<controller, dma, owner, queue, hba>>,
         Sound' => Sound, \A b \in Actors : b # a => actor'[b] = actor[b],
         controller = "nvme" => actor'[a].pc \notin {"wait", "packet"} /\ (Sound' => Copied(a)')
  PROVE  NvmeInv'
<1> SUFFICES ASSUME controller = "nvme" PROVE NvmeInv'
  BY DEF NvmeInv
<1>1. /\ ~Waiting(a)'
      /\ \A b \in Actors : b # a => Waiting(b)' = Waiting(b) /\ Wanted(b)' = Wanted(b) /\ Command(b)' = Command(b)
  BY DEF Waiting, Wanted, Command, Lba
<1>2. \A q \in {"admin", "io"} : (Fetched(q) <=> Fetched(q)') /\ (Taken(q) <=> Taken(q)')
  BY DEF Fetched, Taken
<1>3. PhasesInv' /\ WrittenInv'
  BY DEF NvmeInv, PhasesInv, WrittenInv
<1>4. \A b \in Actors : b # a => (Owed(b) => Owed(b)') /\ (Answered(b) => Answered(b)')
  BY <1>1 DEF Owed, Answered, Fetched, Taken, PhaseAfter
<1>5. \A b \in Actors : Waiting(b)' => owner'["submit"] = b
  BY <1>1 DEF NvmeInv
<1>6. Sound' => \A b \in Actors : Copied(b)'
  <2>1. \A b \in Actors : b # a => (Copied(b) => Copied(b)')
    BY <1>1 DEF Copied
  <2> QED
    BY <2>1 DEF NvmeInv
<1>7. \A b \in Actors : actor'[b].pc # "packet"
  BY DEF NvmeInv
<1>8. ASSUME Sound'
      PROVE  /\ \A b \in Actors : Waiting(b)' => Owed(b)' \/ Answered(b)'
             /\ \A q \in {"admin", "io"} :
                  (\A b \in Actors : Waiting(b)' => actor'[b].q # q) => Fetched(q)' /\ Taken(q)'
  <2>1. \A b \in Actors : Waiting(b) => b # a /\ Waiting(b)' /\ actor'[b].q = actor[b].q
    BY <1>1
  <2>2. \A b \in Actors : Waiting(b)' => b # a /\ Waiting(b)
    BY <1>1
  <2>3. Sound
    BY <1>8
  <2>4. \A b \in Actors : Waiting(b)' => Owed(b)' \/ Answered(b)'
    BY <2>2, <2>3, <1>4 DEF NvmeInv
  <2>5. \A q \in {"admin", "io"} :
          (\A b \in Actors : Waiting(b)' => actor'[b].q # q) => Fetched(q)' /\ Taken(q)'
    BY <2>1, <2>3, <1>2 DEF NvmeInv
  <2> QED
    BY <2>4, <2>5
<1> QED
  BY <1>3, <1>5, <1>6, <1>7, <1>8 DEF NvmeInv, Sound

(* A call that goes on with the blocks it has got so far.                   *)
LEMMA CallGoesOn ==
  ASSUME BootInv, GotInv, ListedInv, NEW a \in Actors, InCall(a), UNCHANGED <<controller, todo, listed>>,
         Sound' => Sound, \A b \in Actors : b # a => actor'[b] = actor[b], actor'[a].pc \notin {"idle", "done"},
         actor'[a].drive = actor[a].drive, actor'[a].lba = actor[a].lba, actor'[a].q = actor[a].q,
         actor'[a].count = actor[a].count, actor'[a].got = actor[a].got, actor'[a].stolen = actor[a].stolen
  PROVE  BootInv' /\ GotInv' /\ ListedInv'
<1>1. \A b \in Actors :
        /\ InCall(b)' <=> InCall(b)
        /\ actor'[b].drive = actor[b].drive /\ actor'[b].q = actor[b].q
        /\ actor'[b].stolen = actor[b].stolen
        /\ actor'[b].pc = "done" => actor[b].pc = "done"
  BY DEF InCall
<1>2. BootInv'
  <2>1. \A r \in Readers : InCall(r)' => Booted'
    BY <1>1, WhoActs DEF BootInv, Booted
  <2>2. actor'["boot"].pc # "done" /\ ~actor'["boot"].stolen
    BY <1>1, WhoActs DEF BootInv
  <2>3. InCall("boot")' => ~Booted' /\ actor'["boot"].drive = Head(todo')
    BY <1>1, WhoActs DEF BootInv, Booted
  <2>4. \A b \in Actors : InCall(b)' /\ (b = "boot" => controller' # "nvme") => actor'[b].drive \in Drives
    BY <1>1 DEF BootInv
  <2>5. \A b \in Actors : InCall(b)' => actor'[b].q = IF b = "boot" THEN "admin" ELSE "io"
    BY <1>1 DEF BootInv
  <2> QED
    BY <2>1, <2>2, <2>3, <2>4, <2>5 DEF BootInv
<1>3. GotInv'
  <2> SUFFICES ASSUME NEW r \in Readers
      PROVE LET x == actor'[r]
            IN /\ Len(x.got) <= x.count
               /\ InCall(r)' => Len(x.got) < x.count
               /\ x.pc = "done" /\ x.ok => Len(x.got) = x.count
               /\ Sound' /\ ~x.stolen => \A i \in 1 .. Len(x.got) : x.got[i] = <<x.drive, x.lba + i - 1>>
    BY DEF GotInv, Sound
  <2>1. CASE r = a
    BY <2>1 DEF GotInv, InCall, Sound
  <2>2. CASE r # a
    BY <2>2, WhoActs DEF GotInv, InCall, Sound
  <2> QED
    BY <2>1, <2>2
<1>4. ListedInv'
  BY DEF ListedInv, Sound
<1> QED
  BY <1>2, <1>3, <1>4

LEMMA FreeIsFree ==
  Free \subseteq Blocks /\ \A a \in Actors : actor[a].blks \intersect Free = {}
BY DEF Free, Held

-----------------------------------------------------------------------------
(* Calls begin                                                              *)

LEMMA IdentifiesKeeps ==
  ASSUME IInv, Identifies
  PROVE  IInv'
<1>1. /\ DiskTypeOK /\ CallsInv /\ BootInv /\ GotInv /\ ListedInv /\ BlocksInv
      /\ NvmeInv /\ AhciInv /\ IdeInv
  BY DEF IInv, CallsInv
<1>2. /\ todo # <<>> /\ actor["boot"].pc = "idle" /\ "boot" \in Actors
      /\ UNCHANGED <<controller, todo, listed, dma, owner, queue, hba, port, selected, mishaps>>
      /\ actor["boot"] \in ActorStates
  BY <1>1, WhoActs, Typed DEF Identifies, Booted, deviceVars
<1>3. Head(todo) \in IF controller = "nvme" THEN Names ELSE Drives
  <2>1. PICK S : S = IF controller = "nvme" THEN Names ELSE Drives
    OBVIOUS
  <2>2. todo \in Seq(S)
    BY <2>1, <1>1, Typed
  <2>3. Head(todo) \in S
    BY <2>2, <1>2
  <2> QED
    BY <2>1, <2>3
<1>4. [actor["boot"] EXCEPT !.pc = "read", !.drive = Head(todo), !.q = "admin"] \in ActorStates
  BY <1>2, <1>3, DriveNames DEF ActorStates
<1>5. actor' = [actor EXCEPT !["boot"] =
                  [actor["boot"] EXCEPT !.pc = "read", !.drive = Head(todo), !.q = "admin"]]
  BY <1>1, <1>2, Typed DEF Identifies
<1>6. /\ actor' \in [Actors -> ActorStates]
      /\ \A b \in Actors : b # "boot" => actor'[b] = actor[b]
  BY <1>1, <1>4, <1>5, Typed
<1>7. /\ actor'["boot"].pc = "read" /\ actor'["boot"].drive = Head(todo) /\ actor'["boot"].q = "admin"
      /\ actor'["boot"].blks = actor["boot"].blks /\ actor'["boot"].buf = actor["boot"].buf
      /\ actor'["boot"].stolen = actor["boot"].stolen
  BY <1>1, <1>2, <1>5, Typed DEF ActorStates
<1>8. DiskTypeOK'
  BY <1>1, <1>2, <1>6 DEF DiskTypeOK
<1>9. BootInv'
  BY <1>1, <1>2, <1>3, <1>6, <1>7, WhoActs DEF BootInv, InCall, Booted
<1>10. GotInv'
  BY <1>1, <1>2, <1>6, WhoActs DEF GotInv, InCall, Sound
<1>11. ListedInv'
  BY <1>1, <1>2 DEF ListedInv, Sound
<1>12. BlocksInv'
  <2>1. Tidy => \A b \in Actors : b # "boot" => actor'["boot"].blks \intersect actor[b].blks = {}
    BY <1>1, <1>2, <1>7 DEF BlocksInv
  <2>2. actor'["boot"].blks = Kept("boot", TRUE)'
    BY <1>1, <1>2, <1>7 DEF BlocksInv, Kept
  <2>3. controller = "nvme" => actor'["boot"].buf \in actor'["boot"].blks \union {Null}
    BY <1>1, <1>2, <1>7 DEF BlocksInv
  <2>4. Sound' => Sound
    BY <1>2 DEF Sound
  <2> QED
    BY <1>1, <1>2, <1>6, <2>1, <2>2, <2>3, <2>4, BlocksOfOne
<1>13. ~Waiting("boot") /\ (Sound' => Sound) /\ Copied("boot")'
  BY <1>2, <1>7 DEF Waiting, Sound, Copied
<1>14. NvmeInv' /\ AhciInv'
  BY <1>1, <1>2, <1>6, <1>7, <1>13, NvmeKept, AhciKept
<1>15. controller = "ide" => actor'["boot"].blks = {}
  BY <1>1, <1>2, <1>7 DEF IdeInv
<1>16. IdeInv'
  BY <1>1, <1>2, <1>6, <1>7, <1>15, IdeKept
<1> QED
  BY <1>8, <1>9, <1>10, <1>11, <1>12, <1>14, <1>16 DEF IInv, CallsInv

LEMMA CallsKeeps ==
  ASSUME IInv, NEW r \in Readers, Calls(r)
  PROVE  IInv'
<1>1. /\ DiskTypeOK /\ CallsInv /\ BootInv /\ GotInv /\ ListedInv /\ BlocksInv
      /\ NvmeInv /\ AhciInv /\ IdeInv
  BY DEF IInv, CallsInv
<1>2. /\ todo = <<>> /\ actor[r].pc \in {"idle", "done"} /\ r \in Actors /\ r # "boot"
      /\ UNCHANGED <<controller, todo, listed, dma, owner, queue, hba, port, selected, mishaps>>
      /\ actor[r].calls \in Nat
  BY <1>1, WhoActs, Typed DEF Calls, Booted, deviceVars
<1>3. PICK d \in Drives, lba \in 0 .. LbaCount - 1, count \in 1 .. MaxCount :
        actor' = [actor EXCEPT ![r] = [Idle EXCEPT !.pc = "read", !.drive = d, !.lba = lba,
                                                   !.count = count, !.calls = actor[r].calls + 1]]
  BY DEF Calls
<1> DEFINE new == [Idle EXCEPT !.pc = "read", !.drive = d, !.lba = lba,
                               !.count = count, !.calls = actor[r].calls + 1]
<1>4. new \in ActorStates
  <2>1. d \in Names /\ lba \in Nat /\ count \in Nat /\ actor[r].calls + 1 \in Nat
    BY <1>2, DriveNames, DiskAssumption
  <2> QED
    BY <2>1, IdleTyped DEF ActorStates
<1>5. /\ new.pc = "read" /\ new.drive = d /\ new.blks = {} /\ new.q = "io" /\ new.got = <<>>
      /\ new.count = count /\ new.ok = FALSE /\ new.buf = Null
  BY DEF Idle
<1> HIDE DEF new
<1>6. actor' \in [Actors -> ActorStates] /\ actor'[r] = new
      /\ \A b \in Actors : b # r => actor'[b] = actor[b]
  BY <1>1, <1>2, <1>3, <1>4, Typed DEF new
<1>7. DiskTypeOK'
  BY <1>1, <1>2, <1>6 DEF DiskTypeOK
<1>8. BootInv'
  BY <1>1, <1>2, <1>5, <1>6, WhoActs DEF BootInv, InCall, Booted
<1>9. GotInv'
  <2>1. Len(new.got) = 0 /\ count \in Nat /\ count > 0
    BY <1>5, DiskAssumption
  <2>2. \A x \in Readers : x # r => actor'[x] = actor[x]
    BY <1>6, WhoActs
  <2> SUFFICES ASSUME NEW u \in Readers
      PROVE LET x == actor'[u]
            IN /\ Len(x.got) <= x.count
               /\ InCall(u)' => Len(x.got) < x.count
               /\ x.pc = "done" /\ x.ok => Len(x.got) = x.count
               /\ Sound' /\ ~x.stolen => \A i \in 1 .. Len(x.got) : x.got[i] = <<x.drive, x.lba + i - 1>>
    BY DEF GotInv, Sound
  <2>3. CASE u = r
    BY <2>1, <2>3, <1>5, <1>6
  <2>4. CASE u # r
    BY <2>2, <2>4, <1>1, <1>2 DEF GotInv, InCall, Sound
  <2> QED
    BY <2>3, <2>4
<1>10. ListedInv'
  BY <1>1, <1>2 DEF ListedInv, Sound
<1>11. BlocksInv'
  <2>1. /\ actor'[r].blks = {} /\ Kept(r, TRUE)' = {} /\ actor'[r].buf = Null
        /\ actor'[r].pc = "read"
    BY <1>2, <1>5, <1>6 DEF Kept
  <2>2. Sound' => Sound
    BY <1>2 DEF Sound
  <2> QED
    BY <1>1, <1>2, <1>6, <2>1, <2>2, BlocksOfOne
<1>12. ~Waiting(r) /\ (Sound' => Sound) /\ Copied(r)'
  BY <1>2, <1>5, <1>6 DEF Waiting, Sound, Copied
<1>13. NvmeInv' /\ AhciInv'
  BY <1>1, <1>2, <1>5, <1>6, <1>12, NvmeKept, AhciKept
<1>14. IdeInv'
  BY <1>1, <1>2, <1>5, <1>6, IdeKept
<1> QED
  BY <1>7, <1>8, <1>9, <1>10, <1>11, <1>13, <1>14 DEF IInv, CallsInv

(* A request beyond the drive.                                              *)
LEMMA RefusesKeeps ==
  ASSUME IInv, NEW a \in Actors, Refuses(a)
  PROVE  IInv'
<1>1. DiskTypeOK /\ BootInv /\ BlocksInv /\ NvmeInv /\ AhciInv /\ IdeInv
  BY DEF IInv, CallsInv
<1>2. /\ Ended(a, FALSE, Null) /\ InCall(a) /\ ~Waiting(a) /\ controller # "nvme" /\ a # "boot"
      /\ UNCHANGED <<controller, dma, owner, queue, hba, port, selected, mishaps>>
  BY DEF Refuses, InCall, Waiting, OutOfRange, deviceVars
<1>3. DiskTypeOK' /\ CallsInv'
  <2>1. Sound' => Sound
    BY <1>2 DEF Sound
  <2>2. /\ owner' \in [Drives \union {"submit"} -> Actors \union {Nobody}]
        /\ queue' \in [{"admin", "io"} -> QueueStates]
        /\ mishaps' \in [errors : 0 .. MaxErrors, slow : 0 .. MaxSlow, torn : BOOLEAN]
    BY <1>1, <1>2 DEF DiskTypeOK
  <2> QED
    BY <1>2, <2>1, <2>2, EndsWell
<1>4. /\ \A b \in Actors : b # a => actor'[b] = actor[b]
      /\ actor'[a].pc = "done" /\ actor'[a].blks = {}
  BY <1>1, <1>2, EndedChanges DEF Kept
<1>5. AhciInv' /\ IdeInv'
  BY <1>1, <1>2, <1>4, AhciKept, IdeKept
<1>6. NvmeInv'
  BY <1>2 DEF NvmeInv
<1> QED
  BY <1>3, <1>5, <1>6 DEF IInv

-----------------------------------------------------------------------------
(* NVMe                                                                     *)

(* A step of one actor that touches neither the queues nor the blocks'       *)
(* contents, and ends no call.                                              *)
LEMMA NvmeStep ==
  ASSUME IInv, NEW a \in Actors, controller = "nvme", InCall(a), ~Waiting(a),
         NEW x \in ActorStates, actor' = [actor EXCEPT ![a] = x],
         UNCHANGED <<controller, todo, listed, dma, owner, queue, hba, port, selected>>,
         mishaps' = mishaps \/ mishaps' = TornBy(a),
         x.pc \notin {"idle", "done", "wait", "packet"},
         x.drive = actor[a].drive, x.lba = actor[a].lba, x.q = actor[a].q,
         x.count = actor[a].count, x.got = actor[a].got, x.stolen = actor[a].stolen,
         x.pc \in {"read", "alloc"} => x.blks = Kept(a, TRUE)',
         Tidy => \A b \in Actors : b # a => x.blks \intersect actor[b].blks = {},
         x.buf \in x.blks \union {Null},
         Sound => /\ x.pc = "copy" /\ x.ok /\ x.buf \in Blocks => dma[x.buf] = Wanted(a)
                  /\ x.pc = "free" /\ x.ok => x.data = Wanted(a)
  PROVE  IInv'
<1>1. /\ DiskTypeOK /\ BootInv /\ GotInv /\ ListedInv /\ BlocksInv /\ NvmeInv /\ AhciInv /\ IdeInv
  BY DEF IInv, CallsInv
<1>2. /\ mishaps' \in [errors : 0 .. MaxErrors, slow : 0 .. MaxSlow, torn : BOOLEAN]
      /\ Sound' => Sound
  <2>1. mishaps \in [errors : 0 .. MaxErrors, slow : 0 .. MaxSlow, torn : BOOLEAN]
    BY <1>1 DEF DiskTypeOK
  <2>2. PICK t \in BOOLEAN : t = \E b \in Actors \ {a} : InHeap(b)
    OBVIOUS
  <2>3. mishaps' = mishaps \/ mishaps' = [mishaps EXCEPT !.torn = mishaps.torn \/ t]
    BY <2>2 DEF TornBy
  <2> QED
    BY <2>1, <2>3 DEF Sound
<1>3. /\ actor' \in [Actors -> ActorStates] /\ actor'[a] = x
      /\ \A b \in Actors : b # a => actor'[b] = actor[b]
  BY <1>1, Typed
<1>4. DiskTypeOK'
  BY <1>1, <1>2, <1>3 DEF DiskTypeOK
<1>5. BootInv' /\ GotInv' /\ ListedInv'
  BY <1>1, <1>2, <1>3, CallGoesOn
<1>6. BlocksInv'
  BY <1>1, <1>2, <1>3, BlocksOfOne
<1>7. Sound' => Copied(a)'
  <2>1. Wanted(a)' = Wanted(a)
    BY <1>3 DEF Wanted, Lba
  <2> QED
    BY <1>2, <1>3, <2>1 DEF Copied
<1>8. NvmeInv'
  BY <1>1, <1>2, <1>3, <1>7, NvmeKept
<1>9. AhciInv' /\ IdeInv'
  BY <1>1 DEF AhciInv, IdeInv
<1> QED
  BY <1>4, <1>5, <1>6, <1>8, <1>9 DEF IInv, CallsInv

LEMMA NvmeBeginsKeeps ==
  ASSUME IInv, NEW a \in Actors, NvmeBegins(a)
  PROVE  IInv'
<1>1. /\ DiskTypeOK /\ BlocksInv
  BY DEF IInv, CallsInv
<1>2. /\ controller = "nvme" /\ actor[a].pc = "read" /\ actor[a] \in ActorStates /\ ~Waiting(a) /\ InCall(a)
      /\ UNCHANGED <<controller, todo, listed, dma, owner, queue, hba, port, selected>>
  BY <1>1, Typed DEF NvmeBegins, deviceVars, Waiting, InCall
<1>3. /\ Tidy => \A b \in Actors : b # a => actor[a].blks \intersect actor[b].blks = {}
      /\ actor[a].buf \in actor[a].blks \union {Null} /\ actor[a].blks = Kept(a, TRUE)
  BY <1>1, <1>2 DEF BlocksInv
<1>5. CASE actor' = [actor EXCEPT ![a].pc = "alloc"] /\ mishaps' = TornBy(a)
  <2> DEFINE x == [actor[a] EXCEPT !.pc = "alloc"]
  <2>1. /\ x \in ActorStates /\ x.pc = "alloc" /\ x.blks = actor[a].blks /\ x.buf = actor[a].buf
        /\ x.drive = actor[a].drive /\ x.lba = actor[a].lba /\ x.q = actor[a].q
        /\ x.count = actor[a].count /\ x.got = actor[a].got /\ x.stolen = actor[a].stolen
    BY <1>2 DEF ActorStates
  <2>2. actor' = [actor EXCEPT ![a] = x]
    BY <1>5, <1>1, Typed
  <2> HIDE DEF x
  <2>3. x.blks = Kept(a, TRUE)'
    <3>1. actor'[a] = x
      BY <1>1, <2>1, <2>2, Typed
    <3> QED
      BY <3>1, <2>1, <1>2, <1>3 DEF Kept
  <2>7. /\ Tidy => \A b \in Actors : b # a => x.blks \intersect actor[b].blks = {}
        /\ x.buf \in x.blks \union {Null}
    BY <1>3, <2>1
  <2>8. x.pc \in {"read", "alloc"} => x.blks = Kept(a, TRUE)'
    BY <2>3
  <2>9. mishaps' = TornBy(a)
    BY <1>5
  <2> QED
    BY <1>2, <2>1, <2>2, <2>7, <2>8, <2>9, NvmeStep
<1>6. CASE /\ actor' = [actor EXCEPT ![a].pc = "lock", ![a].buf = IF Head(todo) \in Drives THEN @ ELSE Null]
           /\ UNCHANGED mishaps
  <2>1. PICK buf \in {actor[a].buf, Null} : buf = IF Head(todo) \in Drives THEN actor[a].buf ELSE Null
    OBVIOUS
  <2> DEFINE x == [actor[a] EXCEPT !.pc = "lock", !.buf = buf]
  <2>2. /\ x \in ActorStates /\ x.pc = "lock" /\ x.blks = actor[a].blks /\ x.buf = buf
        /\ x.drive = actor[a].drive /\ x.lba = actor[a].lba /\ x.q = actor[a].q
        /\ x.count = actor[a].count /\ x.got = actor[a].got /\ x.stolen = actor[a].stolen
    BY <1>2 DEF ActorStates
  <2>3. actor' = [actor EXCEPT ![a] = x]
    BY <1>6, <2>1, <1>1, Typed
  <2> HIDE DEF x
  <2>7. /\ Tidy => \A b \in Actors : b # a => x.blks \intersect actor[b].blks = {}
        /\ x.buf \in x.blks \union {Null}
    BY <1>3, <2>1, <2>2
  <2>8. mishaps' = mishaps
    BY <1>6
  <2> QED
    BY <1>2, <2>2, <2>3, <2>7, <2>8, NvmeStep
<1> QED
  BY <1>5, <1>6 DEF NvmeBegins

(* What the init gives up before it has begun to wait.                      *)
LEMMA InitStops ==
  ASSUME IInv, InCall("boot"), ~Waiting("boot"), actor["boot"].pc = "alloc", controller = "nvme",
         actor' = [actor EXCEPT !["boot"].pc = "idle"], todo' = <<>>,
         UNCHANGED <<controller, listed, dma, owner, queue, hba, port, selected, mishaps>>
  PROVE  IInv'
<1>1. /\ DiskTypeOK /\ BootInv /\ GotInv /\ ListedInv /\ BlocksInv /\ NvmeInv /\ AhciInv /\ IdeInv
  BY DEF IInv, CallsInv
<1>2. actor["boot"] \in ActorStates /\ "boot" \in Actors /\ [actor["boot"] EXCEPT !.pc = "idle"] \in ActorStates
  BY <1>1, Typed, WhoActs, Changed DEF Pcs
<1>3. /\ actor' \in [Actors -> ActorStates]
      /\ actor'["boot"] = [actor["boot"] EXCEPT !.pc = "idle"]
      /\ \A b \in Actors : b # "boot" => actor'[b] = actor[b]
  BY <1>1, <1>2, Typed
<1>4. /\ actor'["boot"].pc = "idle" /\ actor'["boot"].blks = actor["boot"].blks
      /\ actor'["boot"].buf = actor["boot"].buf /\ actor'["boot"].stolen = actor["boot"].stolen
  BY <1>2, <1>3 DEF ActorStates
<1>5. DiskTypeOK'
  BY <1>1, <1>3 DEF DiskTypeOK
<1>6. \A b \in Actors : ~InCall(b)'
  <2>1. \A r \in Readers : ~InCall(r)' /\ actor'[r] = actor[r]
    BY <1>1, <1>3, WhoActs DEF BootInv, InCall, Booted
  <2> QED
    BY <2>1, <1>4, WhoActs DEF InCall
<1>7. BootInv'
  BY <1>1, <1>4, <1>6, WhoActs DEF BootInv
<1>8. Sound' => Sound
  BY DEF Sound
<1>9. GotInv'
  BY <1>1, <1>3, <1>8, WhoActs DEF GotInv, InCall, Sound
<1>10. ListedInv'
  BY <1>1 DEF ListedInv, Sound
<1>11. BlocksInv'
  <2>1. Tidy => \A b \in Actors : b # "boot" => actor'["boot"].blks \intersect actor[b].blks = {}
    BY <1>1, <1>2, <1>4 DEF BlocksInv
  <2>2. actor'["boot"].blks = Kept("boot", TRUE)' /\ actor'["boot"].buf \in actor'["boot"].blks \union {Null}
    BY <1>1, <1>2, <1>4 DEF BlocksInv, Kept
  <2> QED
    BY <1>1, <1>2, <1>3, <1>8, <2>1, <2>2, BlocksOfOne
<1>12. NvmeInv'
  <2>1. Copied("boot")'
    BY <1>4 DEF Copied
  <2> QED
    BY <1>1, <1>2, <1>3, <1>4, <1>8, <2>1, NvmeKept
<1>13. AhciInv' /\ IdeInv'
  BY <1>1 DEF AhciInv, IdeInv
<1> QED
  BY <1>5, <1>7, <1>9, <1>10, <1>11, <1>12, <1>13 DEF IInv, CallsInv

LEMMA NvmeAllocatesKeeps ==
  ASSUME IInv, NEW a \in Actors, NvmeAllocates(a)
  PROVE  IInv'
<1>1. /\ DiskTypeOK /\ BlocksInv
  BY DEF IInv, CallsInv
<1>2. /\ controller = "nvme" /\ actor[a].pc = "alloc" /\ actor[a] \in ActorStates /\ ~Waiting(a) /\ InCall(a)
      /\ UNCHANGED <<controller, listed, dma, owner, queue, hba, port, selected, mishaps>>
  BY <1>1, Typed DEF NvmeAllocates, deviceVars, Waiting, InCall
<1>3. PICK buf \in CanGet :
        IF a = "boot" /\ buf = Null
        THEN actor' = [actor EXCEPT ![a].pc = "idle"] /\ todo' = <<>>
        ELSE /\ actor' = [actor EXCEPT ![a].pc = "lock", ![a].buf = buf,
                                       ![a].blks = @ \union ({buf} \ {Null})]
             /\ UNCHANGED todo
  BY DEF NvmeAllocates
<1>4. buf \in Blocks \union {Null} /\ (Tidy => buf \in Free \union {Null})
  <2>1. Free \in SUBSET Nat /\ Free \subseteq Blocks
    BY DiskAssumption DEF Free
  <2>2. Free # {} => First(Free) \in Free
    BY <2>1, FirstIsOne
  <2>3. Tidy => ~mishaps.torn
    BY <1>2 DEF Tidy, Sound
  <2> QED
    BY <2>1, <2>2, <2>3 DEF CanGet
<1>5. CASE a = "boot" /\ buf = Null
  BY <1>2, <1>3, <1>5, InitStops
<1>6. CASE ~(a = "boot" /\ buf = Null)
  <2> DEFINE more == {buf} \ {Null}
             x == [actor[a] EXCEPT !.pc = "lock", !.buf = buf, !.blks = actor[a].blks \union more]
  <2>1. more \subseteq Blocks /\ buf \in more \union {Null} /\ (Tidy => more \subseteq Free)
    BY <1>4
  <2> HIDE DEF more
  <2>2. actor[a].blks \union more \in SUBSET Blocks
    BY <2>1, <1>2 DEF ActorStates
  <2>3. /\ x \in ActorStates /\ x.pc = "lock" /\ x.blks = actor[a].blks \union more /\ x.buf = buf
        /\ x.drive = actor[a].drive /\ x.lba = actor[a].lba /\ x.q = actor[a].q
        /\ x.count = actor[a].count /\ x.got = actor[a].got /\ x.stolen = actor[a].stolen
    BY <1>2, <1>4, <2>2 DEF ActorStates, Pcs
  <2>4. actor' = [actor EXCEPT ![a] = x] /\ todo' = todo
    BY <1>3, <1>6, <1>1, Typed DEF more
  <2> HIDE DEF x
  <2>5. Tidy => \A b \in Actors : b # a => x.blks \intersect actor[b].blks = {}
    BY <1>1, <2>1, <2>3, FreeIsFree DEF BlocksInv
  <2>6. x.buf \in x.blks \union {Null}
    BY <2>1, <2>3
  <2> QED
    BY <1>2, <2>3, <2>4, <2>5, <2>6, NvmeStep
<1> QED
  BY <1>5, <1>6

(* Behind the mutex what was read is copied, and the block is freed.        *)
LEMMA NvmeCopiesKeeps ==
  ASSUME IInv, NEW a \in Actors, NvmeCopies(a)
  PROVE  IInv'
<1>1. /\ DiskTypeOK /\ BlocksInv /\ NvmeInv
  BY DEF IInv, CallsInv
<1>2. /\ controller = "nvme" /\ actor[a].pc = "copy" /\ actor[a] \in ActorStates /\ ~Waiting(a) /\ InCall(a)
      /\ UNCHANGED <<controller, todo, listed, dma, owner, queue, hba, port, selected>>
  BY <1>1, Typed DEF NvmeCopies, deviceVars, Waiting, InCall
<1>3. /\ Tidy => \A b \in Actors : b # a => actor[a].blks \intersect actor[b].blks = {}
      /\ actor[a].buf \in actor[a].blks \union {Null}
  BY <1>1, <1>2 DEF BlocksInv
<1>4. CASE actor' = [actor EXCEPT ![a].pc = "halted"] /\ UNCHANGED mishaps
  <2> DEFINE x == [actor[a] EXCEPT !.pc = "halted"]
  <2>1. /\ x \in ActorStates /\ x.pc = "halted" /\ x.blks = actor[a].blks /\ x.buf = actor[a].buf
        /\ x.drive = actor[a].drive /\ x.lba = actor[a].lba /\ x.q = actor[a].q
        /\ x.count = actor[a].count /\ x.got = actor[a].got /\ x.stolen = actor[a].stolen
    BY <1>2 DEF ActorStates
  <2>2. actor' = [actor EXCEPT ![a] = x]
    BY <1>4, <1>1, Typed
  <2> HIDE DEF x
  <2>7. /\ Tidy => \A b \in Actors : b # a => x.blks \intersect actor[b].blks = {}
        /\ x.buf \in x.blks \union {Null}
    BY <1>3, <2>1
  <2>8. mishaps' = mishaps
    BY <1>4
  <2> QED
    BY <1>2, <2>1, <2>2, <2>7, <2>8, NvmeStep
<1>5. CASE /\ actor[a].ok => actor[a].buf # Null
           /\ actor' = [actor EXCEPT ![a].pc = "free", ![a].data = IF actor[a].ok THEN Buffer(a) ELSE Null]
           /\ mishaps' = TornBy(a)
  <2>1. PICK data \in Places \union {Null} : data = IF actor[a].ok THEN Buffer(a) ELSE Null
    BY <1>1, Typed DEF Buffer
  <2> DEFINE x == [actor[a] EXCEPT !.pc = "free", !.data = data]
  <2>2. /\ x \in ActorStates /\ x.pc = "free" /\ x.blks = actor[a].blks /\ x.buf = actor[a].buf
        /\ x.drive = actor[a].drive /\ x.lba = actor[a].lba /\ x.q = actor[a].q
        /\ x.count = actor[a].count /\ x.got = actor[a].got /\ x.stolen = actor[a].stolen
        /\ x.ok = actor[a].ok /\ x.data = data
    BY <1>2, <2>1 DEF ActorStates, Pcs
  <2>3. actor' = [actor EXCEPT ![a] = x]
    BY <1>5, <2>1, <1>1, Typed
  <2> HIDE DEF x
  <2>4. Sound /\ actor[a].ok => data = Wanted(a)
    <3> SUFFICES ASSUME Sound, actor[a].ok PROVE data = Wanted(a)
      OBVIOUS
    <3>1. actor[a].buf \in Blocks
      BY <1>1, <1>5, Typed
    <3>2. Copied(a)
      BY <1>1, <1>2 DEF NvmeInv
    <3> QED
      BY <3>1, <3>2, <2>1, <1>2 DEF Copied, Buffer
  <2>7. /\ Tidy => \A b \in Actors : b # a => x.blks \intersect actor[b].blks = {}
        /\ x.buf \in x.blks \union {Null}
    BY <1>3, <2>2
  <2>8. mishaps' = TornBy(a)
    BY <1>5
  <2>9. Sound => (x.pc = "free" /\ x.ok => x.data = Wanted(a))
    BY <2>2, <2>4
  <2> QED
    BY <1>2, <2>2, <2>3, <2>7, <2>8, <2>9, NvmeStep
<1> QED
  BY <1>4, <1>5 DEF NvmeCopies

LEMMA NvmeHangsKeeps ==
  ASSUME IInv, NEW a \in Actors, NvmeHangs(a)
  PROVE  IInv'
<1>1. /\ DiskTypeOK /\ BlocksInv
  BY DEF IInv, CallsInv
<1>2. /\ controller = "nvme" /\ actor[a] \in ActorStates /\ ~Waiting(a) /\ InCall(a)
      /\ actor' = [actor EXCEPT ![a].pc = "halted"]
      /\ UNCHANGED <<controller, todo, listed, dma, owner, queue, hba, port, selected, mishaps>>
  BY <1>1, Typed DEF NvmeHangs, InHeap, deviceVars, Waiting, InCall
<1>3. /\ Tidy => \A b \in Actors : b # a => actor[a].blks \intersect actor[b].blks = {}
      /\ actor[a].buf \in actor[a].blks \union {Null}
  BY <1>1, <1>2 DEF BlocksInv
<1> DEFINE x == [actor[a] EXCEPT !.pc = "halted"]
<1>4. /\ x \in ActorStates /\ x.pc = "halted" /\ x.blks = actor[a].blks /\ x.buf = actor[a].buf
      /\ x.drive = actor[a].drive /\ x.lba = actor[a].lba /\ x.q = actor[a].q
      /\ x.count = actor[a].count /\ x.got = actor[a].got /\ x.stolen = actor[a].stolen
  BY <1>2 DEF ActorStates, Pcs
<1>5. actor' = [actor EXCEPT ![a] = x]
  BY <1>2, <1>1, Typed
<1> HIDE DEF x
<1>7. /\ Tidy => \A b \in Actors : b # a => x.blks \intersect actor[b].blks = {}
      /\ x.buf \in x.blks \union {Null}
  BY <1>3, <1>4
<1>8. mishaps' = mishaps
  BY <1>2
<1> QED
  BY <1>2, <1>4, <1>5, <1>7, <1>8, NvmeStep

LEMMA NvmeFreesKeeps ==
  ASSUME IInv, NEW a \in Actors, NvmeFrees(a)
  PROVE  IInv'
<1>1. DiskTypeOK /\ BootInv /\ BlocksInv /\ NvmeInv /\ AhciInv /\ IdeInv
  BY DEF IInv, CallsInv
<1>2. PICK ok \in BOOLEAN, data \in Places \union {Null} : ok = actor[a].ok /\ data = actor[a].data
  BY <1>1, Typed
<1>3. /\ controller = "nvme" /\ actor[a].pc = "free" /\ Ended(a, ok, data) /\ InCall(a) /\ ~Waiting(a)
      /\ UNCHANGED <<controller, dma, owner, queue, hba, port, selected, mishaps>>
  BY <1>2 DEF NvmeFrees, InCall, Waiting, deviceVars
<1>4. ok /\ Sound => data = Wanted(a)
  BY <1>1, <1>2, <1>3 DEF NvmeInv, Copied
<1>5. Sound' => Sound
  BY <1>3 DEF Sound
<1>6. DiskTypeOK' /\ CallsInv'
  <2>1. /\ owner' \in [Drives \union {"submit"} -> Actors \union {Nobody}]
        /\ queue' \in [{"admin", "io"} -> QueueStates]
        /\ mishaps' \in [errors : 0 .. MaxErrors, slow : 0 .. MaxSlow, torn : BOOLEAN]
    BY <1>1, <1>3 DEF DiskTypeOK
  <2> QED
    BY <1>3, <1>4, <1>5, <2>1, EndsWell
<1>7. a = "boot" => todo # <<>>
  BY <1>1, <1>3 DEF BootInv, Booted
<1>8. /\ \A b \in Actors : b # a => actor'[b] = actor[b]
      /\ actor'[a].pc \in {"idle", "read", "done"}
  BY <1>1, <1>3, <1>7, EndedChanges
<1>9. NvmeInv'
  <2>1. Copied(a)'
    BY <1>8 DEF Copied
  <2> QED
    BY <1>1, <1>3, <1>5, <1>8, <2>1, NvmeKept
<1>10. AhciInv' /\ IdeInv'
  BY <1>3 , <1>1 DEF AhciInv, IdeInv
<1> QED
  BY <1>6, <1>9, <1>10 DEF IInv

(* The doorbell: the queues were empty, because nobody else has the mutex.  *)
LEMMA NvmeSubmitsKeeps ==
  ASSUME IInv, NEW a \in Actors, NvmeSubmits(a)
  PROVE  IInv'
<1>1. /\ DiskTypeOK /\ BootInv /\ GotInv /\ ListedInv /\ BlocksInv /\ NvmeInv /\ AhciInv /\ IdeInv
  BY DEF IInv, CallsInv
<1> DEFINE k == actor[a].q
<1>2. /\ controller = "nvme" /\ actor[a].pc = "lock" /\ owner["submit"] = Nobody
      /\ owner' = [owner EXCEPT !["submit"] = a] /\ actor' = [actor EXCEPT ![a].pc = "wait"]
      /\ UNCHANGED <<controller, todo, listed, dma, hba, port, selected, mishaps>>
  BY DEF NvmeSubmits, MutexFree, Mutex
<1>3. /\ k \in {"admin", "io"} /\ actor[a] \in ActorStates /\ queue[k] \in QueueStates
      /\ hba[k].sqHead \in Entries /\ queue[k].sqTail \in Entries
      /\ queue \in [{"admin", "io"} -> QueueStates]
      /\ owner \in [Drives \union {"submit"} -> Actors \union {Nobody}]
  BY <1>1, Typed DEF DiskTypeOK, QueueStates
<1>4. /\ actor' = [actor EXCEPT ![a] = [actor[a] EXCEPT !.pc = "wait"]]
      /\ [actor[a] EXCEPT !.pc = "wait"] \in ActorStates
  BY <1>1, <1>2, <1>3, Typed, Changed DEF Pcs
<1>5. /\ actor' \in [Actors -> ActorStates]
      /\ \A b \in Actors : b # a => actor'[b] = actor[b]
      /\ actor'[a] = [actor[a] EXCEPT !.pc = "wait"]
  BY <1>1, <1>4, Typed
<1>6. /\ actor'[a].pc = "wait" /\ actor'[a].blks = actor[a].blks /\ actor'[a].buf = actor[a].buf
      /\ actor'[a].drive = actor[a].drive /\ actor'[a].lba = actor[a].lba /\ actor'[a].q = actor[a].q
      /\ actor'[a].count = actor[a].count /\ actor'[a].got = actor[a].got /\ actor'[a].stolen = actor[a].stolen
  BY <1>3, <1>5 DEF ActorStates
<1>7. Command(a)' = Command(a)
  BY <1>6 DEF Command, Wanted, Lba
<1>8. actor[a].buf \in actor[a].blks \union {Null}
  BY <1>1, <1>2 DEF BlocksInv
<1>9. Command(a) \in Commands
  <2>1. Wanted(a) \in Places
    <3>1. /\ actor[a].drive \in Names \union {Nobody} /\ actor[a].lba \in Nat
          /\ actor[a].got \in Seq(Places \union {Null})
      BY <1>1, Typed
    <3>2. actor[a].lba + Len(actor[a].got) \in Int
      BY <3>1
    <3> QED
      BY <3>1, <3>2 DEF Wanted, Places, Lba, Identity
  <2> QED
    BY <2>1, <1>3 DEF Command, Commands, ActorStates
<1>10. /\ queue' = [queue EXCEPT ![k] = [queue[k] EXCEPT
                      !.sq = [queue[k].sq EXCEPT ![queue[k].sqTail] = Command(a)],
                      !.sqTail = EntryAfter(queue[k].sqTail)]]
  BY <1>3 DEF NvmeSubmits, Command, QueueStates
<1>11. /\ queue' \in [{"admin", "io"} -> QueueStates]
       /\ queue'[k].sqTail = EntryAfter(queue[k].sqTail)
       /\ queue'[k].sq[queue[k].sqTail] = Command(a)
       /\ queue'[k].cq = queue[k].cq /\ queue'[k].cqHead = queue[k].cqHead /\ queue'[k].cqPhase = queue[k].cqPhase
       /\ queue'[k].sq = [queue[k].sq EXCEPT ![queue[k].sqTail] = Command(a)]
       /\ \A q \in {"admin", "io"} : q # k => queue'[q] = queue[q]
  <2> DEFINE new == [queue[k] EXCEPT !.sq = [queue[k].sq EXCEPT ![queue[k].sqTail] = Command(a)],
                                     !.sqTail = EntryAfter(queue[k].sqTail)]
  <2>1. EntryAfter(queue[k].sqTail) \in Entries
    BY <1>3, EntryRound
  <2>2. /\ new \in QueueStates /\ new.sqTail = EntryAfter(queue[k].sqTail)
        /\ new.sq[queue[k].sqTail] = Command(a)
        /\ new.sq = [queue[k].sq EXCEPT ![queue[k].sqTail] = Command(a)]
        /\ new.cq = queue[k].cq /\ new.cqHead = queue[k].cqHead /\ new.cqPhase = queue[k].cqPhase
    BY <1>3, <1>9, <2>1 DEF QueueStates
  <2> HIDE DEF new
  <2>3. queue' = [queue EXCEPT ![k] = new]
    BY <1>10 DEF new
  <2> QED
    BY <1>3, <2>2, <2>3
<1>12. DiskTypeOK'
  <2>1. owner' \in [Drives \union {"submit"} -> Actors \union {Nobody}]
    BY <1>2, <1>3
  <2> QED
    BY <1>1, <1>2, <1>5, <1>11, <2>1 DEF DiskTypeOK
<1>13. BootInv' /\ GotInv' /\ ListedInv'
  <2>1. InCall(a) /\ (Sound' => Sound)
    BY <1>2 DEF InCall, Sound
  <2> QED
    BY <1>1, <1>2, <1>5, <1>6, <2>1, CallGoesOn
<1>16. BlocksInv'
  <2>1. Tidy => \A b \in Actors : b # a => actor'[a].blks \intersect actor[b].blks = {}
    BY <1>1, <1>6 DEF BlocksInv
  <2>2. Sound' => Sound
    BY <1>2 DEF Sound
  <2> QED
    BY <1>1, <1>2, <1>5, <1>6, <1>8, <2>1, <2>2, BlocksOfOne
<1>17. NvmeInv'
  <2>1. \A b \in Actors : ~Waiting(b) /\ (Waiting(b)' => b = a)
    BY <1>1, <1>2, <1>5, WhoActs DEF NvmeInv, Waiting
  <2>2. \A b \in Actors : Waiting(b)' => owner'["submit"] = b
    BY <1>2, <1>3, <2>1
  <2>3. Sound' => \A b \in Actors : Copied(b)'
    <3>1. Sound' => \A b \in Actors : Copied(b)
      BY <1>1, <1>2 DEF NvmeInv, Sound
    <3>2. \A b \in Actors : b # a => (Copied(b) => Copied(b)')
      BY <1>2, <1>5 DEF Copied, Wanted, Lba
    <3>3. Copied(a)'
      BY <1>6 DEF Copied
    <3> QED
      BY <3>1, <3>2, <3>3
  <2>4. \A b \in Actors : actor'[b].pc # "packet"
    BY <1>1, <1>2, <1>5, <1>6 DEF NvmeInv
  <2>5. PhasesInv'
    <3>1. \A q \in {"admin", "io"} : queue'[q].cq = queue[q].cq /\ hba'[q] = hba[q]
      BY <1>2, <1>11
    <3>2. PhasesInv
      BY <1>1, <1>2 DEF NvmeInv
    <3> QED
      BY <3>1, <3>2 DEF PhasesInv
  <2>7. WrittenInv'
    <3> DEFINE t == queue[k].sqTail  n == EntryAfter(t)
    <3>1. t \in Nat /\ n = IF t + 1 = Depth THEN 0 ELSE t + 1
      BY <1>3, EntryRound DEF Entries
    <3>2. hba[k].sqHead \in Int /\ Depth \in Nat
      BY <1>3, DiskAssumption DEF Entries
    <3>5. hba'[k] = hba[k] /\ queue'[k].sqTail = n
      BY <1>2, <1>11
    <3> HIDE DEF n
    <3>3. ASSUME NEW e \in Entries
          PROVE  queue'[k].sq[e] \in Commands \/ (hba'[k].sqHead <= queue'[k].sqTail /\ queue'[k].sqTail <= e)
      <4>1. CASE e = queue[k].sqTail
        BY <4>1, <1>9, <1>11
      <4>2. CASE e # queue[k].sqTail
        <5>1. queue'[k].sq[e] = queue[k].sq[e]
          BY <4>2, <1>3, <1>11 DEF QueueStates
        <5>2. queue[k].sq[e] \in Commands \/ (hba[k].sqHead <= queue[k].sqTail /\ queue[k].sqTail <= e)
          BY <1>1, <1>2, <1>3 DEF NvmeInv, WrittenInv
        <5>3. e \in Nat /\ e < Depth
          BY DiskAssumption DEF Entries
        <5>4. t <= e => n <= e /\ t < n
          <6> HIDE DEF t
          <6> QED
            BY <3>1, <3>2, <4>2, <5>3 DEF t
        <5>5. hba[k].sqHead <= t /\ t <= e => hba[k].sqHead <= n /\ n <= e
          <6>1. n \in Nat
            BY <3>1, <3>2
          <6> HIDE DEF t
          <6> QED
            BY <3>1, <3>2, <5>4, <6>1
        <5> QED
          BY <5>1, <5>2, <5>5, <3>5
      <4> QED
        BY <4>1, <4>2
    <3>4. ASSUME NEW q \in {"admin", "io"}, q # k
          PROVE  hba'[q] = hba[q] /\ queue'[q] = queue[q]
      BY <3>4, <1>2, <1>11
    <3> QED
      BY <3>3, <3>4, <1>1, <1>2, <1>3 DEF NvmeInv, WrittenInv
  <2>6. ASSUME Sound'
        PROVE  /\ \A b \in Actors : Waiting(b)' => Owed(b)' \/ Answered(b)'
               /\ \A q \in {"admin", "io"} :
                    (\A b \in Actors : Waiting(b)' => actor'[b].q # q) => Fetched(q)' /\ Taken(q)'
    <3>1. \A q \in {"admin", "io"} : Fetched(q) /\ Taken(q)
      BY <1>1, <1>2, <2>1, <2>6 DEF NvmeInv, Sound
    <3>2. \A q \in {"admin", "io"} : Taken(q)' /\ (q # k => Fetched(q)')
      BY <3>1, <1>2, <1>11 DEF Taken, Fetched
    <3>3. Owed(a)'
      <4>1. hba[k].sqHead = queue[k].sqTail /\ hba'[k] = hba[k] /\ actor'[a].q = k
        BY <3>1, <1>2, <1>3, <1>6 DEF Fetched
      <4>2. /\ queue'[k].sqTail = EntryAfter(hba'[k].sqHead)
            /\ queue'[k].sq[hba'[k].sqHead] = Command(a)'
        BY <4>1, <1>7, <1>11
      <4>3. Taken(k)'
        BY <3>2, <4>1, <1>3
      <4> QED
        BY <4>1, <4>2, <4>3 DEF Owed, Taken
    <3>4. \A q \in {"admin", "io"} : (\A b \in Actors : Waiting(b)' => actor'[b].q # q) => q # k
      BY <1>6 DEF Waiting
    <3> QED
      BY <2>1, <3>2, <3>3, <3>4
  <2> QED
    BY <2>2, <2>3, <2>4, <2>5, <2>6, <2>7 DEF NvmeInv, Sound
<1>18. AhciInv'
  BY <1>1, <1>2 DEF AhciInv
<1>19. IdeInv'
  BY <1>2 DEF IdeInv
<1> QED
  BY <1>12, <1>13, <1>16, <1>17, <1>18, <1>19 DEF IInv, CallsInv

(* What the completion queue says is for the one who has the mutex.         *)
LEMMA OneWaits ==
  ASSUME NvmeInv, controller = "nvme", NEW a \in Actors, Waiting(a)
  PROVE  \A b \in Actors : Waiting(b) => b = a
BY DEF NvmeInv

(* The wait is over: boot goes on, a reader has still to copy and to free.  *)
LEMMA LeavesWell ==
  ASSUME IInv, NEW a \in Actors, NEW ok \in BOOLEAN, controller = "nvme", Waiting(a), NvmeLeaves(a, ok),
         UNCHANGED <<controller, dma, hba, port, selected>>, Sound' => Sound,
         queue' \in [{"admin", "io"} -> QueueStates],
         mishaps' \in [errors : 0 .. MaxErrors, slow : 0 .. MaxSlow, torn : BOOLEAN],
         Sound' /\ ok /\ actor[a].buf \in Blocks => dma[actor[a].buf] = Wanted(a)
  PROVE  /\ DiskTypeOK' /\ CallsInv' /\ actor'[a].pc \in {"idle", "copy"}
         /\ \A b \in Actors : b # a => actor'[b] = actor[b]
         /\ Sound' => Copied(a)'
<1>1. /\ DiskTypeOK /\ BootInv /\ GotInv /\ ListedInv /\ BlocksInv
  BY DEF IInv, CallsInv
<1>2. InCall(a) /\ actor[a] \in ActorStates /\ owner' = [owner EXCEPT !["submit"] = Nobody]
  BY <1>1, Typed DEF InCall, Waiting, NvmeLeaves, Unlocked, Mutex
<1>3. owner' \in [Drives \union {"submit"} -> Actors \union {Nobody}]
  BY <1>1, <1>2 DEF DiskTypeOK
<1>4. CASE a = "boot"
  <2>1. PICK data \in Places \union {Null} : data = Buffer(a)
    BY <1>1, Typed DEF Buffer
  <2>2. Ended(a, ok, data)
    BY <2>1, <1>4 DEF NvmeLeaves, Ended
  <2>3. todo # <<>>
    BY <1>1, <1>2, <1>4 DEF BootInv, Booted
  <2>4. /\ \A b \in Actors : b # a => actor'[b] = actor[b]
        /\ actor'[a].pc = "idle"
    BY <1>1, <1>4, <2>2, <2>3, EndedChanges
  <2>5. Sound' /\ ok => data = Wanted(a) \/ (a = "boot" /\ data = Null)
    BY <1>4, <2>1 DEF Buffer
  <2>6. CallsInv'
    <3>1. a = "boot" /\ ok /\ Sound' => data \in {Null, Wanted(a)}
      BY <2>5
    <3>2. CallsInv
      BY DEF IInv
    <3> QED
      BY <1>1, <1>2, <1>4, <2>2, <3>1, <3>2, EndedCalls
  <2>7. DiskTypeOK'
    <3>1. /\ actor' \in [Actors -> ActorStates] /\ listed' \in [Drives -> Places \union {Null}]
          /\ todo' \in Seq(IF controller = "nvme" THEN Names ELSE Drives)
      BY <1>1, <2>2, <2>3, EndedChanges
    <3> QED
      BY <3>1, <1>1, <1>3 DEF DiskTypeOK
  <2> QED
    BY <2>4, <2>6, <2>7 DEF Copied
<1>5. CASE a # "boot"
  <2> DEFINE x == [actor[a] EXCEPT !.pc = "copy", !.ok = ok]
  <2>1. /\ x \in ActorStates /\ x.pc = "copy" /\ x.blks = actor[a].blks /\ x.buf = actor[a].buf
        /\ x.drive = actor[a].drive /\ x.lba = actor[a].lba /\ x.q = actor[a].q /\ x.ok = ok
        /\ x.count = actor[a].count /\ x.got = actor[a].got /\ x.stolen = actor[a].stolen
    BY <1>2 DEF ActorStates, Pcs
  <2>2. actor' = [actor EXCEPT ![a] = x] /\ UNCHANGED <<listed, todo>>
    BY <1>1, <1>5, Typed DEF NvmeLeaves
  <2> HIDE DEF x
  <2>3. /\ actor' \in [Actors -> ActorStates] /\ actor'[a] = x
        /\ \A b \in Actors : b # a => actor'[b] = actor[b]
    BY <1>1, <2>1, <2>2, Typed
  <2>4. BootInv' /\ GotInv' /\ ListedInv'
    BY <1>1, <1>2, <2>1, <2>2, <2>3, CallGoesOn
  <2>5. BlocksInv'
    <3>1. Tidy => \A b \in Actors : b # a => actor'[a].blks \intersect actor[b].blks = {}
      BY <1>1, <2>1, <2>3 DEF BlocksInv
    <3>2. actor'[a].buf \in actor'[a].blks \union {Null}
      BY <1>1, <2>1, <2>3 DEF BlocksInv
    <3> QED
      BY <1>1, <2>1, <2>3, <3>1, <3>2, BlocksOfOne
  <2>6. Sound' => Copied(a)'
    BY <2>1, <2>3 DEF Copied, Wanted, Lba
  <2>7. DiskTypeOK'
    BY <1>1, <1>3, <2>2, <2>3 DEF DiskTypeOK
  <2> QED
    BY <2>1, <2>3, <2>4, <2>5, <2>6, <2>7 DEF CallsInv
<1> QED
  BY <1>4, <1>5

(* The queues are as they should be, and nobody waits.                      *)
LEMMA NvmeEnds ==
  ASSUME NvmeInv, controller = "nvme", NEW a \in Actors, Waiting(a), UNCHANGED <<controller, hba, dma>>,
         Sound' => Sound, actor'[a].pc \in {"idle", "copy"},
         \A b \in Actors : b # a => actor'[b] = actor[b], Sound' => Copied(a)',
         \A q \in {"admin", "io"} : /\ queue'[q].cq = queue[q].cq /\ queue'[q].sq = queue[q].sq
                                    /\ queue'[q].sqTail = queue[q].sqTail,
         Sound' => \A q \in {"admin", "io"} : Fetched(q)' /\ Taken(q)'
  PROVE  NvmeInv'
<1>1. \A b \in Actors : ~Waiting(b)'
  BY OneWaits DEF Waiting
<1>2. PhasesInv' /\ WrittenInv'
  BY DEF NvmeInv, PhasesInv, WrittenInv
<1>3. Sound' => \A b \in Actors : Copied(b)'
  <2>1. \A b \in Actors : b # a => (Copied(b) => Copied(b)')
    BY DEF Copied, Wanted, Lba
  <2> QED
    BY <2>1 DEF NvmeInv
<1>4. \A b \in Actors : actor'[b].pc # "packet"
  BY DEF NvmeInv
<1> QED
  BY <1>1, <1>2, <1>3, <1>4 DEF NvmeInv

LEMMA NvmeTakesKeeps ==
  ASSUME IInv, NEW a \in Actors, NvmeTakes(a)
  PROVE  IInv'
<1>1. DiskTypeOK /\ NvmeInv /\ AhciInv /\ IdeInv
  BY DEF IInv
<1> DEFINE k == actor[a].q
<1>2. PICK ok \in BOOLEAN : ok = (queue[k].cq[queue[k].cqHead].status = "ok")
  OBVIOUS
<1>3. /\ controller = "nvme" /\ Waiting(a) /\ NvmeLeaves(a, ok)
      /\ queue' = [queue EXCEPT ![k].cqHead = EntryAfter(@), ![k].cqPhase = PhaseAfter(k)]
      /\ UNCHANGED <<controller, dma, hba, port, selected, mishaps>>
  BY <1>2 DEF NvmeTakes, Waiting
<1>4. /\ k \in {"admin", "io"} /\ queue \in [{"admin", "io"} -> QueueStates] /\ queue[k] \in QueueStates
      /\ owner \in [Drives \union {"submit"} -> Actors \union {Nobody}]
      /\ mishaps \in [errors : 0 .. MaxErrors, slow : 0 .. MaxSlow, torn : BOOLEAN]
      /\ queue[k].cqHead \in Entries /\ queue[k].cqPhase \in {0, 1}
  BY <1>1, Typed DEF DiskTypeOK, QueueStates
<1>5. /\ queue' \in [{"admin", "io"} -> QueueStates]
      /\ queue'[k].cqHead = EntryAfter(queue[k].cqHead) /\ queue'[k].cqPhase = PhaseAfter(k)
      /\ queue'[k].sqTail = queue[k].sqTail
      /\ \A q \in {"admin", "io"} : q # k => queue'[q] = queue[q]
      /\ \A q \in {"admin", "io"} : /\ queue'[q].cq = queue[q].cq /\ queue'[q].sq = queue[q].sq
                                    /\ queue'[q].sqTail = queue[q].sqTail
  <2> DEFINE new == [queue[k] EXCEPT !.cqHead = EntryAfter(queue[k].cqHead), !.cqPhase = PhaseAfter(k)]
  <2>1. EntryAfter(queue[k].cqHead) \in Entries /\ PhaseAfter(k) \in {0, 1}
    BY <1>4, EntryRound DEF PhaseAfter
  <2>2. new \in QueueStates
    BY <1>4, <2>1 DEF QueueStates
  <2>3. /\ new.cqHead = EntryAfter(queue[k].cqHead) /\ new.cqPhase = PhaseAfter(k)
        /\ new.sqTail = queue[k].sqTail /\ new.cq = queue[k].cq /\ new.sq = queue[k].sq
    BY <1>4 DEF QueueStates
  <2>4. queue' = [queue EXCEPT ![k] = new]
    BY <1>3, <1>4 DEF QueueStates
  <2> HIDE DEF new
  <2> QED
    BY <1>4, <2>2, <2>3, <2>4
<1>6. Sound => Answered(a)
  BY TakesItsAnswer
<1>7. Sound' => Sound
  BY <1>3 DEF Sound
<1>8. /\ DiskTypeOK' /\ CallsInv' /\ actor'[a].pc \in {"idle", "copy"}
      /\ \A b \in Actors : b # a => actor'[b] = actor[b]
      /\ Sound' => Copied(a)'
  <2>1. Sound' /\ ok /\ actor[a].buf \in Blocks => dma[actor[a].buf] = Wanted(a)
    BY <1>2, <1>6, <1>7 DEF Answered
  <2> QED
    BY <1>3, <1>4, <1>5, <1>7, <2>1, LeavesWell
<1>9. Sound' => \A q \in {"admin", "io"} : Fetched(q)' /\ Taken(q)'
  <2> SUFFICES ASSUME Sound PROVE \A q \in {"admin", "io"} : Fetched(q)' /\ Taken(q)'
    BY <1>3 DEF Sound
  <2>1. PICK p \in {"admin", "io"} : p = k
    BY <1>4
  <2>2. Fetched(p)' /\ Taken(p)'
    BY <2>1, <1>3, <1>5, <1>6 DEF Answered, Fetched, Taken
  <2>3. \A q \in {"admin", "io"} : q # p => Fetched(q) /\ Taken(q)
    BY <2>1, <1>1, <1>3, OneWaits DEF NvmeInv
  <2>4. \A q \in {"admin", "io"} : q # p => Fetched(q)' /\ Taken(q)'
    BY <2>1, <2>3, <1>3, <1>5 DEF Fetched, Taken
  <2> QED
    BY <2>2, <2>4
<1>10. NvmeInv'
  BY <1>1, <1>3, <1>5, <1>7, <1>8, <1>9, NvmeEnds
<1>11. AhciInv'
  BY <1>1, <1>3 DEF AhciInv
<1>12. IdeInv'
  BY <1>3 DEF IdeInv
<1> QED
  BY <1>8, <1>10, <1>11, <1>12 DEF IInv

LEMMA NvmeGivesUpKeeps ==
  ASSUME IInv, NEW a \in Actors, NvmeGivesUp(a)
  PROVE  IInv'
<1>1. DiskTypeOK /\ NvmeInv /\ AhciInv /\ IdeInv
  BY DEF IInv
<1>2. /\ controller = "nvme" /\ Waiting(a) /\ NvmeLeaves(a, FALSE)
      /\ UNCHANGED <<controller, dma, queue, hba, port, selected>>
  BY DEF NvmeGivesUp, Waiting, deviceVars
<1>3. ~Sound'
  BY GivingUpIsLate
<1>4. /\ DiskTypeOK' /\ CallsInv' /\ actor'[a].pc \in {"idle", "copy"}
      /\ \A b \in Actors : b # a => actor'[b] = actor[b]
      /\ Sound' => Copied(a)'
  <2>1. queue' \in [{"admin", "io"} -> QueueStates]
    BY <1>1, <1>2 DEF DiskTypeOK
  <2>2. mishaps' \in [errors : 0 .. MaxErrors, slow : 0 .. MaxSlow, torn : BOOLEAN]
    <3>1. mishaps \in [errors : 0 .. MaxErrors, slow : 0 .. MaxSlow, torn : BOOLEAN]
      BY <1>1 DEF DiskTypeOK
    <3>2. mishaps' = mishaps \/ (mishaps.slow < MaxSlow /\ mishaps' = [mishaps EXCEPT !.slow = mishaps.slow + 1])
      BY DEF NvmeGivesUp
    <3> QED
      BY <3>1, <3>2, DiskAssumption
  <2> QED
    BY <1>2, <1>3, <2>1, <2>2, LeavesWell
<1>5. NvmeInv'
  BY <1>1, <1>2, <1>3, <1>4, NvmeEnds
<1>6. AhciInv' /\ IdeInv'
  BY <1>1, <1>2 DEF AhciInv, IdeInv
<1> QED
  BY <1>4, <1>5, <1>6 DEF IInv

LEMMA OneMoreError ==
  ASSUME mishaps \in [errors : 0 .. MaxErrors, slow : 0 .. MaxSlow, torn : BOOLEAN],
         \/ mishaps.errors < MaxErrors /\ mishaps' = [mishaps EXCEPT !.errors = @ + 1]
         \/ mishaps' = mishaps
  PROVE  mishaps' \in [errors : 0 .. MaxErrors, slow : 0 .. MaxSlow, torn : BOOLEAN] /\ (Sound' <=> Sound)
<1>1. CASE mishaps.errors < MaxErrors /\ mishaps' = [mishaps EXCEPT !.errors = @ + 1]
  <2>1. PICK n \in 0 .. MaxErrors : n = mishaps.errors + 1
    BY <1>1, DiskAssumption
  <2>2. mishaps' = [mishaps EXCEPT !.errors = n]
    BY <1>1, <2>1
  <2> QED
    BY <2>2 DEF Sound
<1>2. CASE mishaps' = mishaps
  BY <1>2 DEF Sound
<1> QED
  BY <1>1, <1>2

(* The controller executes what is owed.                                    *)
LEMMA NvmeExecutesKeeps ==
  ASSUME IInv, NEW k \in {"admin", "io"}, NEW status \in {"ok", "error"}, NvmeExecutes(k, status)
  PROVE  IInv'
<1>1. /\ DiskTypeOK /\ CallsInv /\ BootInv /\ GotInv /\ ListedInv /\ BlocksInv
      /\ NvmeInv /\ AhciInv /\ IdeInv
  BY DEF IInv, CallsInv
<1> DEFINE h == hba[k].sqHead  t == hba[k].cqTail  f == hba[k].phase  u == queue[k]
           c == u.sq[h]
<1>2. /\ controller = "nvme" /\ h # u.sqTail /\ EntryAfter(t) # u.cqHead
      /\ UNCHANGED <<controller, actor, todo, listed, owner, port, selected>>
      /\ dma' = Executes(c, status)
      /\ queue' = [queue EXCEPT ![k] = [u EXCEPT !.cq = [u.cq EXCEPT ![t] = [phase |-> f, status |-> status]]]]
      /\ hba' = [hba EXCEPT ![k] = [sqHead |-> EntryAfter(h), cqTail |-> EntryAfter(t),
                                    phase |-> IF t + 1 = Depth THEN 1 - f ELSE f]]
      /\ \/ mishaps.errors < MaxErrors /\ mishaps' = [mishaps EXCEPT !.errors = @ + 1]
         \/ mishaps' = mishaps
  BY DEF NvmeExecutes, NvmeOwes, NvmeRoom
<1>3. /\ queue \in [{"admin", "io"} -> QueueStates] /\ u \in QueueStates
      /\ hba \in [{"admin", "io"} -> [sqHead : Entries, cqTail : Entries, phase : {0, 1}]]
      /\ h \in Entries /\ t \in Entries /\ f \in {0, 1} /\ u.sqTail \in Entries /\ u.cqHead \in Entries
      /\ mishaps \in [errors : 0 .. MaxErrors, slow : 0 .. MaxSlow, torn : BOOLEAN]
      /\ dma \in [Blocks -> Places \union {Null}]
  BY <1>1 DEF DiskTypeOK, QueueStates
<1>4. Entries \subseteq Int /\ Depth \in Int /\ \A e \in Entries : 0 <= e /\ e < Depth
  BY DiskAssumption DEF Entries
<1>5. c \in Commands
  BY <1>1, <1>2, <1>3, <1>4 DEF NvmeInv, WrittenInv
<1>6. EntryAfter(h) \in Entries /\ EntryAfter(t) \in Entries
      /\ EntryAfter(h) = (IF h + 1 = Depth THEN 0 ELSE h + 1)
      /\ EntryAfter(t) = (IF t + 1 = Depth THEN 0 ELSE t + 1)
  BY <1>3, EntryRound
<1>7. /\ queue' \in [{"admin", "io"} -> QueueStates]
      /\ queue'[k].sq = u.sq /\ queue'[k].sqTail = u.sqTail
      /\ queue'[k].cqHead = u.cqHead /\ queue'[k].cqPhase = u.cqPhase
      /\ queue'[k].cq = [u.cq EXCEPT ![t] = [phase |-> f, status |-> status]]
      /\ \A q \in {"admin", "io"} : q # k => queue'[q] = queue[q]
  <2> DEFINE new == [u EXCEPT !.cq = [u.cq EXCEPT ![t] = [phase |-> f, status |-> status]]]
  <2>1. [phase |-> f, status |-> status] \in [phase : {0, 1}, status : {"ok", "error"}]
    BY <1>3
  <2>2. [u.cq EXCEPT ![t] = [phase |-> f, status |-> status]]
          \in [Entries -> [phase : {0, 1}, status : {"ok", "error"}]]
    BY <2>1, <1>3 DEF QueueStates
  <2>3. /\ new \in QueueStates /\ new.sq = u.sq /\ new.sqTail = u.sqTail
        /\ new.cqHead = u.cqHead /\ new.cqPhase = u.cqPhase
        /\ new.cq = [u.cq EXCEPT ![t] = [phase |-> f, status |-> status]]
    BY <1>3, <2>2 DEF QueueStates
  <2>4. queue' = [queue EXCEPT ![k] = new]
    BY <1>2
  <2> HIDE DEF new
  <2> QED
    BY <1>3, <2>3, <2>4
<1>8. /\ hba' \in [{"admin", "io"} -> [sqHead : Entries, cqTail : Entries, phase : {0, 1}]]
      /\ hba'[k].sqHead = EntryAfter(h) /\ hba'[k].cqTail = EntryAfter(t)
      /\ hba'[k].phase = IF t + 1 = Depth THEN 1 - f ELSE f
      /\ \A q \in {"admin", "io"} : q # k => hba'[q] = hba[q]
  BY <1>2, <1>3, <1>6
<1>9. dma' \in [Blocks -> Places \union {Null}]
  BY <1>2, <1>3, <1>5 DEF Executes, Commands
<1>10. mishaps' \in [errors : 0 .. MaxErrors, slow : 0 .. MaxSlow, torn : BOOLEAN] /\ (Sound' <=> Sound)
  BY <1>2, <1>3, OneMoreError
<1> HIDE DEF h, t, f, u, c
<1>11. DiskTypeOK'
  BY <1>1, <1>2, <1>7, <1>8, <1>9, <1>10 DEF DiskTypeOK
<1>12. BootInv' /\ GotInv' /\ BlocksInv'
  BY <1>1, <1>2, <1>10 DEF BootInv, GotInv, BlocksInv, Tidy, InCall, Booted, Waiting, Kept
<1>13. ListedInv'
  BY <1>1, <1>2, <1>10 DEF ListedInv
<1>14. PhasesInv'
  <2> SUFFICES ASSUME NEW q \in {"admin", "io"}, NEW e \in Entries
      PROVE queue'[q].cq[e].phase = IF e < hba'[q].cqTail THEN hba'[q].phase ELSE 1 - hba'[q].phase
    BY DEF PhasesInv
  <2>1. queue[q].cq[e].phase = IF e < hba[q].cqTail THEN hba[q].phase ELSE 1 - hba[q].phase
    BY <1>1, <1>2 DEF NvmeInv, PhasesInv
  <2>2. CASE q # k
    BY <2>1, <2>2, <1>7, <1>8
  <2>3. CASE q = k
    <3>1. u.cq[e].phase = IF e < t THEN f ELSE 1 - f
      BY <2>1, <2>3 DEF u, t, f
    <3>2. queue'[k].cq[e].phase = IF e = t THEN f ELSE u.cq[e].phase
      BY <1>3, <1>7 DEF QueueStates
    <3>3. queue'[k].cq[e].phase = IF e <= t THEN f ELSE 1 - f
      BY <3>1, <3>2, <1>3, <1>4
    <3>4. CASE t + 1 = Depth
      BY <2>3, <3>3, <3>4, <1>3, <1>4, <1>6, <1>8
    <3>5. CASE t + 1 # Depth
      BY <2>3, <3>3, <3>5, <1>3, <1>4, <1>6, <1>8
    <3> QED
      BY <3>4, <3>5
  <2> QED
    BY <2>2, <2>3
<1>15. WrittenInv'
  <2>1. \A e \in Entries : u.sq[e] \in Commands \/ (h <= u.sqTail /\ u.sqTail <= e)
    BY <1>1, <1>2 DEF NvmeInv, WrittenInv, u, h
  <2>2. \A e \in Entries : u.sq[e] \in Commands \/ (EntryAfter(h) <= u.sqTail /\ u.sqTail <= e)
    BY <2>1, <1>2, <1>3, <1>4, <1>6
  <2>3. \A e \in Entries : \/ queue'[k].sq[e] \in Commands
                           \/ hba'[k].sqHead <= queue'[k].sqTail /\ queue'[k].sqTail <= e
    BY <2>2, <1>7, <1>8
  <2>4. \A q \in {"admin", "io"} : q # k => queue'[q] = queue[q] /\ hba'[q] = hba[q]
    BY <1>7, <1>8
  <2> QED
    BY <2>3, <2>4, <1>1, <1>2 DEF NvmeInv, WrittenInv
<1>16. \A b \in Actors : /\ Waiting(b)' <=> Waiting(b)
                         /\ Wanted(b)' = Wanted(b) /\ Command(b)' = Command(b)
  BY <1>2 DEF Waiting, Wanted, Command, Lba
<1>17. ASSUME Sound
       PROVE  /\ \A b \in Actors : Waiting(b)' => Owed(b)' \/ Answered(b)'
              /\ \A q \in {"admin", "io"} :
                   (\A b \in Actors : Waiting(b)' => actor'[b].q # q) => Fetched(q)' /\ Taken(q)'
              /\ \A b \in Actors : Copied(b)'
  <2>1. ~Fetched(k)
    BY <1>2 DEF Fetched, h, u
  <2>2. PICK a \in Actors : Waiting(a) /\ actor[a].q = k /\ Owed(a)
    BY <2>1, <1>1, <1>2, <1>17 DEF NvmeInv, Answered
  <2>3. \A b \in Actors : Waiting(b) => b = a
    BY <2>2, <1>1, <1>2, OneWaits
  <2>4. c = Command(a) /\ t = u.cqHead /\ f = u.cqPhase /\ u.sqTail = EntryAfter(h)
    BY <2>2 DEF Owed, Taken, c, u, h, t, f
  <2>5. status = "ok" /\ actor[a].buf \in Blocks => dma'[actor[a].buf] = Wanted(a)
    BY <2>4, <1>2, <1>3 DEF Executes, Command
  <2>6. Answered(a)'
    <3>1. queue'[k].cq[queue'[k].cqHead].status = status
      BY <2>4, <1>3, <1>7 DEF QueueStates
    <3>2. /\ hba'[k].sqHead = queue'[k].sqTail
          /\ hba'[k].cqTail = EntryAfter(queue'[k].cqHead)
          /\ hba'[k].phase = IF queue'[k].cqHead + 1 = Depth THEN 1 - queue'[k].cqPhase ELSE queue'[k].cqPhase
      BY <2>4, <1>7, <1>8
    <3>3. actor'[a].q = k /\ actor'[a].buf = actor[a].buf /\ Wanted(a)' = Wanted(a)
      BY <2>2, <1>2, <1>16
    <3> QED
      BY <3>1, <3>2, <3>3, <2>5 DEF Answered, Fetched, PhaseAfter
  <2>7. \A q \in {"admin", "io"} : q # k => Fetched(q)' /\ Taken(q)'
    <3>1. \A q \in {"admin", "io"} : q # k => Fetched(q) /\ Taken(q)
      BY <2>2, <2>3, <1>1, <1>2, <1>17 DEF NvmeInv
    <3> QED
      BY <3>1, <1>7, <1>8 DEF Fetched, Taken
  <2>8. \A q \in {"admin", "io"} : (\A b \in Actors : Waiting(b)' => actor'[b].q # q) => q # k
    BY <2>2, <1>2, <1>16
  <2>9. \A b \in Actors : Waiting(b)' => b = a
    BY <2>3, <1>16
  <2>10. ASSUME NEW b \in Actors
         PROVE  Copied(b)'
    <3>1. Copied(b)
      BY <1>1, <1>2, <1>17 DEF NvmeInv
    <3>2. ASSUME actor[b].pc = "copy", actor[b].buf \in Blocks
          PROVE  dma'[actor[b].buf] = dma[actor[b].buf]
      <4>1. b # a /\ actor[b].buf \in actor[b].blks /\ actor[a].buf \in actor[a].blks \union {Null}
        BY <2>2, <3>2, <1>1, <1>2, DiskAssumption DEF Waiting, BlocksInv
      <4>2. actor[b].buf # actor[a].buf
        BY <4>1, <3>2, <1>1, <1>17, DiskAssumption DEF BlocksInv, Tidy
      <4> QED
        BY <4>2, <3>2, <2>4, <1>2, <1>3 DEF Executes, Command
    <3> QED
      BY <3>1, <3>2, <1>2, <1>16 DEF Copied
  <2> QED
    BY <2>6, <2>7, <2>8, <2>9, <2>10
<1>18. NvmeInv'
  <2>1. \A b \in Actors : Waiting(b)' => owner'["submit"] = b
    BY <1>1, <1>2, <1>16 DEF NvmeInv
  <2>2. \A b \in Actors : actor'[b].pc # "packet"
    BY <1>1, <1>2 DEF NvmeInv
  <2> QED
    BY <2>1, <2>2, <1>10, <1>14, <1>15, <1>17 DEF NvmeInv, Sound
<1>19. AhciInv'
  BY <1>1, <1>2 DEF AhciInv
<1>20. IdeInv'
  BY <1>2 DEF IdeInv
<1> QED
  BY <1>11, <1>12, <1>13, <1>18, <1>19, <1>20 DEF IInv, CallsInv

-----------------------------------------------------------------------------
(* AHCI                                                                     *)

LEMMA AhciIssuesKeeps ==
  ASSUME IInv, NEW a \in Actors, AhciIssues(a)
  PROVE  IInv'
<1>1. /\ DiskTypeOK /\ CallsInv /\ BootInv /\ GotInv /\ ListedInv /\ BlocksInv
      /\ NvmeInv /\ AhciInv /\ IdeInv
  BY DEF IInv, CallsInv
<1> DEFINE d == actor[a].drive
           slot == First(FreeSlots(d))
           table == First(Free)
           buf == First(Free \ {table})
<1>2. /\ controller = "ahci" /\ actor[a].pc = "read" /\ owner[d] = Nobody
      /\ FreeSlots(d) # {} /\ Cardinality(Free) > 1
      /\ UNCHANGED <<controller, todo, listed, queue, hba, selected, mishaps>>
      /\ owner' = [owner EXCEPT ![d] = a]
      /\ dma' = [dma EXCEPT ![table] = Null, ![buf] = Null]
  BY DEF AhciIssues, MutexFree, Mutex
<1>3. /\ actor[a] \in ActorStates /\ port \in [Drives -> PortStates]
      /\ owner \in [Drives \union {"submit"} -> Actors \union {Nobody}]
      /\ dma \in [Blocks -> Places \union {Null}]
  BY <1>1, Typed DEF DiskTypeOK
<1>4. d \in Drives
  BY <1>1, <1>2 DEF BootInv, InCall
<1>5. port[d] \in PortStates
  BY <1>3, <1>4
<1>6. slot \in 1 .. Slots /\ slot \notin port[d].ci
  <2>1. FreeSlots(d) \in SUBSET Nat
    BY DiskAssumption DEF FreeSlots
  <2> QED
    BY <2>1, <1>2, FirstIsOne DEF FreeSlots
<1>7. table \in Free /\ buf \in Free /\ table # buf /\ Free \subseteq Blocks
  BY <1>1, <1>2, TwoAreFree, FreeIsFree
<1>8. /\ actor' = [actor EXCEPT ![a] = [actor[a] EXCEPT !.pc = "wait", !.blks = {table, buf}, !.buf = buf, !.slot = slot]]
      /\ [actor[a] EXCEPT !.pc = "wait", !.blks = {table, buf}, !.buf = buf, !.slot = slot] \in ActorStates
  <2>1. actor' = [actor EXCEPT ![a] = [actor[a] EXCEPT !.pc = "wait", !.blks = {table, buf}, !.buf = buf, !.slot = slot]]
    BY <1>1, Typed DEF AhciIssues
  <2> HIDE DEF d, slot, table, buf
  <2>2. slot \in 0 .. Slots /\ {table, buf} \in SUBSET Blocks
    BY <1>6, <1>7, DiskAssumption
  <2>3. [actor[a] EXCEPT !.pc = "wait", !.blks = {table, buf}, !.buf = buf, !.slot = slot] \in ActorStates
    BY <1>3, <1>7, <2>2 DEF ActorStates
  <2> QED
    BY <2>1, <2>3
<1>9. \A p \in PortStates, c \in Commands :
        LET new == [p EXCEPT !.ci = p.ci \union {slot}, !.tfes = FALSE, !.moved = FALSE,
                             !.cmd = [p.cmd EXCEPT ![slot] = c]]
        IN /\ new \in PortStates /\ new.ci = p.ci \union {slot} /\ new.cmd[slot] = c
           /\ new.tfes = FALSE /\ new.stopped = p.stopped
  <2> HIDE DEF slot
  <2> QED
    BY <1>6 DEF PortStates
<1>10. port' = [port EXCEPT ![d] =
                  [port[d] EXCEPT !.ci = port[d].ci \union {slot}, !.tfes = FALSE, !.moved = FALSE,
                                  !.cmd = [port[d].cmd EXCEPT ![slot] =
                                             [what |-> Wanted(a), buf |-> buf, for |-> a]]]]
  BY <1>3, <1>4 DEF AhciIssues, PortStates
<1>11. [what |-> Wanted(a), buf |-> buf, for |-> a] \in Commands
  <2>1. Wanted(a) \in Places
    BY <1>3, DiskAssumption DEF Wanted, Places, Lba, Identity, ActorStates
  <2> QED
    BY <2>1, <1>7 DEF Commands
<1> HIDE DEF d, slot, table, buf
<1>12. /\ actor' \in [Actors -> ActorStates]
       /\ \A b \in Actors : b # a => actor'[b] = actor[b]
       /\ actor'[a] = [actor[a] EXCEPT !.pc = "wait", !.blks = {table, buf}, !.buf = buf, !.slot = slot]
  BY <1>1, <1>8, Typed
<1>13. /\ actor'[a].pc = "wait" /\ actor'[a].blks = {table, buf} /\ actor'[a].buf = buf
       /\ actor'[a].slot = slot /\ actor'[a].drive = d
       /\ actor'[a].drive = actor[a].drive /\ actor'[a].lba = actor[a].lba /\ actor'[a].q = actor[a].q
       /\ actor'[a].count = actor[a].count /\ actor'[a].got = actor[a].got /\ actor'[a].stolen = actor[a].stolen
  BY <1>3, <1>12 DEF ActorStates, d
<1>14. /\ port' \in [Drives -> PortStates]
       /\ port'[d].ci = port[d].ci \union {slot}
       /\ port'[d].cmd[slot] = [what |-> Wanted(a), buf |-> buf, for |-> a]
       /\ port'[d].tfes = FALSE /\ port'[d].stopped = port[d].stopped
       /\ \A e \in Drives : e # d => port'[e] = port[e]
  BY <1>3, <1>4, <1>5, <1>9, <1>10, <1>11
<1>15. DiskTypeOK'
  <2>1. owner' \in [Drives \union {"submit"} -> Actors \union {Nobody}]
    BY <1>2, <1>3
  <2>2. dma' \in [Blocks -> Places \union {Null}]
    BY <1>2, <1>3
  <2> QED
    BY <1>1, <1>2, <1>12, <1>14, <2>1, <2>2 DEF DiskTypeOK
<1>16. BootInv' /\ GotInv' /\ ListedInv'
  <2>1. InCall(a) /\ (Sound' => Sound)
    BY <1>2 DEF InCall, Sound
  <2> QED
    BY <1>1, <1>2, <1>12, <1>13, <2>1, CallGoesOn
<1>17. BlocksInv'
  <2>1. \A b \in Actors : table \notin actor[b].blks /\ buf \notin actor[b].blks
    BY <1>7, FreeIsFree
  <2>2. \A b \in Actors : b # a => actor'[a].blks \intersect actor[b].blks = {}
    BY <2>1, <1>13
  <2>3. actor'[a].buf \in actor'[a].blks /\ actor'[a].pc = "wait" /\ (Sound' => Sound)
    BY <1>2, <1>13 DEF Sound
  <2> QED
    BY <1>1, <1>2, <1>12, <2>2, <2>3, BlocksOfOne
<1>18. AhciInv'
  <2>1. ~Waiting(a) /\ Waiting(a)'
    BY <1>2, <1>13 DEF Waiting
  <2>2. \A b \in Actors : b # a => /\ Waiting(b)' <=> Waiting(b)
                                   /\ Wanted(b)' = Wanted(b) /\ Command(b)' = Command(b)
    BY <1>12 DEF Waiting, Wanted, Command, Lba
  <2>3. Command(a)' = [what |-> Wanted(a), buf |-> buf, for |-> a]
    BY <1>13 DEF Command, Wanted, Lba
  <2>4. ASSUME NEW b \in Actors, b # a, Waiting(b)
        PROVE  /\ actor[b].drive \in Drives /\ actor[b].drive # d /\ owner'[actor[b].drive] = b
               /\ dma'[actor[b].buf] = dma[actor[b].buf] /\ port'[actor[b].drive] = port[actor[b].drive]
    <3>1. actor[b].drive \in Drives
      BY <2>4, <1>1, <1>2 DEF BootInv, InCall, Waiting
    <3>2. owner[actor[b].drive] = b
      BY <2>4, <1>1, <1>2 DEF AhciInv
    <3>3. actor[b].drive # d
      BY <3>2, <1>2, WhoActs DEF d
    <3>4. actor[b].buf \in actor[b].blks /\ actor[b].blks \subseteq Blocks
      BY <2>4, <1>1, <1>2, Typed DEF AhciInv
    <3>5. actor[b].buf \in Blocks /\ actor[b].buf # table /\ actor[b].buf # buf
      BY <3>4, <1>7, FreeIsFree
    <3>6. owner'[actor[b].drive] = b
      BY <3>1, <3>2, <3>3, <1>2, <1>3 DEF d
    <3>7. dma'[actor[b].buf] = dma[actor[b].buf]
      BY <3>5, <1>2, <1>3 DEF table, buf
    <3> QED
      BY <3>1, <3>3, <3>6, <3>7, <1>14
  <2>5. ASSUME NEW b \in Actors, Waiting(b)'
        PROVE  LET e == actor'[b].drive
               IN /\ owner'[e] = b /\ actor'[b].buf \in actor'[b].blks
                  /\ dma'[actor'[b].buf] \in {Null, Wanted(b)'}
                  /\ actor'[b].slot \notin port'[e].ci /\ port'[e].moved => dma'[actor'[b].buf] = Wanted(b)'
    <3>1. CASE b = a
      <4>1. owner'[d] = a
        BY <1>2, <1>3, <1>4 DEF d
      <4>2. dma'[buf] = Null
        BY <1>2, <1>3, <1>7 DEF table, buf
      <4>3. slot \in port'[d].ci
        BY <1>14
      <4> QED
        BY <3>1, <4>1, <4>2, <4>3, <1>13
    <3>2. CASE b # a
      <4>1. Waiting(b) /\ Wanted(b)' = Wanted(b) /\ actor'[b] = actor[b]
        BY <3>2, <2>2, <2>5, <1>12
      <4>2. /\ dma[actor[b].buf] \in {Null, Wanted(b)} /\ actor[b].buf \in actor[b].blks
            /\ actor[b].slot \notin port[actor[b].drive].ci /\ port[actor[b].drive].moved
                 => dma[actor[b].buf] = Wanted(b)
        BY <4>1, <1>1, <1>2 DEF AhciInv
      <4>3. /\ owner'[actor[b].drive] = b /\ dma'[actor[b].buf] = dma[actor[b].buf]
            /\ port'[actor[b].drive] = port[actor[b].drive]
        BY <4>1, <3>2, <2>4
      <4> QED
        BY <4>1, <4>2, <4>3
    <3> QED
      BY <3>1, <3>2
  <2>6. \A b \in Actors : actor'[b].pc \notin {"lock", "packet"}
    BY <1>1, <1>2, <1>12, <1>13 DEF AhciInv
  <2>7. \A e \in Drives : port'[e].tfes => port'[e].stopped
    BY <1>1, <1>2, <1>14 DEF AhciInv
  <2>8. ASSUME NEW e \in Drives, ~port'[e].stopped, NEW s \in port'[e].ci
        PROVE  \E b \in Actors : /\ Waiting(b)' /\ actor'[b].drive = e /\ actor'[b].slot = s
                                 /\ port'[e].cmd[s] = Command(b)'
    <3>1. ASSUME s \in port[e].ci
          PROVE  \E b \in Actors : /\ Waiting(b) /\ actor[b].drive = e /\ actor[b].slot = s
                                   /\ port[e].cmd[s] = Command(b)
      BY <3>1, <2>8, <1>1, <1>2, <1>14 DEF AhciInv
    <3>2. CASE e # d
      <4>1. PICK b \in Actors : /\ Waiting(b) /\ actor[b].drive = e /\ actor[b].slot = s
                                /\ port[e].cmd[s] = Command(b)
        BY <3>1, <3>2, <2>8, <1>14
      <4>2. b # a
        BY <4>1, <2>1
      <4> QED
        BY <4>1, <4>2, <3>2, <2>2, <1>12, <1>14
    <3>3. CASE e = d
      <4>1. s \notin port[e].ci
        <5> SUFFICES ASSUME s \in port[e].ci PROVE FALSE
          OBVIOUS
        <5>1. PICK b \in Actors : Waiting(b) /\ actor[b].drive = d
          BY <3>1, <3>3
        <5> QED
          BY <5>1, <2>1, <2>4
      <4>2. s = slot
        BY <4>1, <3>3, <2>8, <1>14
      <4> QED
        BY <4>2, <3>3, <2>1, <2>3, <1>13, <1>14
    <3> QED
      BY <3>2, <3>3
  <2> QED
    BY <2>5, <2>6, <2>7, <2>8, <1>2 DEF AhciInv
<1>19. NvmeInv' /\ IdeInv'
  BY <1>2 DEF NvmeInv, IdeInv
<1> QED
  BY <1>15, <1>16, <1>17, <1>18, <1>19 DEF IInv, CallsInv

LEMMA AhciCannotKeeps ==
  ASSUME IInv, NEW a \in Actors, AhciCannot(a)
  PROVE  IInv'
<1>1. DiskTypeOK /\ BootInv /\ BlocksInv /\ NvmeInv /\ AhciInv /\ IdeInv
  BY DEF IInv, CallsInv
<1>2. /\ Ended(a, FALSE, Null) /\ InCall(a) /\ ~Waiting(a) /\ controller = "ahci"
      /\ UNCHANGED <<controller, dma, owner, queue, hba, port, selected, mishaps>>
  BY DEF AhciCannot, InCall, Waiting, deviceVars
<1>3. DiskTypeOK' /\ CallsInv'
  <2>1. Sound' => Sound
    BY <1>2 DEF Sound
  <2>2. /\ owner' \in [Drives \union {"submit"} -> Actors \union {Nobody}]
        /\ queue' \in [{"admin", "io"} -> QueueStates]
        /\ mishaps' \in [errors : 0 .. MaxErrors, slow : 0 .. MaxSlow, torn : BOOLEAN]
    BY <1>1, <1>2 DEF DiskTypeOK
  <2> QED
    BY <1>2, <2>1, <2>2, EndsWell
<1>4. a = "boot" => todo # <<>>
  BY <1>1, <1>2 DEF BootInv, Booted
<1>5. /\ \A b \in Actors : b # a => actor'[b] = actor[b]
      /\ actor'[a].pc \in {"idle", "done"}
  BY <1>1, <1>2, <1>4, EndedChanges
<1>6. AhciInv'
  BY <1>1, <1>2, <1>5, AhciKept
<1>7. NvmeInv' /\ IdeInv'
  BY <1>2 DEF NvmeInv, IdeInv
<1> QED
  BY <1>3, <1>6, <1>7 DEF IInv

(* The port that has no command is given up, with the mutex.                *)
LEMMA AhciEndsKeeps ==
  ASSUME IInv, NEW a \in Actors, AhciEnds(a)
  PROVE  IInv'
<1>1. DiskTypeOK /\ BootInv /\ BlocksInv /\ NvmeInv /\ AhciInv /\ IdeInv
  BY DEF IInv, CallsInv
<1> DEFINE d == actor[a].drive
           clear == actor[a].slot \notin port[d].ci
<1>2. PICK ok \in BOOLEAN : ok = (clear /\ (a = "boot" \/ (~port[d].tfes /\ port[d].moved)))
  OBVIOUS
<1>3. /\ controller = "ahci" /\ Waiting(a) /\ InCall(a) /\ Ended(a, ok, Buffer(a))
      /\ clear \/ port[d].tfes
      /\ owner' = [owner EXCEPT ![d] = Nobody]
      /\ UNCHANGED <<controller, dma, queue, hba, port, selected, mishaps>>
  BY <1>2 DEF AhciEnds, InCall, Waiting, Unlocked, Mutex, deviceVars
<1>4. d \in Drives /\ owner[d] = a /\ owner \in [Drives \union {"submit"} -> Actors \union {Nobody}]
  BY <1>1, <1>3 DEF BootInv, AhciInv, DiskTypeOK
<1>8. actor[a].buf \in Blocks
  BY <1>1, <1>3, Typed DEF AhciInv
<1>5. PICK data \in Places \union {Null} :
        /\ Ended(a, ok, data)
        /\ ok => data = Wanted(a) \/ (a = "boot" /\ data = Null)
  <2>1. Buffer(a) = dma[actor[a].buf] /\ dma[actor[a].buf] \in Places \union {Null}
    BY <1>1, <1>8, Typed DEF Buffer
  <2>2. ok => Buffer(a) = Wanted(a) \/ (a = "boot" /\ Buffer(a) = Null)
    BY <2>1, <1>1, <1>2, <1>3 DEF AhciInv
  <2> QED
    BY <2>1, <2>2, <1>3
<1>6. DiskTypeOK' /\ CallsInv'
  <2>1. Sound' => Sound
    BY <1>3 DEF Sound
  <2>2. /\ owner' \in [Drives \union {"submit"} -> Actors \union {Nobody}]
        /\ queue' \in [{"admin", "io"} -> QueueStates]
        /\ mishaps' \in [errors : 0 .. MaxErrors, slow : 0 .. MaxSlow, torn : BOOLEAN]
    BY <1>1, <1>3, <1>4 DEF DiskTypeOK
  <2> QED
    BY <1>3, <1>5, <2>1, <2>2, EndsWell
<1>7. a = "boot" => todo # <<>>
  BY <1>1, <1>3 DEF BootInv, Booted
<1>9. /\ \A b \in Actors : b # a => actor'[b] = actor[b]
      /\ actor'[a].pc \in {"idle", "read", "done"}
  BY <1>1, <1>3, <1>5, <1>7, EndedChanges
<1>10. AhciInv'
  <2>1. ~Waiting(a)'
    BY <1>9 DEF Waiting
  <2>2. \A b \in Actors : b # a => /\ Waiting(b)' <=> Waiting(b)
                                   /\ Wanted(b)' = Wanted(b) /\ Command(b)' = Command(b)
    BY <1>9 DEF Waiting, Wanted, Command, Lba
  <2>3. ASSUME NEW b \in Actors, Waiting(b)'
        PROVE  /\ owner'[actor'[b].drive] = b /\ actor'[b].buf \in actor'[b].blks
               /\ dma'[actor'[b].buf] \in {Null, Wanted(b)'}
               /\ actor'[b].slot \notin port'[actor'[b].drive].ci /\ port'[actor'[b].drive].moved
                    => dma'[actor'[b].buf] = Wanted(b)'
    <3>1. b # a /\ Waiting(b) /\ actor'[b] = actor[b] /\ Wanted(b)' = Wanted(b)
      BY <2>1, <2>2, <2>3, <1>9
    <3>2. /\ owner[actor[b].drive] = b /\ dma[actor[b].buf] \in {Null, Wanted(b)} /\ actor[b].buf \in actor[b].blks
          /\ actor[b].slot \notin port[actor[b].drive].ci /\ port[actor[b].drive].moved
               => dma[actor[b].buf] = Wanted(b)
      BY <3>1, <1>1, <1>3 DEF AhciInv
    <3>3. owner'[actor[b].drive] = b
      <4>1. actor[b].drive # d
        BY <3>1, <3>2, <1>4
      <4>2. actor[b].drive \in Drives
        BY <3>1, <1>1, <1>3 DEF BootInv, InCall, Waiting
      <4> QED
        BY <4>1, <4>2, <3>2, <1>3, <1>4
    <3> QED
      BY <3>1, <3>2, <3>3, <1>3
  <2>4. \A b \in Actors : actor'[b].pc \notin {"lock", "packet"}
    BY <1>1, <1>3, <1>9 DEF AhciInv
  <2>5. \A e \in Drives : port'[e].tfes => port'[e].stopped
    BY <1>1, <1>3 DEF AhciInv
  <2>6. ASSUME NEW e \in Drives, ~port'[e].stopped, NEW s \in port'[e].ci
        PROVE  \E b \in Actors : /\ Waiting(b)' /\ actor'[b].drive = e /\ actor'[b].slot = s
                                 /\ port'[e].cmd[s] = Command(b)'
    <3>1. PICK b \in Actors : /\ Waiting(b) /\ actor[b].drive = e /\ actor[b].slot = s
                              /\ port[e].cmd[s] = Command(b)
      BY <2>6, <1>1, <1>3 DEF AhciInv
    <3>2. b # a
      <4> SUFFICES ASSUME b = a PROVE FALSE
        OBVIOUS
      <4>1. e = d /\ ~clear
        BY <3>1, <2>6, <1>3
      <4>2. port[d].stopped
        BY <4>1, <1>1, <1>3, <1>4 DEF AhciInv
      <4> QED
        BY <4>1, <4>2, <2>6, <1>3
    <3> QED
      BY <3>1, <3>2, <2>2, <1>3, <1>9
  <2> QED
    BY <2>3, <2>4, <2>5, <2>6, <1>3 DEF AhciInv
<1>11. NvmeInv' /\ IdeInv'
  BY <1>3 DEF NvmeInv, IdeInv
<1> QED
  BY <1>6, <1>10, <1>11 DEF IInv

(* The controller of a port executes a command, or reports an error.        *)
LEMMA HbaExecutesKeeps ==
  ASSUME IInv, NEW d \in Drives, NEW s \in 1 .. Slots, NEW outcome \in {"ok", "nothing", "error"},
         HbaExecutes(d, s, outcome)
  PROVE  IInv'
<1>1. /\ DiskTypeOK /\ CallsInv /\ BootInv /\ GotInv /\ ListedInv /\ BlocksInv
      /\ NvmeInv /\ AhciInv /\ IdeInv
  BY DEF IInv, CallsInv
<1> DEFINE p == port[d]
<1>2. /\ controller = "ahci" /\ s \in p.ci /\ ~p.stopped
      /\ dma' = Executes(p.cmd[s], outcome)
      /\ UNCHANGED <<controller, actor, todo, listed, owner, queue, hba, selected>>
      /\ port' = [port EXCEPT ![d] = IF outcome = "error" THEN [p EXCEPT !.tfes = TRUE, !.stopped = TRUE]
                                     ELSE [p EXCEPT !.ci = p.ci \ {s}, !.moved = (outcome = "ok")]]
      /\ \/ mishaps.errors < MaxErrors /\ mishaps' = [mishaps EXCEPT !.errors = @ + 1]
         \/ mishaps' = mishaps
  <2>1. port' = [port EXCEPT ![d] = IF outcome = "error" THEN [p EXCEPT !.tfes = TRUE, !.stopped = TRUE]
                                    ELSE [p EXCEPT !.ci = p.ci \ {s}, !.moved = (outcome = "ok")]]
    BY DEF HbaExecutes
  <2> QED
    BY <2>1 DEF HbaExecutes
<1>3. /\ port \in [Drives -> PortStates] /\ p \in PortStates
      /\ mishaps \in [errors : 0 .. MaxErrors, slow : 0 .. MaxSlow, torn : BOOLEAN]
      /\ dma \in [Blocks -> Places \union {Null}]
  BY <1>1 DEF DiskTypeOK
<1>4. PICK a \in Actors : /\ Waiting(a) /\ actor[a].drive = d /\ actor[a].slot = s
                          /\ p.cmd[s] = Command(a)
  BY <1>1, <1>2 DEF AhciInv
<1>5. actor[a].buf \in actor[a].blks /\ actor[a].buf \in Blocks
  BY <1>1, <1>2, <1>4, Typed DEF AhciInv
<1>6. dma' = IF outcome = "ok" THEN [dma EXCEPT ![actor[a].buf] = Wanted(a)] ELSE dma
  BY <1>2, <1>4, <1>5 DEF Executes, Command
<1>7. Wanted(a) \in Places
  BY <1>1, Typed, DiskAssumption DEF Wanted, Places, Lba, Identity
<1>8. dma' \in [Blocks -> Places \union {Null}]
  BY <1>3, <1>5, <1>6, <1>7
<1>9. /\ port' \in [Drives -> PortStates]
      /\ \A e \in Drives : e # d => port'[e] = port[e]
      /\ port'[d].ci = (IF outcome = "error" THEN p.ci ELSE p.ci \ {s})
      /\ port'[d].moved = (IF outcome = "error" THEN p.moved ELSE outcome = "ok")
      /\ port'[d].tfes = (p.tfes \/ outcome = "error") /\ port'[d].stopped = (outcome = "error")
      /\ port'[d].cmd = p.cmd
  <2>1. CASE outcome = "error"
    <3>1. [p EXCEPT !.tfes = TRUE, !.stopped = TRUE] \in PortStates
      BY <1>3 DEF PortStates
    <3>2. port' = [port EXCEPT ![d] = [p EXCEPT !.tfes = TRUE, !.stopped = TRUE]]
      BY <2>1, <1>2
    <3> QED
      BY <2>1, <3>1, <3>2, <1>3 DEF PortStates
  <2>2. CASE outcome # "error"
    <3>1. [p EXCEPT !.ci = p.ci \ {s}, !.moved = (outcome = "ok")] \in PortStates
      BY <1>3 DEF PortStates
    <3>2. port' = [port EXCEPT ![d] = [p EXCEPT !.ci = p.ci \ {s}, !.moved = (outcome = "ok")]]
      BY <2>2, <1>2
    <3> QED
      BY <2>2, <3>1, <3>2, <1>2, <1>3 DEF PortStates
  <2> QED
    BY <2>1, <2>2
<1>10. mishaps' \in [errors : 0 .. MaxErrors, slow : 0 .. MaxSlow, torn : BOOLEAN] /\ (Sound' <=> Sound)
  BY <1>2, <1>3, OneMoreError
<1> HIDE DEF p
<1>11. DiskTypeOK'
  BY <1>1, <1>2, <1>8, <1>9, <1>10 DEF DiskTypeOK
<1>12. BootInv' /\ GotInv' /\ BlocksInv'
  BY <1>1, <1>2, <1>10 DEF BootInv, GotInv, BlocksInv, Tidy, InCall, Booted, Waiting, Kept
<1>13. ListedInv'
  BY <1>1, <1>2, <1>10 DEF ListedInv
<1>14. \A b \in Actors : /\ Waiting(b)' <=> Waiting(b)
                         /\ Wanted(b)' = Wanted(b) /\ Command(b)' = Command(b)
  BY <1>2 DEF Waiting, Wanted, Command, Lba
<1>15. \A b \in Actors : Waiting(b) /\ b # a => actor[b].drive # d /\ actor[b].drive \in Drives
  <2>1. \A b \in Actors : Waiting(b) => owner[actor[b].drive] = b
    BY <1>1, <1>2 DEF AhciInv
  <2> QED
    BY <2>1, <1>1, <1>2, <1>4 DEF BootInv, InCall, Waiting
<1>16. AhciInv'
  <2>1. ASSUME NEW b \in Actors, Waiting(b)'
        PROVE  /\ owner'[actor'[b].drive] = b /\ actor'[b].buf \in actor'[b].blks
               /\ dma'[actor'[b].buf] \in {Null, Wanted(b)'}
               /\ actor'[b].slot \notin port'[actor'[b].drive].ci /\ port'[actor'[b].drive].moved
                    => dma'[actor'[b].buf] = Wanted(b)'
    <3>1. Waiting(b) /\ Wanted(b)' = Wanted(b) /\ actor'[b] = actor[b]
      BY <2>1, <1>2, <1>14
    <3>2. /\ owner[actor[b].drive] = b /\ dma[actor[b].buf] \in {Null, Wanted(b)} /\ actor[b].buf \in actor[b].blks
          /\ actor[b].slot \notin port[actor[b].drive].ci /\ port[actor[b].drive].moved
               => dma[actor[b].buf] = Wanted(b)
      BY <3>1, <1>1, <1>2 DEF AhciInv
    <3>3. CASE b = a
      <4>1. dma'[actor[a].buf] = IF outcome = "ok" THEN Wanted(a) ELSE dma[actor[a].buf]
        BY <1>3, <1>5, <1>6
      <4>2. outcome = "error" => s \in port'[d].ci
        BY <1>2, <1>9
      <4>3. outcome = "nothing" => ~port'[d].moved
        BY <1>9
      <4> QED
        BY <3>1, <3>2, <3>3, <4>1, <4>2, <4>3, <1>2, <1>4
    <3>4. CASE b # a
      <4>1. actor[b].buf \in actor[b].blks
        BY <3>2
      <4>2. actor[b].buf # actor[a].buf
        BY <4>1, <3>4, <1>1, <1>2, <1>5 DEF BlocksInv, Tidy
      <4>3. actor[b].buf \in Blocks
        BY <4>1, <1>1, Typed
      <4>4. dma'[actor[b].buf] = dma[actor[b].buf]
        BY <4>2, <4>3, <1>3, <1>6
      <4>5. port'[actor[b].drive] = port[actor[b].drive]
        BY <3>1, <3>4, <1>9, <1>15
      <4> QED
        BY <3>1, <3>2, <4>4, <4>5, <1>2
    <3> QED
      BY <3>3, <3>4
  <2>2. \A b \in Actors : actor'[b].pc \notin {"lock", "packet"}
    BY <1>1, <1>2 DEF AhciInv
  <2>3. \A e \in Drives : port'[e].tfes => port'[e].stopped
    <3>1. ~p.tfes
      BY <1>1, <1>2 DEF AhciInv, p
    <3>2. \A e \in Drives : port[e].tfes => port[e].stopped
      BY <1>1, <1>2 DEF AhciInv
    <3> QED
      BY <3>1, <3>2, <1>9
  <2>4. ASSUME NEW e \in Drives, ~port'[e].stopped, NEW x \in port'[e].ci
        PROVE  \E b \in Actors : /\ Waiting(b)' /\ actor'[b].drive = e /\ actor'[b].slot = x
                                 /\ port'[e].cmd[x] = Command(b)'
    <3>1. x \in port[e].ci /\ ~port[e].stopped /\ port'[e].cmd = port[e].cmd
      BY <2>4, <1>2, <1>9 DEF p
    <3>2. PICK b \in Actors : /\ Waiting(b) /\ actor[b].drive = e /\ actor[b].slot = x
                              /\ port[e].cmd[x] = Command(b)
      BY <3>1, <1>1, <1>2 DEF AhciInv
    <3> QED
      BY <3>1, <3>2, <1>2, <1>14
  <2> QED
    BY <2>1, <2>2, <2>3, <2>4, <1>2 DEF AhciInv
<1>17. NvmeInv' /\ IdeInv'
  BY <1>2 DEF NvmeInv, IdeInv
<1> QED
  BY <1>11, <1>12, <1>13, <1>16, <1>17 DEF IInv, CallsInv

-----------------------------------------------------------------------------
(* IDE                                                                      *)

(* Whoever was to be served loses the drive, and says so from then on.      *)
LEMMA IdeSelectsKeeps ==
  ASSUME IInv, NEW a \in Actors, IdeSelects(a)
  PROVE  IInv'
<1>1. /\ DiskTypeOK /\ CallsInv /\ BootInv /\ GotInv /\ ListedInv /\ BlocksInv
      /\ NvmeInv /\ AhciInv /\ IdeInv
  BY DEF IInv, CallsInv
<1>2. /\ controller = "ide" /\ actor[a].pc = "read" /\ selected' = actor[a].drive
      /\ actor' = [b \in Actors |->
                     IF b = a THEN [actor[a] EXCEPT !.pc = "packet"]
                     ELSE IF actor[b].pc = "packet" /\ selected' # selected
                          THEN [actor[b] EXCEPT !.stolen = TRUE] ELSE actor[b]]
      /\ UNCHANGED <<controller, todo, listed, dma, owner, queue, hba, port, mishaps>>
  BY DEF IdeSelects
<1>3. \A b \in Actors : actor[b] \in ActorStates
  BY <1>1, Typed
<1>4. \A x \in ActorStates :
        /\ [x EXCEPT !.pc = "packet"] \in ActorStates /\ [x EXCEPT !.stolen = TRUE] \in ActorStates
  <2> SUFFICES ASSUME NEW x \in ActorStates
               PROVE  /\ [x EXCEPT !.pc = "packet"] \in ActorStates
                      /\ [x EXCEPT !.stolen = TRUE] \in ActorStates
    OBVIOUS
  <2>1. [x EXCEPT !.pc = "packet"] \in ActorStates
    BY Changed DEF Pcs
  <2>2. [x EXCEPT !.stolen = TRUE] \in ActorStates
    BY DEF ActorStates
  <2> QED
    BY <2>1, <2>2
<1>5. actor' \in [Actors -> ActorStates]
  BY <1>2, <1>3, <1>4
<1>6. \A b \in Actors :
        /\ actor'[b].pc = (IF b = a THEN "packet" ELSE actor[b].pc)
        /\ actor'[b].drive = actor[b].drive /\ actor'[b].lba = actor[b].lba /\ actor'[b].q = actor[b].q
        /\ actor'[b].count = actor[b].count /\ actor'[b].got = actor[b].got /\ actor'[b].ok = actor[b].ok
        /\ actor'[b].blks = actor[b].blks /\ actor'[b].buf = actor[b].buf
        /\ ~actor'[b].stolen => ~actor[b].stolen
        /\ b # a /\ ~actor'[b].stolen /\ actor[b].pc = "packet" => selected' = selected
  <2> SUFFICES ASSUME NEW b \in Actors
      PROVE /\ actor'[b].pc = (IF b = a THEN "packet" ELSE actor[b].pc)
            /\ actor'[b].drive = actor[b].drive /\ actor'[b].lba = actor[b].lba /\ actor'[b].q = actor[b].q
            /\ actor'[b].count = actor[b].count /\ actor'[b].got = actor[b].got /\ actor'[b].ok = actor[b].ok
            /\ actor'[b].blks = actor[b].blks /\ actor'[b].buf = actor[b].buf
            /\ ~actor'[b].stolen => ~actor[b].stolen
            /\ b # a /\ ~actor'[b].stolen /\ actor[b].pc = "packet" => selected' = selected
    OBVIOUS
  <2>1. CASE b = a
    <3>1. actor'[b] = [actor[a] EXCEPT !.pc = "packet"]
      BY <2>1, <1>2
    <3> QED
      BY <2>1, <3>1, <1>3 DEF ActorStates
  <2>2. CASE b # a /\ actor[b].pc = "packet" /\ selected' # selected
    <3>1. actor'[b] = [actor[b] EXCEPT !.stolen = TRUE]
      BY <2>2, <1>2
    <3> QED
      BY <2>2, <3>1, <1>3 DEF ActorStates
  <2>3. CASE b # a /\ ~(actor[b].pc = "packet" /\ selected' # selected)
    BY <2>3, <1>2
  <2> QED
    BY <2>1, <2>2, <2>3
<1>7. \A b \in Actors : (InCall(b)' <=> InCall(b)) /\ (Waiting(b)' => Waiting(b))
  BY <1>2, <1>6 DEF InCall, Waiting
<1>8. DiskTypeOK'
  <2>1. selected' \in Names \union {Nobody}
    BY <1>1, <1>2, Typed
  <2> QED
    BY <1>1, <1>2, <1>5, <2>1 DEF DiskTypeOK
<1>9. BootInv'
  <2>1. ~actor'["boot"].stolen
    <3>1. CASE a = "boot"
      BY <3>1, <1>1, <1>2, <1>3 DEF BootInv, ActorStates
    <3>2. CASE a # "boot"
      <4>1. Booted
        BY <3>2, <1>1, <1>2, WhoActs DEF BootInv, InCall
      <4>2. actor["boot"].pc # "packet"
        BY <4>1, <1>1 DEF BootInv, InCall
      <4> QED
        BY <3>2, <4>2, <1>1, <1>2, WhoActs DEF BootInv
    <3> QED
      BY <3>1, <3>2
  <2>2. \A r \in Readers : InCall(r)' => Booted'
    BY <1>1, <1>2, <1>7, WhoActs DEF BootInv, Booted
  <2>3. actor'["boot"].pc # "done"
    BY <1>1, <1>6, WhoActs DEF BootInv
  <2>4. InCall("boot")' => ~Booted' /\ actor'["boot"].drive = Head(todo')
    BY <1>1, <1>2, <1>6, <1>7, WhoActs DEF BootInv, Booted
  <2>5. \A b \in Actors : InCall(b)' /\ (b = "boot" => controller' # "nvme") => actor'[b].drive \in Drives
    BY <1>1, <1>2, <1>6, <1>7 DEF BootInv
  <2>6. \A b \in Actors : InCall(b)' => actor'[b].q = IF b = "boot" THEN "admin" ELSE "io"
    BY <1>1, <1>6, <1>7 DEF BootInv
  <2> QED
    BY <2>1, <2>2, <2>3, <2>4, <2>5, <2>6 DEF BootInv
<1>10. GotInv'
  <2> SUFFICES ASSUME NEW r \in Readers
      PROVE LET x == actor'[r]
            IN /\ Len(x.got) <= x.count
               /\ InCall(r)' => Len(x.got) < x.count
               /\ x.pc = "done" /\ x.ok => Len(x.got) = x.count
               /\ Sound' /\ ~x.stolen => \A i \in 1 .. Len(x.got) : x.got[i] = <<x.drive, x.lba + i - 1>>
    BY DEF GotInv, Sound
  <2>1. r \in Actors
    BY WhoActs
  <2>2. actor'[r].pc = "done" => actor[r].pc = "done"
    BY <2>1, <1>6
  <2> QED
    BY <2>1, <2>2, <1>1, <1>2, <1>6, <1>7 DEF GotInv, Sound
<1>11. ListedInv'
  BY <1>1, <1>2 DEF ListedInv, Sound
<1>12. \A b \in Actors : actor[b].blks = {} /\ ~Waiting(b)
  BY <1>1, <1>2 DEF IdeInv, Waiting
<1>13. BlocksInv'
  BY <1>2, <1>6, <1>7, <1>12 DEF BlocksInv, Tidy, Kept
<1>14. IdeInv'
  <2>1. \A b \in Actors : actor'[b].pc \notin {"lock", "wait"} /\ actor'[b].blks = {}
    BY <1>1, <1>2, <1>6 DEF IdeInv
  <2>2. \A b \in Actors : actor'[b].pc = "packet" /\ ~actor'[b].stolen => selected' = actor'[b].drive
    BY <1>1, <1>2, <1>6 DEF IdeInv
  <2> QED
    BY <2>1, <2>2 DEF IdeInv
<1>15. NvmeInv' /\ AhciInv'
  BY <1>1, <1>2 DEF NvmeInv, AhciInv
<1> QED
  BY <1>8, <1>9, <1>10, <1>11, <1>13, <1>14, <1>15 DEF IInv, CallsInv

(* The data comes from the drive that is selected.                          *)
LEMMA IdeTransfersKeeps ==
  ASSUME IInv, NEW a \in Actors, IdeTransfers(a)
  PROVE  IInv'
<1>1. /\ DiskTypeOK /\ CallsInv /\ BootInv /\ GotInv /\ ListedInv /\ BlocksInv
      /\ NvmeInv /\ AhciInv /\ IdeInv
  BY DEF IInv, CallsInv
<1> DEFINE word == IF a = "boot" THEN <<selected, Identity>> ELSE <<selected, Lba(a)>>
           more == Len(actor[a].got) + 1 < actor[a].count
<1>2. /\ controller = "ide" /\ actor[a].pc = "packet" /\ InCall(a) /\ ~Waiting(a)
      /\ UNCHANGED <<controller, dma, owner, queue, hba, port, selected>>
      /\ \/ /\ mishaps.errors < MaxErrors /\ mishaps' = [mishaps EXCEPT !.errors = @ + 1]
            /\ Ended(a, FALSE, Null)
         \/ /\ a = "boot" /\ UNCHANGED mishaps
            /\ listed' = [listed EXCEPT ![Head(todo)] = word] /\ todo' = Tail(todo)
            /\ actor' = [actor EXCEPT ![a].pc = "idle"]
         \/ /\ a # "boot" /\ UNCHANGED <<mishaps, listed, todo>>
            /\ actor' = [actor EXCEPT ![a].pc = IF more THEN "read" ELSE "done", ![a].ok = TRUE,
                                      ![a].got = Append(actor[a].got, word)]
  <2>1. /\ controller = "ide" /\ actor[a].pc = "packet"
        /\ UNCHANGED <<controller, dma, owner, queue, hba, port, selected>>
    BY DEF IdeTransfers, deviceVars
  <2>2. \/ /\ mishaps.errors < MaxErrors /\ mishaps' = [mishaps EXCEPT !.errors = @ + 1]
           /\ Ended(a, FALSE, Null)
        \/ /\ a = "boot" /\ UNCHANGED mishaps
           /\ listed' = [listed EXCEPT ![Head(todo)] = word] /\ todo' = Tail(todo)
           /\ actor' = [actor EXCEPT ![a].pc = "idle"]
        \/ /\ a # "boot" /\ UNCHANGED <<mishaps, listed, todo>>
           /\ actor' = [actor EXCEPT ![a].pc = IF more THEN "read" ELSE "done", ![a].ok = TRUE,
                                     ![a].got = Append(actor[a].got, word)]
    BY <1>1, Typed DEF IdeTransfers
  <2> QED
    BY <2>1, <2>2 DEF InCall, Waiting
<1>3. /\ actor[a] \in ActorStates /\ actor[a].blks = {}
      /\ selected \in Names \union {Nobody}
      /\ mishaps \in [errors : 0 .. MaxErrors, slow : 0 .. MaxSlow, torn : BOOLEAN]
      /\ owner \in [Drives \union {"submit"} -> Actors \union {Nobody}]
      /\ queue \in [{"admin", "io"} -> QueueStates]
  BY <1>1, <1>2, Typed DEF IdeInv, DiskTypeOK
<1>4. NvmeInv' /\ AhciInv'
  BY <1>1, <1>2 DEF NvmeInv, AhciInv
<1>5. CASE /\ mishaps.errors < MaxErrors /\ mishaps' = [mishaps EXCEPT !.errors = @ + 1]
           /\ Ended(a, FALSE, Null)
  <2>1. DiskTypeOK' /\ CallsInv'
    <3>1. mishaps' \in [errors : 0 .. MaxErrors, slow : 0 .. MaxSlow, torn : BOOLEAN] /\ (Sound' => Sound)
      BY <1>3, <1>5, DiskAssumption DEF Sound
    <3> QED
      BY <3>1, <1>2, <1>3, <1>5, EndsWell
  <2>2. a = "boot" => todo # <<>>
    BY <1>1, <1>2 DEF BootInv, Booted
  <2>3. /\ \A b \in Actors : b # a => actor'[b] = actor[b]
        /\ actor'[a].pc \in {"idle", "done"} /\ actor'[a].blks = {}
    BY <2>2, <1>1, <1>2, <1>5, EndedChanges DEF Kept
  <2>4. IdeInv'
    BY <2>3, <1>1, <1>2, IdeKept
  <2> QED
    BY <2>1, <2>4, <1>4 DEF IInv
<1>6. CASE /\ a = "boot" /\ UNCHANGED mishaps
           /\ listed' = [listed EXCEPT ![Head(todo)] = word] /\ todo' = Tail(todo)
           /\ actor' = [actor EXCEPT ![a].pc = "idle"]
  <2>1. /\ todo # <<>> /\ actor[a].drive = Head(todo) /\ Head(todo) \in Drives /\ todo \in Seq(Drives)
        /\ selected = Head(todo)
    BY <1>1, <1>2, <1>6, Typed DEF BootInv, Booted, IdeInv
  <2>2. listed' = [listed EXCEPT ![Head(todo)] = <<Head(todo), Identity>>]
    BY <2>1, <1>6
  <2>3. /\ actor' = [actor EXCEPT ![a] = [actor[a] EXCEPT !.pc = "idle"]]
        /\ [actor[a] EXCEPT !.pc = "idle"] \in ActorStates
    BY <1>1, <1>3, <1>6, Typed, Changed DEF Pcs
  <2>4. /\ actor' \in [Actors -> ActorStates]
        /\ \A b \in Actors : b # a => actor'[b] = actor[b]
        /\ actor'[a] = [actor[a] EXCEPT !.pc = "idle"]
    BY <2>3, <1>1, Typed
  <2>5. /\ actor'[a].pc = "idle" /\ actor'[a].blks = {} /\ actor'[a].stolen = actor[a].stolen
    BY <2>4, <1>3 DEF ActorStates
  <2>6. DiskTypeOK'
    <3>1. listed' \in [Drives -> Places \union {Null}]
      <4>1. Head(todo) \in Names
        BY <2>1, DriveNames
      <4>2. Identity \in Int
        BY SMT DEF Identity
      <4>3. <<Head(todo), Identity>> \in Places
        BY <4>1, <4>2 DEF Places
      <4> QED
        BY <4>3, <2>1, <2>2, <1>1, Typed
    <3>2. todo' \in Seq(Drives)
      BY <2>1, <1>6
    <3> QED
      BY <3>1, <3>2, <2>4, <1>1, <1>2, <1>6 DEF DiskTypeOK
  <2>7. BootInv'
    <3>1. \A r \in Readers : ~InCall(r)' /\ actor'[r] = actor[r]
      BY <2>1, <2>4, <1>1, <1>6, WhoActs DEF BootInv, InCall, Booted
    <3>2. ~InCall("boot")'
      BY <2>5, <1>6 DEF InCall
    <3>3. \A b \in Actors : ~InCall(b)'
      BY <3>1, <3>2, WhoActs
    <3> QED
      BY <3>1, <3>3, <2>5, <1>1, <1>6, WhoActs DEF BootInv
  <2>8. GotInv'
    BY <2>4, <1>1, <1>6, WhoActs DEF GotInv, InCall, Sound
  <2>9. ListedInv'
    BY <2>1, <2>2, <1>1, <1>6, Typed DEF ListedInv, Sound
  <2>10. BlocksInv'
    <3>1. \A b \in Actors : actor'[b].blks = {} /\ ~Waiting(b)'
      BY <2>4, <2>5, <1>1, <1>2 DEF IdeInv, Waiting
    <3> QED
      BY <3>1, <1>2 DEF BlocksInv, Kept
  <2>11. IdeInv'
    BY <2>4, <2>5, <1>1, <1>2, IdeKept
  <2> QED
    BY <2>6, <2>7, <2>8, <2>9, <2>10, <2>11, <1>4 DEF IInv, CallsInv
<1>7. CASE /\ a # "boot" /\ UNCHANGED <<mishaps, listed, todo>>
           /\ actor' = [actor EXCEPT ![a].pc = IF more THEN "read" ELSE "done", ![a].ok = TRUE,
                                     ![a].got = Append(actor[a].got, word)]
  <2>1. PICK v \in Places \union {Null} : v = <<selected, Lba(a)>>
    <3>1. Lba(a) \in Int
      BY <1>1, Typed DEF Lba
    <3>2. <<selected, Lba(a)>> \in Places
      BY <3>1, <1>3 DEF Places
    <3> QED
      BY <3>2
  <2>2. PICK pc \in {"read", "done"} : pc = IF more THEN "read" ELSE "done"
    OBVIOUS
  <2>3. /\ actor' = [actor EXCEPT ![a] = [actor[a] EXCEPT !.pc = pc, !.ok = TRUE, !.got = Append(actor[a].got, v)]]
        /\ Append(actor[a].got, v) \in Seq(Places \union {Null})
    <3>1. word = v
      BY <2>1, <1>7
    <3> HIDE DEF word, more
    <3>2. actor' = [actor EXCEPT ![a].pc = pc, ![a].ok = TRUE, ![a].got = Append(actor[a].got, v)]
      BY <3>1, <2>2, <1>7
    <3>3. actor' = [actor EXCEPT ![a] = [actor[a] EXCEPT !.pc = pc, !.ok = TRUE, !.got = Append(actor[a].got, v)]]
      BY <3>2, <1>1, Typed
    <3>4. Append(actor[a].got, v) \in Seq(Places \union {Null})
      BY <2>1, <1>1, Typed
    <3> QED
      BY <3>3, <3>4
  <2>4. \A got \in Seq(Places \union {Null}) :
          [actor[a] EXCEPT !.pc = pc, !.ok = TRUE, !.got = got] \in ActorStates
    BY <1>3 DEF ActorStates
  <2>5. /\ actor' \in [Actors -> ActorStates]
        /\ \A b \in Actors : b # a => actor'[b] = actor[b]
        /\ actor'[a] = [actor[a] EXCEPT !.pc = pc, !.ok = TRUE, !.got = Append(actor[a].got, v)]
    BY <2>3, <2>4, <1>1, Typed
  <2>6. /\ actor'[a].pc = pc /\ actor'[a].ok = TRUE /\ actor'[a].got = Append(actor[a].got, v)
        /\ actor'[a].drive = actor[a].drive /\ actor'[a].lba = actor[a].lba /\ actor'[a].q = actor[a].q
        /\ actor'[a].count = actor[a].count /\ actor'[a].stolen = actor[a].stolen /\ actor'[a].blks = {}
    BY <2>5, <1>3 DEF ActorStates
  <2>7. a \in Readers
    BY <1>7, WhoActs
  <2>8. DiskTypeOK'
    BY <2>5, <1>1, <1>2, <1>7 DEF DiskTypeOK
  <2>9. BootInv'
    <3>1. \A b \in Actors : /\ InCall(b)' => InCall(b)
                            /\ actor'[b].drive = actor[b].drive /\ actor'[b].q = actor[b].q
      BY <2>5, <2>6, <1>2 DEF InCall
    <3>2. actor'["boot"] = actor["boot"]
      BY <2>5, <1>7, WhoActs
    <3> QED
      BY <3>1, <3>2, <1>1, <1>2, <1>7, WhoActs DEF BootInv, Booted
  <2>10. GotInv'
    <3>1. Sound /\ ~actor[a].stolen => v = <<actor[a].drive, Lba(a)>>
      BY <2>1, <1>1, <1>2 DEF IdeInv
    <3>2. Sound' => Sound
      BY <1>7 DEF Sound
    <3>3. actor'[a].pc = IF Len(actor[a].got) + 1 < actor[a].count THEN "read" ELSE "done"
      BY <2>2, <2>6
    <3> QED
      BY <3>1, <3>2, <3>3, <2>5, <2>6, <2>7, <1>1, <1>2, GotGrows
  <2>11. ListedInv'
    BY <1>1, <1>7 DEF ListedInv, Sound
  <2>12. BlocksInv'
    <3>0. \A b \in Actors : b # a => actor'[b].blks = {} /\ ~Waiting(b)'
      BY <2>5, <1>1, <1>2 DEF IdeInv, Waiting
    <3>1. \A b \in Actors : actor'[b].blks = {} /\ ~Waiting(b)'
      BY <3>0, <2>6 DEF Waiting
    <3> QED
      BY <3>1, <1>2 DEF BlocksInv, Kept
  <2>13. IdeInv'
    BY <2>5, <2>6, <1>1, <1>2, IdeKept
  <2> QED
    BY <2>8, <2>9, <2>10, <2>11, <2>12, <2>13, <1>4 DEF IInv, CallsInv
<1> QED
  BY <1>2, <1>5, <1>6, <1>7

-----------------------------------------------------------------------------
(* The invariant holds                                                      *)

LEMMA InitHolds ==
  ASSUME DiskInit
  PROVE  IInv
<1>1. /\ controller \in Controllers /\ mishaps = [errors |-> 0, slow |-> 0, torn |-> FALSE] /\ selected = Nobody
      /\ actor = [a \in Actors |-> Idle] /\ listed = [d \in Drives |-> Null] /\ dma = [b \in Blocks |-> Null]
      /\ owner = [l \in Drives \union {"submit"} |-> Nobody]
      /\ todo = IF controller = "nvme" THEN Setup \o DriveOrder ELSE DriveOrder
  BY DEF DiskInit
<1>2. \A a \in Actors : actor[a] = Idle
  BY <1>1
<1>3. 0 \in Entries /\ \A e \in Entries : e \in Int /\ e >= 0
  BY DiskAssumption DEF Entries
<1>4. DiskTypeOK
  <2>1. actor \in [Actors -> ActorStates]
    BY <1>1, IdleTyped
  <2>2. todo \in Seq(IF controller = "nvme" THEN Names ELSE Drives)
    <3>1. CASE controller = "nvme"
      <4>1. Setup \in Seq(Names)
        <5>1. \A i \in DOMAIN Setup : Setup[i] \in Names
          BY DEF Names, Range
        <5>2. Setup \in Seq({"ctrl", "list", "cq", "sq"})
          BY DEF Setup
        <5> QED
          BY <5>1, <5>2
      <4>2. DriveOrder \in Seq(Names)
        BY DriveNames, SeqMonotonic
      <4>3. Setup \o DriveOrder \in Seq(Names)
        BY <4>1, <4>2
      <4> QED
        BY <4>3, <3>1, <1>1
    <3>2. CASE controller # "nvme"
      BY <3>2, <1>1, DriveNames
    <3> QED
      BY <3>1, <3>2
  <2>3. queue \in [{"admin", "io"} -> QueueStates]
    BY <1>3 DEF DiskInit, QueueStates, NoCompletion
  <2>4. hba \in [{"admin", "io"} -> [sqHead : Entries, cqTail : Entries, phase : {0, 1}]]
    BY <1>3 DEF DiskInit
  <2>5. port \in [Drives -> PortStates]
    BY DEF DiskInit, PortStates
  <2>6. mishaps \in [errors : 0 .. MaxErrors, slow : 0 .. MaxSlow, torn : BOOLEAN]
    BY <1>1, DiskAssumption
  <2>7. /\ listed \in [Drives -> Places \union {Null}] /\ dma \in [Blocks -> Places \union {Null}]
        /\ owner \in [Drives \union {"submit"} -> Actors \union {Nobody}]
        /\ selected \in Names \union {Nobody}
    BY <1>1
  <2> QED
    BY <1>1, <2>1, <2>2, <2>3, <2>4, <2>5, <2>6, <2>7 DEF DiskTypeOK
<1>5. /\ Idle.pc = "idle" /\ ~Idle.stolen /\ Idle.blks = {} /\ Idle.got = <<>> /\ Idle.count = 0 /\ ~Idle.ok /\ Idle.buf = Null
  BY DEF Idle
<1>6. \A a \in Actors : ~InCall(a) /\ ~Waiting(a)
  BY <1>2, <1>5 DEF InCall, Waiting
<1>7. BootInv
  BY <1>2, <1>5, <1>6, WhoActs DEF BootInv
<1>8. GotInv
  <2>1. Len(Idle.got) = 0
    BY <1>5
  <2> QED
    BY <2>1, <1>2, <1>5, <1>6, WhoActs DEF GotInv
<1>9. ListedInv
  BY <1>1 DEF ListedInv
<1>10. BlocksInv
  BY <1>2, <1>5, <1>6 DEF BlocksInv, Kept
<1>11. NvmeInv
  <2>1. \A q \in {"admin", "io"} :
          /\ hba[q].sqHead = 0 /\ hba[q].cqTail = 0 /\ hba[q].phase = 1
          /\ queue[q].sqTail = 0 /\ queue[q].cqHead = 0 /\ queue[q].cqPhase = 1
          /\ \A e \in Entries : queue[q].cq[e].phase = 0
    BY DEF DiskInit, NoCompletion
  <2>2. \A q \in {"admin", "io"} : Fetched(q) /\ Taken(q)
    BY <2>1 DEF Fetched, Taken
  <2>3. PhasesInv /\ WrittenInv
    BY <2>1, <1>3 DEF PhasesInv, WrittenInv
  <2> QED
    BY <2>2, <2>3, <1>2, <1>5, <1>6 DEF NvmeInv, Copied
<1>12. AhciInv
  <2>1. \A d \in Drives : port[d].ci = {} /\ ~port[d].tfes
    BY DEF DiskInit
  <2> QED
    BY <2>1, <1>2, <1>5, <1>6 DEF AhciInv
<1>13. IdeInv
  BY <1>2, <1>5 DEF IdeInv
<1> QED
  BY <1>4, <1>7, <1>8, <1>9, <1>10, <1>11, <1>12, <1>13 DEF IInv, CallsInv

LEMMA NextKeeps ==
  ASSUME IInv, [DiskNext]_diskVars
  PROVE  IInv'
<1>1. CASE Identifies
  BY <1>1, IdentifiesKeeps
<1>2. ASSUME NEW r \in Readers, Calls(r)
      PROVE  IInv'
  BY <1>2, CallsKeeps
<1>3. ASSUME NEW a \in Actors, Steps(a)
      PROVE  IInv'
  <2>1. CASE Refuses(a)
    BY <2>1, RefusesKeeps
  <2>11. CASE NvmeBegins(a)
    BY <2>11, NvmeBeginsKeeps
  <2>12. CASE NvmeCopies(a)
    BY <2>12, NvmeCopiesKeeps
  <2>13. CASE NvmeFrees(a)
    BY <2>13, NvmeFreesKeeps
  <2>14. CASE NvmeHangs(a)
    BY <2>14, NvmeHangsKeeps
  <2>2. CASE NvmeAllocates(a)
    BY <2>2, NvmeAllocatesKeeps
  <2>3. CASE NvmeSubmits(a)
    BY <2>3, NvmeSubmitsKeeps
  <2>4. CASE NvmeTakes(a)
    BY <2>4, NvmeTakesKeeps
  <2>5. CASE NvmeGivesUp(a)
    BY <2>5, NvmeGivesUpKeeps
  <2>6. CASE AhciIssues(a)
    BY <2>6, AhciIssuesKeeps
  <2>7. CASE AhciCannot(a)
    BY <2>7, AhciCannotKeeps
  <2>8. CASE AhciEnds(a)
    BY <2>8, AhciEndsKeeps
  <2>9. CASE IdeSelects(a)
    BY <2>9, IdeSelectsKeeps
  <2>10. CASE IdeTransfers(a)
    BY <2>10, IdeTransfersKeeps
  <2> QED
    BY <1>3, <2>1, <2>2, <2>3, <2>4, <2>5, <2>6, <2>7, <2>8, <2>9, <2>10, <2>11, <2>12,
       <2>13, <2>14 DEF Steps, NvmeSteps
<1>4. ASSUME NEW q \in DOMAIN queue, NEW s \in {"ok", "error"}, NvmeExecutes(q, s)
      PROVE  IInv'
  <2>1. q \in {"admin", "io"}
    BY DEF IInv, DiskTypeOK
  <2> QED
    BY <1>4, <2>1, NvmeExecutesKeeps
<1>5. ASSUME NEW d \in Drives, NEW s \in 1 .. Slots, NEW o \in {"ok", "nothing", "error"},
             HbaExecutes(d, s, o)
      PROVE  IInv'
  BY <1>5, HbaExecutesKeeps
<1>6. CASE UNCHANGED diskVars
  <2>1. UNCHANGED <<controller, actor, todo, listed, dma, owner, queue, hba, port, selected, mishaps>>
    BY <1>6 DEF diskVars
  <2>2. DiskTypeOK'
    BY <2>1 DEF IInv, DiskTypeOK
  <2>3. BootInv' /\ GotInv' /\ ListedInv' /\ BlocksInv'
    BY <2>1 DEF IInv, CallsInv, BootInv, GotInv, ListedInv, BlocksInv, Tidy, InCall, Waiting, Booted, Kept, Sound
  <2>4. \A a \in Actors : /\ Waiting(a)' <=> Waiting(a)
                          /\ Wanted(a)' = Wanted(a) /\ Command(a)' = Command(a)
                          /\ Owed(a)' <=> Owed(a)
                          /\ Answered(a)' <=> Answered(a)
                          /\ Copied(a)' <=> Copied(a)
    BY <2>1 DEF Copied, Waiting, Wanted, Command, Lba, Owed, Answered, Fetched, Taken, PhaseAfter
  <2>5. \A q \in {"admin", "io"} : (Fetched(q) <=> Fetched(q)') /\ (Taken(q) <=> Taken(q)')
    BY <2>1 DEF Fetched, Taken
  <2>6. NvmeInv'
    <3> SUFFICES ASSUME controller = "nvme" PROVE NvmeInv'
      BY <2>1 DEF NvmeInv
    <3>1. PhasesInv' /\ WrittenInv'
      BY <2>1 DEF IInv, NvmeInv, PhasesInv, WrittenInv
    <3>2. Sound => /\ \A a \in Actors : Waiting(a)' => Owed(a)' \/ Answered(a)'
                   /\ \A q \in {"admin", "io"} :
                        (\A a \in Actors : Waiting(a)' => actor'[a].q # q) => Fetched(q)' /\ Taken(q)'
      BY <2>1, <2>4, <2>5 DEF IInv, NvmeInv
    <3>3. \A a \in Actors : /\ Waiting(a)' => owner'["submit"] = a
                            /\ actor'[a].pc # "packet"
                            /\ Sound => Copied(a)'
      BY <2>1, <2>4 DEF IInv, NvmeInv
    <3> QED
      BY <2>1, <3>1, <3>2, <3>3 DEF NvmeInv, Sound
  <2>7. AhciInv'
    BY <2>1, <2>4 DEF IInv, AhciInv
  <2>8. IdeInv'
    BY <2>1 DEF IInv, IdeInv
  <2> QED
    BY <2>2, <2>3, <2>6, <2>7, <2>8 DEF IInv, CallsInv
<1> QED
  BY <1>1, <1>2, <1>3, <1>4, <1>5, <1>6 DEF DiskNext, Executing

LEMMA IInvHolds == DiskSpec => []IInv
<1>1. DiskInit => IInv
  BY InitHolds
<1>2. IInv /\ [DiskNext]_diskVars => IInv'
  BY NextKeeps
<1> QED
  BY <1>1, <1>2, PTL DEF DiskSpec

-----------------------------------------------------------------------------
(* What follows from it                                                     *)

(* Distances round a queue.                                                 *)
LEMMA Distance ==
  ASSUME NEW e \in Entries, NEW h \in Entries
  PROVE  /\ (e - h) % Depth = IF e >= h THEN e - h ELSE e - h + Depth
         /\ (EntryAfter(h) - h) % Depth = 1
<1>1. Depth \in Nat \ {0, 1} /\ e \in 0 .. Depth - 1 /\ h \in 0 .. Depth - 1
  BY DiskAssumption DEF Entries
<1>2. \A k \in 0 .. Depth - 1 : k % Depth = k /\ (k - Depth) % Depth = k
  BY <1>1, SMT
<1>3. ASSUME NEW x \in 0 .. Depth - 1
      PROVE  (x - h) % Depth = IF x >= h THEN x - h ELSE x - h + Depth
  <2>1. CASE x >= h
    BY <2>1, <1>1, <1>2
  <2>2. CASE ~(x >= h)
    <3>1. PICK k \in 0 .. Depth - 1 : k = x - h + Depth /\ x - h = k - Depth
      BY <2>2, <1>1
    <3> QED
      BY <2>2, <3>1, <1>2
  <2> QED
    BY <2>1, <2>2
<1>4. EntryAfter(h) = (IF h + 1 = Depth THEN 0 ELSE h + 1) /\ EntryAfter(h) \in 0 .. Depth - 1
  BY EntryRound DEF Entries
<1>5. (EntryAfter(h) - h) % Depth = 1
  BY <1>1, <1>3, <1>4
<1> QED
  BY <1>1, <1>3, <1>5

(* A command the NVMe controller has yet to execute is of who waits for it. *)
LEMMA NvmeOutstanding ==
  ASSUME IInv, Sound, controller = "nvme", NEW q \in {"admin", "io"}, NEW e \in Before(q)
  PROVE  \E a \in Actors : Waiting(a) /\ queue[q].sq[e] = Command(a)
<1>1. /\ hba[q].sqHead \in Entries /\ queue[q].sqTail \in Entries /\ e \in Entries
      /\ (e - hba[q].sqHead) % Depth < (queue[q].sqTail - hba[q].sqHead) % Depth
  BY DEF IInv, DiskTypeOK, QueueStates, Before
<1>2. \A x \in Entries : x \in Int /\ 0 <= x /\ x < Depth /\ Depth \in Int
  BY DiskAssumption DEF Entries
<1>3. ~Fetched(q)
  <2> SUFFICES ASSUME queue[q].sqTail = hba[q].sqHead PROVE FALSE
    BY DEF Fetched
  <2>1. (queue[q].sqTail - hba[q].sqHead) % Depth = 0
    BY <1>1, <1>2, Distance
  <2> QED
    BY <2>1, <1>1, <1>2, Distance
<1>4. PICK a \in Actors : Waiting(a) /\ actor[a].q = q /\ Owed(a)
  BY <1>3 DEF IInv, NvmeInv, Answered
<1>5. (queue[q].sqTail - hba[q].sqHead) % Depth = 1
  BY <1>1, <1>4, Distance DEF Owed
<1>6. e = hba[q].sqHead
  <2>1. PICK h \in Entries : h = hba[q].sqHead
    BY <1>1
  <2>2. (e - h) % Depth < 1
    BY <1>1, <1>5, <2>1
  <2>3. (e - h) % Depth = IF e >= h THEN e - h ELSE e - h + Depth
    BY <1>1, Distance
  <2>4. /\ e \in Int /\ h \in Int /\ Depth \in Int
        /\ 0 <= e /\ h < Depth
    BY <1>1, <1>2
  <2>5. e = h
    BY <2>2, <2>3, <2>4
  <2> QED
    BY <2>1, <2>5
<1> QED
  BY <1>4, <1>6 DEF Owed

(* A read that succeeds has the blocks it was asked for, in order, and a    *)
(* drive is listed under its own name (nvme_read, ahci_sata_read,            *)
(* ide_atapi_send_packet): whatever the other threads read meanwhile, unless *)
(* a command has outlasted nvme_submit_and_wait, or another thread has       *)
(* selected the other drive of the channel.                                 *)
THEOREM ReadsAreRight == DiskSpec => []ReadsWhatWasAsked
<1>1. ASSUME IInv PROVE ReadsWhatWasAsked
  <2>1. ASSUME NEW r \in Readers, actor[r].pc = "done", actor[r].ok, Sound, ~actor[r].stolen
        PROVE  actor[r].got = [i \in 1 .. actor[r].count |-> <<actor[r].drive, actor[r].lba + i - 1>>]
    <3>1. /\ Len(actor[r].got) = actor[r].count
          /\ \A i \in 1 .. Len(actor[r].got) : actor[r].got[i] = <<actor[r].drive, actor[r].lba + i - 1>>
      BY <1>1, <2>1 DEF IInv, CallsInv, GotInv
    <3>2. actor[r].got \in Seq(Places \union {Null})
      BY <1>1, WhoActs, Typed DEF IInv
    <3>3. actor[r].got = [i \in 1 .. Len(actor[r].got) |-> actor[r].got[i]]
      BY <3>2
    <3> QED
      BY <3>1, <3>3
  <2> QED
    BY <1>1, <2>1 DEF ReadsWhatWasAsked, IInv, CallsInv, ListedInv
<1> QED
  BY <1>1, IInvHolds, PTL

(* A command the controller may still execute writes into a block that the  *)
(* thread waiting for it holds, unless one has outlasted                     *)
(* nvme_submit_and_wait; and a thread that waits for nothing holds nothing,  *)
(* but for the buffers that nvme_init never frees.                          *)
THEOREM WritesStayInside == DiskSpec => []DmaStaysInside
<1>1. ASSUME IInv PROVE DmaStaysInside
  <2>0. controller # "ide" \/ \A a \in Actors : ~Waiting(a)
    BY <1>1 DEF IInv, IdeInv, Waiting
  <2>1. \A a \in Actors :
          Waiting(a) => IF actor[a].buf = Null THEN controller = "nvme" ELSE actor[a].buf \in actor[a].blks
    <3>1. CASE controller = "nvme"
      BY <3>1, <1>1 DEF IInv, CallsInv, BlocksInv
    <3>2. CASE controller = "ahci"
      BY <3>2, <1>1, Typed, DiskAssumption DEF IInv, AhciInv
    <3> QED
      BY <2>0, <3>1, <3>2, <1>1 DEF IInv, DiskTypeOK, Controllers
  <2>2. ASSUME Sound, NEW c \in Outstanding
        PROVE  \E a \in Actors : Waiting(a) /\ c = Command(a)
    <3>1. CASE controller = "nvme"
      <4>1. PICK q \in {"admin", "io"} : \E e \in Before(q) : c = queue[q].sq[e]
        BY <2>2, <3>1 DEF Outstanding
      <4> QED
        BY <4>1, <1>1, <2>2, <3>1, NvmeOutstanding
    <3>2. CASE controller # "nvme"
      <4>1. PICK d \in Drives : ~port[d].stopped /\ \E s \in port[d].ci : c = port[d].cmd[s]
        BY <2>2, <3>2 DEF Outstanding
      <4> QED
        BY <4>1, <1>1 DEF IInv, AhciInv
    <3> QED
      BY <3>1, <3>2
  <2>3. Sound => \A c \in Outstanding :
                   /\ actor[c.for].pc = "wait"
                   /\ IF c.buf = Null THEN controller = "nvme" ELSE c.buf \in actor[c.for].blks
    BY <2>1, <2>2 DEF Command, Waiting
  <2>4. Sound => \A a, b \in Actors : a # b => actor[a].blks \intersect actor[b].blks = {}
    BY <1>1 DEF IInv, CallsInv, BlocksInv, Tidy
  <2> QED
    BY <1>1, <2>3, <2>4 DEF DmaStaysInside, IInv, CallsInv, BlocksInv
<1> QED
  BY <1>1, IInvHolds, PTL

=============================================================================
