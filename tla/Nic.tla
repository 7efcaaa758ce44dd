-------------------------------- MODULE Nic --------------------------------
(***************************************************************************)
(* The network interface controller of kernel/src/network/nidm.cpp and the  *)
(* card under it, an e1000 or an rtl8168.  Five actors share the two packet *)
(* rings and the card's descriptors:                                        *)
(*                                                                          *)
(*   - the boot thread, which sets the card up and registers the interface; *)
(*   - the interrupt handler, which copies what the card received into the  *)
(*     incoming ring; threads stand still meanwhile, the card does not;     *)
(*   - the nic thread, which drains the rings in turn;                      *)
(*   - the threads that call ethernet_send;                                 *)
(*   - the card, which is not this repository's code.                       *)
(*                                                                          *)
(* Frames are numbered in the order the card takes them off the wire, and   *)
(* in the order they are dispatched.  The incoming ring is the queue of     *)
(* BoundedFifo: its producer is never preempted by its consumer.            *)
(***************************************************************************)
EXTENDS Integers, Sequences

CONSTANTS
  Threads,    \* threads that send; the nic thread answers from within a receipt
  OneSender,  \* whether a thread waits for the others before it sends
  RxDescs,    \* E1000_RECEIVE_DESC_COUNT, NUM_RX_DESC
  TxDescs,    \* E1000_TRANSMIT_DESC_COUNT, NUM_TX_DESC
  RingSize,   \* buffer_size of both packet rings
  MaxRx,      \* bound: frames the card takes off the wire
  MaxTx,      \* bound: frames dispatched
  MaxFrames,  \* bound: both together
  MaxFlips    \* bound: changes of the link

ASSUME NicAssumption ==
  /\ "nic" \notin Threads /\ OneSender \in BOOLEAN
  /\ RxDescs \in Nat \ {0, 1} /\ TxDescs \in Nat \ {0, 1}
  /\ RingSize \in Nat \ {0, 1}
  /\ MaxRx \in Nat /\ MaxTx \in Nat /\ MaxFrames \in Nat /\ MaxFlips \in Nat

Producers == Threads \union {"nic"}
RxSlots == 0 .. RxDescs - 1
TxSlots == 0 .. TxDescs - 1
RingSlots == 0 .. RingSize - 1

VARIABLES
  kind,       \* network_interface_device_type_t of the card
  boot,       \* how far the boot thread is
  rx,         \* receive descriptors: the frame in it, 0 while the card owns it
  rxCard,     \* where the card writes next (RDH of the e1000)
  rxNext,     \* rx_tail of e1000_t, rx_current of rtl8168_t
  rdt,        \* RDT of the e1000: the card stops in front of it
  cause,      \* what ICR or ISR holds
  isr,        \* the interrupt handler
  incoming,   \* incoming_packets
  orphans,    \* frames whose packet carries no interface
  outBuf, outHead, outTail,   \* outgoing_packets
  producer,   \* per producer: where it is in ethernet_send, its frame and head
  nic,        \* the nic thread: where it is and the frame it holds
  selector,   \* buffer_selector % 2
  tx,         \* transmit descriptors: the frame in it, 0 when the card is done
  txCard,     \* where the card reads next (TDH)
  txNext,     \* tx_tail, tx_current; the e1000 is told it as TDT
  link,       \* the cable, and link_sttatus_up
  handled,    \* frames ethernet_receive was called with, in order
  wire,       \* frames the card has sent, in order
  numbers     \* how many frames were received, dispatched; how often the link
              \* changed; how many frames came before the interrupts were enabled

bootVars == <<kind, boot>>
rxVars == <<rx, rxCard, rxNext, rdt, cause, isr, incoming, orphans>>
outVars == <<outBuf, outHead, outTail, producer>>
txVars == <<tx, txCard, txNext, wire>>
nicThread == <<nic, selector, handled>>
nicVars == <<bootVars, rxVars, outVars, txVars, nicThread, link, numbers>>

NicInit ==
  /\ kind \in {"e1000", "rtl8168"}
  /\ boot = "probing"
  /\ rx = [s \in RxSlots |-> 0]
  /\ rxCard = 0 /\ rxNext = 0 /\ rdt = RxDescs - 1
  /\ cause = {} /\ isr = "idle"
  /\ incoming = <<>> /\ orphans = {}
  /\ outBuf = [s \in RingSlots |-> 0] /\ outHead = 0 /\ outTail = 0
  /\ producer = [p \in Producers |-> [pc |-> "idle", frame |-> 0, next |-> 0]]
  /\ nic = [pc |-> "poll", frame |-> 0] /\ selector = 0
  /\ tx = [s \in TxSlots |-> 0] /\ txCard = 0 /\ txNext = 0
  /\ link = [cable |-> "up", seen |-> "down", read |-> "down"]
  /\ handled = <<>> /\ wire = <<>>
  /\ numbers = [rx |-> 0, tx |-> 0, flips |-> 0, early |-> 0]

Running == isr = "idle"   \* the handler runs behind an interrupt gate
After(stage) == boot \in CASE stage = "rings" -> {"rings", "unmasked", "hooked", "read", "registered", "failed"}
                           [] stage = "unmasked" -> {"unmasked", "hooked", "read", "registered"}
                           [] stage = "hooked" -> {"hooked", "read", "registered"}

-----------------------------------------------------------------------------
(* The boot thread: e1000_init_device, rtl8168_init_device, network_pci_loop *)

Boots(from, to) == Running /\ boot = from /\ boot' = to

(* Everything up to the rings: probing, reset, the MAC, both allocations. A *)
(* card that fails before the rings are handed over never receives.         *)
SetsUpRings ==
  /\ Boots("probing", "rings")
  /\ UNCHANGED <<kind, rxVars, outVars, txVars, nicThread, link, numbers>>

(* e1000_enable_interrupts reads ICR first, which clears it; the rtl8168 is *)
(* only told its mask.                                                      *)
Unmasks ==
  /\ Boots("rings", "unmasked")
  /\ cause' = IF kind = "e1000" THEN {} ELSE cause
  /\ numbers' = [numbers EXCEPT !.early = numbers.rx]
  /\ UNCHANGED <<kind, rx, rxCard, rxNext, rdt, isr, incoming, orphans, outVars, txVars, nicThread,
                 link>>

(* transmit_init or hook_interrupt refuses; the card keeps on receiving.    *)
GivesUp ==
  /\ \E from \in {"rings", "unmasked"} : Boots(from, "failed")
  /\ UNCHANGED <<kind, rxVars, outVars, txVars, nicThread, link, numbers>>

Hooks ==
  /\ Boots("unmasked", "hooked")
  /\ UNCHANGED <<kind, rxVars, outVars, txVars, nicThread, link, numbers>>

(* rtl8168_init_device reads the state of the link ...                      *)
ReadsLink ==
  /\ Boots("hooked", "read")
  /\ link' = IF kind = "rtl8168" THEN [link EXCEPT !.read = link.cable] ELSE link
  /\ UNCHANGED <<kind, rxVars, outVars, txVars, nicThread, numbers>>

(* ... and stores it, whatever the handler has stored meanwhile.            *)
Registers ==
  /\ Boots("read", "registered")
  /\ link' = IF kind = "rtl8168" THEN [link EXCEPT !.seen = link.read] ELSE link
  /\ UNCHANGED <<kind, rxVars, outVars, txVars, nicThread, numbers>>

Boot == SetsUpRings \/ Unmasks \/ GivesUp \/ Hooks \/ ReadsLink \/ Registers

-----------------------------------------------------------------------------
(* The card and the cable                                                   *)

Receiving == IF kind = "e1000" THEN After("rings") ELSE After("unmasked") \/ boot = "failed"
CardOwns(s) == IF kind = "e1000" THEN s # rdt ELSE rx[s] = 0

InBounds == numbers.rx + numbers.tx < MaxFrames

CardReceives ==
  /\ Receiving /\ CardOwns(rxCard)
  /\ numbers.rx < MaxRx /\ InBounds
  /\ numbers' = [numbers EXCEPT !.rx = @ + 1]
  /\ rx' = [rx EXCEPT ![rxCard] = numbers.rx + 1]
  /\ rxCard' = (rxCard + 1) % RxDescs
  /\ cause' = cause \union {"rx"}
  /\ UNCHANGED <<bootVars, rxNext, rdt, isr, incoming, orphans, outVars, txVars, nicThread, link>>

CardTransmits ==
  /\ IF kind = "e1000" THEN txCard # txNext ELSE tx[txCard] # 0
  /\ wire' = Append(wire, tx[txCard])
  /\ tx' = [tx EXCEPT ![txCard] = 0]
  /\ txCard' = (txCard + 1) % TxDescs
  /\ UNCHANGED <<bootVars, rxVars, outVars, txNext, nicThread, link, numbers>>

(* The driver of an e1000 only prints that the link changed.                *)
CableFlips ==
  /\ kind = "rtl8168" /\ numbers.flips < MaxFlips
  /\ numbers' = [numbers EXCEPT !.flips = @ + 1]
  /\ link' = [link EXCEPT !.cable = IF @ = "up" THEN "down" ELSE "up"]
  /\ cause' = cause \union {"link"}
  /\ UNCHANGED <<bootVars, rx, rxCard, rxNext, rdt, isr, incoming, orphans, outVars, txVars,
                 nicThread>>

Card == CardReceives \/ CardTransmits \/ CableFlips

-----------------------------------------------------------------------------
(* The interrupt handler                                                    *)

(* It clears the cause before it looks at the descriptors.                  *)
IrqEnters ==
  /\ isr = "idle" /\ cause # {} /\ After("hooked")
  /\ isr' = IF "rx" \in cause THEN "drain" ELSE "idle"
  /\ cause' = {}
  /\ link' = IF kind = "rtl8168" /\ "link" \in cause THEN [link EXCEPT !.seen = link.cable] ELSE link
  /\ UNCHANGED <<bootVars, rx, rxCard, rxNext, rdt, incoming, orphans, outVars, txVars, nicThread,
                 numbers>>

(* nic_receive_packet: a full ring drops the frame, and nobody frees it.    *)
Queue(f) == incoming' = IF Len(incoming) < RingSize - 1 THEN Append(incoming, f) ELSE incoming

(* The packet names its interface, which has to be registered by then.      *)
IrqTakes ==
  /\ isr = "drain" /\ rx[rxNext] # 0
  /\ Queue(rx[rxNext])
  /\ orphans' = IF boot = "registered" THEN orphans ELSE orphans \union {rx[rxNext]}
  /\ rx' = [rx EXCEPT ![rxNext] = 0]
  /\ rxNext' = (rxNext + 1) % RxDescs
  /\ UNCHANGED <<bootVars, rxCard, rdt, cause, isr, outVars, txVars, nicThread, link, numbers>>

(* e1000_recieve_packet hands the emptied descriptors back at the end.      *)
HandBack == rdt' = IF kind = "e1000" THEN (rxNext + RxDescs - 1) % RxDescs ELSE rdt

IrqEnds ==
  /\ isr = "drain" /\ rx[rxNext] = 0
  /\ isr' = "idle"
  /\ HandBack
  /\ UNCHANGED <<bootVars, rx, rxCard, rxNext, cause, incoming, orphans, outVars, txVars, nicThread,
                 link, numbers>>

Irq == IrqEnters \/ IrqTakes \/ IrqEnds

-----------------------------------------------------------------------------
(* ethernet_send and nic_dispatch_packet                                    *)

MaySend(p) ==
  /\ Running /\ boot = "registered" /\ producer[p].pc = "idle"
  /\ numbers.tx < MaxTx /\ InBounds
  /\ OneSender => \A q \in Producers : producer[q].pc = "idle"

Full == (outHead + 1) % RingSize = outTail

(* The frame is built, and the slot at the head written; a full ring drops  *)
(* the frame.                                                               *)
Dispatch(p) ==
  /\ MaySend(p)
  /\ numbers' = [numbers EXCEPT !.tx = @ + 1]
  /\ IF Full
       THEN UNCHANGED outBuf /\ UNCHANGED producer
       ELSE /\ outBuf' = [outBuf EXCEPT ![outHead] = numbers.tx + 1]
            /\ producer' = [producer EXCEPT ![p] = [pc |-> "stored", frame |-> numbers.tx + 1,
                                                    next |-> (outHead + 1) % RingSize]]
  /\ UNCHANGED <<outHead, outTail>>

AdvanceHead(p) ==
  /\ Running /\ producer[p].pc = "stored"
  /\ outHead' = producer[p].next
  /\ producer' = [producer EXCEPT ![p].pc = "idle"]
  /\ UNCHANGED <<outBuf, outTail>>

ThreadSends(p) ==
  /\ Dispatch(p)
  /\ UNCHANGED <<bootVars, rxVars, txVars, nicThread, link>>

ThreadAdvances(p) ==
  /\ AdvanceHead(p)
  /\ UNCHANGED <<bootVars, rxVars, txVars, nicThread, link, numbers>>

-----------------------------------------------------------------------------
(* The nic thread                                                           *)

NicAt(pc) == Running /\ nic.pc = pc
NicGoto(pc, f) == nic' = [pc |-> pc, frame |-> f]

(* Mutant: the selector stands still once it looks at the outgoing ring. *)
FlipsOnce == selector' = 0

(* buffer_selector is counted up before it is looked at.                    *)
Flips == selector' = 1 - selector
LooksIn == selector = 1

(* On even turns a received frame comes first.  ip_receive and arp_receive  *)
(* reach for the interface: the thread crashes on a packet without one.     *)
NicReceives ==
  /\ NicAt("poll") /\ Flips
  /\ LooksIn /\ incoming # <<>>
  /\ \/ NicGoto("receive", Head(incoming))
     \/ Head(incoming) \in orphans /\ NicGoto("halted", Head(incoming))
  /\ incoming' = Tail(incoming)
  /\ handled' = Append(handled, Head(incoming))
  /\ UNCHANGED <<bootVars, rx, rxCard, rxNext, rdt, cause, isr, orphans, outVars, txVars, link,
                 numbers>>

(* Otherwise one to send ...                                                *)
NicSends ==
  /\ NicAt("poll") /\ Flips
  /\ ~(LooksIn /\ incoming # <<>>)
  /\ outHead # outTail
  /\ NicGoto("send", outBuf[outTail])
  /\ outTail' = (outTail + 1) % RingSize
  /\ UNCHANGED <<bootVars, rxVars, outBuf, outHead, producer, txVars, handled, link, numbers>>

(* ... and with neither it reports no work and yields.                      *)
NicYields ==
  /\ NicAt("poll") /\ Flips
  /\ ~(LooksIn /\ incoming # <<>>)
  /\ outHead = outTail
  /\ UNCHANGED <<bootVars, rxVars, outVars, txVars, nic, handled, link, numbers>>

(* ethernet_receive: it may answer, on the same thread.                     *)
NicAnswers ==
  /\ NicAt("receive") /\ Dispatch("nic")
  /\ NicGoto("answer", nic.frame)
  /\ UNCHANGED <<bootVars, rxVars, txVars, selector, handled, link>>

NicAdvances ==
  /\ NicAt("answer") /\ AdvanceHead("nic")
  /\ UNCHANGED <<bootVars, rxVars, txVars, nicThread, link, numbers>>

NicIsDone ==
  /\ nic.pc \in {"receive", "answer"} /\ Running /\ producer["nic"].pc = "idle"
  /\ NicGoto("poll", 0)
  /\ UNCHANGED <<bootVars, rxVars, outVars, txVars, selector, handled, link, numbers>>

NextTx == (txNext + 1) % TxDescs

(* Mutant: a descriptor the card has not read yet is written again. *)
TxFullNever == FALSE

(* e1000_send_packet: a ring that looks full drops the frame.               *)
TxFull == IF kind = "e1000" THEN NextTx = txCard ELSE tx[txNext] # 0

E1000Sends ==
  /\ NicAt("send") /\ kind = "e1000"
  /\ IF TxFull
       THEN UNCHANGED <<tx, txNext>>
       ELSE tx' = [tx EXCEPT ![txNext] = nic.frame] /\ txNext' = NextTx
  /\ NicGoto("poll", 0)
  /\ UNCHANGED <<bootVars, rxVars, outVars, txCard, wire, selector, handled, link, numbers>>

(* rtl8168_send_packet spins until the link is up ...                       *)
RtlSends ==
  /\ NicAt("send") /\ kind = "rtl8168" /\ link.seen = "up"
  /\ IF TxFull
       THEN UNCHANGED tx /\ NicGoto("poll", 0)
       ELSE tx' = [tx EXCEPT ![txNext] = nic.frame] /\ NicGoto("sent", nic.frame)
  /\ UNCHANGED <<bootVars, rxVars, outVars, txCard, txNext, wire, selector, handled, link, numbers>>

(* ... and moves on when the card is done or after 10000 looks at it.       *)
RtlMovesOn ==
  /\ NicAt("sent")
  /\ txNext' = NextTx
  /\ NicGoto("poll", 0)
  /\ UNCHANGED <<bootVars, rxVars, outVars, tx, txCard, wire, selector, handled, link, numbers>>

NicThread ==
  \/ NicReceives \/ NicSends \/ NicYields \/ NicAnswers \/ NicAdvances \/ NicIsDone
  \/ E1000Sends \/ RtlSends \/ RtlMovesOn

Sends == \E p \in Threads : ThreadSends(p) \/ ThreadAdvances(p)

NicNext == Boot \/ Card \/ Irq \/ Sends \/ NicThread

(* Interrupts that are pending are taken, the card sends what it is given,  *)
(* the nic thread gets the CPU (EveryThreadRuns of VThread), a thread in    *)
(* ethernet_send too.                                                       *)
NicFairness ==
  /\ WF_nicVars(Irq)
  /\ WF_nicVars(CardTransmits)
  /\ WF_nicVars(NicReceives \/ NicSends \/ NicYields \/ NicAdvances \/ NicIsDone
                \/ E1000Sends \/ RtlSends \/ RtlMovesOn)
  /\ \A p \in Threads : WF_nicVars(ThreadAdvances(p))

NicSpec == NicInit /\ [][NicNext]_nicVars

-----------------------------------------------------------------------------
(* Properties                                                               *)

NicTypeOK ==
  /\ kind \in {"e1000", "rtl8168"}
  /\ boot \in {"probing", "rings", "unmasked", "hooked", "read", "registered", "failed"}
  /\ rx \in [RxSlots -> 0 .. MaxRx] /\ rxCard \in RxSlots /\ rxNext \in RxSlots /\ rdt \in RxSlots
  /\ cause \subseteq {"rx", "link"} /\ isr \in {"idle", "drain"}
  /\ incoming \in Seq(1 .. MaxRx) /\ Len(incoming) < RingSize /\ orphans \subseteq 1 .. MaxRx
  /\ outBuf \in [RingSlots -> 0 .. MaxTx] /\ outHead \in RingSlots /\ outTail \in RingSlots
  /\ producer \in [Producers -> [pc : {"idle", "stored"}, frame : 0 .. MaxTx, next : RingSlots]]
  /\ nic.pc \in {"poll", "receive", "answer", "send", "sent", "halted"} /\ nic.frame \in Nat
  /\ selector \in {0, 1}
  /\ tx \in [TxSlots -> 0 .. MaxTx] /\ txCard \in TxSlots /\ txNext \in TxSlots
  /\ link \in [cable : {"up", "down"}, seen : {"up", "down"}, read : {"up", "down"}]
  /\ handled \in Seq(1 .. MaxRx) /\ wire \in Seq(1 .. MaxTx)
  /\ numbers \in [rx : 0 .. MaxRx, tx : 0 .. MaxTx, flips : 0 .. MaxFlips,
                 early : 0 .. MaxRx]

Ascends(s) == \A i, j \in DOMAIN s : i < j => s[i] < s[j]

(* Across descriptors, rings and threads no frame is repeated, overtaken or *)
(* made up: the stack hears a subsequence of what the card received, and    *)
(* the wire carries one of what was dispatched.                             *)
FramesInOrder == Ascends(handled) /\ Ascends(wire)

(* What the card wrote into a descriptor is taken out again, however the    *)
(* handler and the card interleave, and the nic thread comes to the ring    *)
(* it goes to even if the other one never empties.  What came before the    *)
(* interrupts were enabled is taken with the first frame behind it, if it   *)
(* has left a descriptor for that one.  Two things stop the traffic: a      *)
(* driver that believes the link down for good, with the nic thread         *)
(* spinning in rtl8168_send_packet, and a crash of that thread over a       *)
(* packet without an interface.                                             *)
OnCard(f) == \E s \in RxSlots : rx[s] = f
Queued(f) == \E i \in DOMAIN incoming : incoming[i] = f
EveryFrameHandled ==
  <>[](After("hooked") /\ (kind = "rtl8168" => link.seen = "up") /\ nic.pc # "halted")
    => \A f \in 1 .. MaxRx :
         (OnCard(f) \/ Queued(f)) /\ After("unmasked") /\ numbers.rx > numbers.early
           ~> ~(OnCard(f) \/ Queued(f))
=============================================================================
