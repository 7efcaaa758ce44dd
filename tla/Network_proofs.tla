---------------------------- MODULE Network_proofs ----------------------------
(***************************************************************************)
(* For any number of descriptors, slots, threads and frames, and for both   *)
(* cards: what the stack hears and what the wire carries keeps the order it *)
(* came in, as long as the threads send one at a time.                      *)
(*                                                                          *)
(* Both descriptor rings and the outgoing ring are instances of one idea: a *)
(* window that starts where frames are taken out and ends where they are    *)
(* put in.  The lemmas about windows carry the proof; the rest says which   *)
(* index is which end, and that every place a frame passes through holds    *)
(* older frames than the place it came from.                                *)
(*                                                                          *)
(* Behind it, for any number of DHCP servers, names, networks and asking    *)
(* threads: the interface carries only an address that was granted to this  *)
(* machine, and a query returns the address of the name it asked for.       *)
(***************************************************************************)
EXTENDS Nic, NetConfig, SequenceTheorems, TLAPS

-----------------------------------------------------------------------------
(* Windows in a ring                                                        *)

(* How far slot s lies from slot base, going round a ring of n slots.       *)
Ahead(base, s, n) == IF s >= base THEN s - base ELSE s - base + n

(* The slot after s.                                                        *)
Succ(s, n) == IF s + 1 = n THEN 0 ELSE s + 1

(* The slots from base up to head hold ascending frames, the others none;   *)
(* the window is full, not empty, when the slot at its head holds one.      *)
Window(buf, base, head, n) ==
  /\ buf[head] = 0 => \A s \in 0 .. n - 1 : buf[s] # 0 <=> Ahead(base, s, n) < Ahead(base, head, n)
  /\ buf[head] # 0 => head = base /\ \A s \in 0 .. n - 1 : buf[s] # 0
  /\ \A s, t \in 0 .. n - 1 :
       buf[s] # 0 /\ buf[t] # 0 /\ Ahead(base, s, n) < Ahead(base, t, n) => buf[s] < buf[t]

(* The frames a ring or a sequence holds.                                   *)
InRing(buf, n) == {buf[s] : s \in 0 .. n - 1} \ {0}
InSeq(q) == {q[i] : i \in DOMAIN q}

Older(A, B) == \A a \in A, b \in B : a < b

-----------------------------------------------------------------------------
(* The invariant                                                            *)

(* The e1000 has one descriptor the card may not write, so its window is    *)
(* never full, and the handler stays between that descriptor and the card.  *)
RxInv ==
  /\ Window(rx, rxNext, rxCard, RxDescs)
  /\ kind = "e1000" =>
       /\ rx[rxCard] = 0
       /\ Ahead(Succ(rdt, RxDescs), rxNext, RxDescs) <= Ahead(Succ(rdt, RxDescs), rxCard, RxDescs)

(* From the ring of descriptors to the stack: each place holds older frames *)
(* than the one before.                                                     *)
ReceivedInv ==
  /\ Ascends(handled) /\ Ascends(incoming)
  /\ Older(InSeq(handled), InSeq(incoming))
  /\ Older(InSeq(handled), InRing(rx, RxDescs))
  /\ Older(InSeq(incoming), InRing(rx, RxDescs))
  /\ \A f \in InSeq(handled) \union InSeq(incoming) \union InRing(rx, RxDescs) : f <= numbers.rx

(* rtl8168_send_packet moves tx_current on after it has waited for the card. *)
TxHead == IF nic.pc = "sent" THEN Succ(txNext, TxDescs) ELSE txNext

TxInv ==
  /\ Window(tx, txCard, TxHead, TxDescs)
  /\ kind = "e1000" => nic.pc # "sent" /\ tx[txNext] = 0

(* The outgoing ring, without what the nic thread has taken and without the *)
(* slot whose frame its producer has not published.                         *)
Outgoing ==
  [s \in RingSlots |->
     IF Ahead(outTail, s, RingSize) < Ahead(outTail, outHead, RingSize) THEN outBuf[s] ELSE 0]

Storing(p) == producer[p].pc = "stored"

(* One producer at a time has stored a frame, and it is the newest one.     *)
OutInv ==
  /\ Window(Outgoing, outTail, outHead, RingSize)
  /\ \A p, q \in Producers : Storing(p) /\ Storing(q) => p = q
  /\ \A p \in Producers :
       Storing(p) => /\ producer[p].next = Succ(outHead, RingSize) /\ Succ(outHead, RingSize) # outTail
                     /\ outBuf[outHead] = numbers.tx /\ numbers.tx > 0

InHand == IF nic.pc = "send" THEN {nic.frame} ELSE {}

(* From the outgoing ring to the wire.                                      *)
DispatchedInv ==
  /\ Ascends(wire)
  /\ Older(InSeq(wire), InRing(tx, TxDescs))
  /\ Older(InSeq(wire), InHand)
  /\ Older(InSeq(wire), InRing(Outgoing, RingSize))
  /\ Older(InRing(tx, TxDescs), InHand)
  /\ Older(InRing(tx, TxDescs), InRing(Outgoing, RingSize))
  /\ Older(InHand, InRing(Outgoing, RingSize))
  /\ \A f \in InSeq(wire) \union InRing(tx, TxDescs) \union InHand \union InRing(Outgoing, RingSize) :
       0 < f /\ f <= numbers.tx /\ (\A p \in Producers : Storing(p) => f < numbers.tx)

-----------------------------------------------------------------------------
(* Going round a ring                                                       *)

LEMMA StepRound ==
  ASSUME NEW n \in Nat \ {0, 1}, NEW s \in 0 .. n - 1
  PROVE  /\ (s + 1) % n = Succ(s, n) /\ Succ(s, n) \in 0 .. n - 1 /\ Succ(s, n) # s
         /\ (s + n - 1) % n \in 0 .. n - 1 /\ Succ((s + n - 1) % n, n) = s
<1>1. /\ \A k \in 0 .. n - 1 : k % n = k
      /\ n % n = 0
  BY SMT
<1>2. (s + 1) % n = Succ(s, n) /\ Succ(s, n) \in 0 .. n - 1 /\ Succ(s, n) # s
  BY <1>1 DEF Succ
<1>3. (s + n - 1) % n = IF s = 0 THEN n - 1 ELSE s - 1
  <2>1. CASE s = 0
    BY <2>1, <1>1
  <2>2. CASE s # 0
    <3>1. PICK k \in 0 .. n - 1 : k = s - 1 /\ s + n - 1 = k + n
      BY <2>2
    <3>2. (k + n) % n = k
      BY SMT
    <3> QED
      BY <2>2, <3>1, <3>2
  <2> QED
    BY <2>1, <2>2
<1> QED
  BY <1>2, <1>3 DEF Succ

(* From the slot after d on, index a is not past index c.  Each may take a  *)
(* step: c until it is at d, a until it is at c.                            *)
LEMMA FollowsRound ==
  ASSUME NEW n \in Nat \ {0, 1}, NEW d \in 0 .. n - 1, NEW a \in 0 .. n - 1, NEW c \in 0 .. n - 1,
         Ahead(Succ(d, n), a, n) <= Ahead(Succ(d, n), c, n)
  PROVE  /\ c # d => /\ Succ(c, n) # a
                     /\ Ahead(Succ(d, n), a, n) <= Ahead(Succ(d, n), Succ(c, n), n)
         /\ a # c => Ahead(Succ(d, n), Succ(a, n), n) <= Ahead(Succ(d, n), c, n)
<1>1. CASE d + 1 = n
  BY <1>1 DEF Ahead, Succ
<1>2. CASE d + 1 # n
  BY <1>2 DEF Ahead, Succ
<1> QED
  BY <1>1, <1>2

(* What a window gains when its head moves, and loses when its base does.   *)
LEMMA WindowGrows ==
  ASSUME NEW n \in Nat \ {0, 1}, NEW base \in 0 .. n - 1, NEW head \in 0 .. n - 1,
         Succ(head, n) # base
  PROVE  \A s \in 0 .. n - 1 : Ahead(base, s, n) < Ahead(base, Succ(head, n), n)
                                 <=> s = head \/ Ahead(base, s, n) < Ahead(base, head, n)
<1>1. Ahead(base, Succ(head, n), n) = Ahead(base, head, n) + 1
  BY DEF Ahead, Succ
<1> QED
  BY <1>1 DEF Ahead

LEMMA WindowShrinks ==
  ASSUME NEW n \in Nat \ {0, 1}, NEW base \in 0 .. n - 1, NEW head \in 0 .. n - 1, base # head
  PROVE  /\ Ahead(base, base, n) < Ahead(base, head, n) /\ Succ(head, n) # Succ(base, n)
         /\ \A s \in 0 .. n - 1 : Ahead(Succ(base, n), s, n) < Ahead(Succ(base, n), head, n)
                                    <=> s # base /\ Ahead(base, s, n) < Ahead(base, head, n)
BY DEF Ahead, Succ

(* A frame is put in at the head of a window.                               *)
LEMMA PutIn ==
  ASSUME NEW n \in Nat \ {0, 1}, NEW base \in 0 .. n - 1, NEW head \in 0 .. n - 1,
         NEW buf \in [0 .. n - 1 -> Nat], NEW f \in Nat \ {0},
         Window(buf, base, head, n), buf[head] = 0, Older(InRing(buf, n), {f})
  PROVE  Window([buf EXCEPT ![head] = f], base, Succ(head, n), n)
<1> DEFINE new == [buf EXCEPT ![head] = f]
<1>0. new \in [0 .. n - 1 -> Nat]
  OBVIOUS
<1>1. \A s \in 0 .. n - 1 : buf[s] # 0 <=> Ahead(base, s, n) < Ahead(base, head, n)
  BY DEF Window
<1>2. \A s \in 0 .. n - 1 : new[s] = IF s = head THEN f ELSE buf[s]
  OBVIOUS
<1> HIDE DEF new
<1>3. \A s \in 0 .. n - 1 : new[s] # 0 <=> Ahead(base, s, n) <= Ahead(base, head, n)
  BY <1>1, <1>2 DEF Ahead
<1>4. Succ(head, n) \in 0 .. n - 1
  BY DEF Succ
<1>5. ASSUME Succ(head, n) # base
      PROVE  /\ new[Succ(head, n)] = 0
             /\ \A s \in 0 .. n - 1 : new[s] # 0 <=> Ahead(base, s, n) < Ahead(base, Succ(head, n), n)
  <2>1. Ahead(base, Succ(head, n), n) = Ahead(base, head, n) + 1
    BY <1>5 DEF Ahead, Succ
  <2>2. \A s \in 0 .. n - 1 : new[s] # 0 <=> Ahead(base, s, n) < Ahead(base, Succ(head, n), n)
    BY <1>3, <2>1 DEF Ahead
  <2>3. Ahead(base, Succ(head, n), n) \in Int
    BY <1>4 DEF Ahead
  <2>4. new[Succ(head, n)] = 0
    BY <2>2, <2>3, <1>4
  <2> QED
    BY <2>2, <2>4
<1>6. ASSUME Succ(head, n) = base
      PROVE  new[Succ(head, n)] # 0 /\ \A s \in 0 .. n - 1 : new[s] # 0
  <2>1. Ahead(base, head, n) = n - 1
    BY <1>6 DEF Ahead, Succ
  <2>2. \A s \in 0 .. n - 1 : new[s] # 0
    BY <1>3, <2>1 DEF Ahead
  <2> QED
    BY <2>2, <1>4
<1>7. \A s \in 0 .. n - 1 : buf[s] # 0 => buf[s] < f
  BY DEF Older, InRing
<1>8. \A s, t \in 0 .. n - 1 :
        new[s] # 0 /\ new[t] # 0 /\ Ahead(base, s, n) < Ahead(base, t, n) => new[s] < new[t]
  <2> SUFFICES ASSUME NEW s \in 0 .. n - 1, NEW t \in 0 .. n - 1, new[s] # 0, new[t] # 0,
                      Ahead(base, s, n) < Ahead(base, t, n)
               PROVE  new[s] < new[t]
    OBVIOUS
  <2>1. CASE s = head
    BY <2>1, <1>3 DEF Ahead
  <2>2. CASE s # head /\ t = head
    BY <2>2, <1>2, <1>7
  <2>3. CASE s # head /\ t # head
    BY <2>3, <1>2 DEF Window
  <2> QED
    BY <2>1, <2>2, <2>3
<1>9. Window(new, base, Succ(head, n), n)
  BY <1>5, <1>6, <1>8 DEF Window
<1> QED
  BY <1>9 DEF new

(* The oldest frame is taken out at the base of a window.                   *)
LEMMA TakeOut ==
  ASSUME NEW n \in Nat \ {0, 1}, NEW base \in 0 .. n - 1, NEW head \in 0 .. n - 1,
         NEW buf \in [0 .. n - 1 -> Nat], Window(buf, base, head, n), buf[base] # 0
  PROVE  /\ Window([buf EXCEPT ![base] = 0], Succ(base, n), head, n)
         /\ InRing([buf EXCEPT ![base] = 0], n) \subseteq InRing(buf, n)
         /\ buf[base] \in InRing(buf, n)
         /\ Older({buf[base]}, InRing([buf EXCEPT ![base] = 0], n))
         /\ buf[head] = 0 => [buf EXCEPT ![base] = 0][head] = 0 /\ base # head
<1> DEFINE new == [buf EXCEPT ![base] = 0]
<1>1. /\ new \in [0 .. n - 1 -> Nat]
      /\ \A s \in 0 .. n - 1 : new[s] = IF s = base THEN 0 ELSE buf[s]
  OBVIOUS
<1> HIDE DEF new
<1>2. \A s \in 0 .. n - 1 : s # base => Ahead(base, s, n) = Ahead(Succ(base, n), s, n) + 1
  BY DEF Ahead, Succ
<1>3. Ahead(base, base, n) = 0 /\ \A s \in 0 .. n - 1 : s # base => 0 < Ahead(base, s, n)
  BY DEF Ahead
<1>4. buf[head] = 0 => base # head
  OBVIOUS
<1>5. new[head] = 0
  BY <1>1, <1>4 DEF Window
<1>6. \A s \in 0 .. n - 1 : new[s] # 0 <=> Ahead(Succ(base, n), s, n) < Ahead(Succ(base, n), head, n)
  <2>1. CASE buf[head] = 0
    <3>1. \A s \in 0 .. n - 1 : buf[s] # 0 <=> Ahead(base, s, n) < Ahead(base, head, n)
      BY <2>1 DEF Window
    <3> QED
      BY <2>1, <3>1, <1>1, <1>2, <1>4 DEF Ahead, Succ
  <2>2. CASE buf[head] # 0
    <3>1. head = base /\ \A s \in 0 .. n - 1 : buf[s] # 0
      BY <2>2 DEF Window
    <3> QED
      BY <3>1, <1>1 DEF Ahead, Succ
  <2> QED
    BY <2>1, <2>2
<1>7. \A s, t \in 0 .. n - 1 :
        new[s] # 0 /\ new[t] # 0 /\ Ahead(Succ(base, n), s, n) < Ahead(Succ(base, n), t, n)
          => new[s] < new[t]
  <2> SUFFICES ASSUME NEW s \in 0 .. n - 1, NEW t \in 0 .. n - 1, new[s] # 0, new[t] # 0,
                      Ahead(Succ(base, n), s, n) < Ahead(Succ(base, n), t, n)
               PROVE  new[s] < new[t]
    OBVIOUS
  <2>1. s # base /\ t # base /\ new[s] = buf[s] /\ new[t] = buf[t]
    BY <1>1
  <2>2. Ahead(base, s, n) < Ahead(base, t, n)
    BY <2>1, <1>2 DEF Ahead, Succ
  <2> QED
    BY <2>1, <2>2 DEF Window
<1>8. InRing(new, n) \subseteq InRing(buf, n)
  BY <1>1 DEF InRing
<1>9. Older({buf[base]}, InRing(new, n))
  <2> SUFFICES ASSUME NEW s \in 0 .. n - 1, new[s] # 0 PROVE buf[base] < new[s]
    BY DEF Older, InRing
  <2> QED
    BY <1>1, <1>3 DEF Window
<1> QED
  <2>1. Window(new, Succ(base, n), head, n) /\ buf[base] \in InRing(buf, n)
    BY <1>5, <1>6, <1>7 DEF Window, InRing
  <2> QED
    BY <2>1, <1>4, <1>5, <1>8, <1>9 DEF new

(* What passes along a sequence.                                            *)
LEMMA Appended ==
  ASSUME NEW q \in Seq(Nat), NEW f \in Nat, Ascends(q), Older(InSeq(q), {f})
  PROVE  Ascends(Append(q, f)) /\ InSeq(Append(q, f)) = InSeq(q) \union {f}
<1>1. /\ DOMAIN q = 1 .. Len(q) /\ DOMAIN Append(q, f) = 1 .. Len(q) + 1
      /\ \A i \in 1 .. Len(q) + 1 : Append(q, f)[i] = IF i = Len(q) + 1 THEN f ELSE q[i]
      /\ Len(q) \in Nat
  OBVIOUS
<1>2. \A i \in 1 .. Len(q) : q[i] < f /\ q[i] \in Nat
  BY <1>1 DEF Older, InSeq
<1>3. Ascends(Append(q, f))
  BY <1>1, <1>2 DEF Ascends
<1>4. InSeq(Append(q, f)) = InSeq(q) \union {f}
  <2>1. \A i \in 1 .. Len(q) : Append(q, f)[i] = q[i]
    BY <1>1
  <2>2. Append(q, f)[Len(q) + 1] = f
    BY <1>1
  <2>3. \A x : x \in InSeq(Append(q, f)) => x \in InSeq(q) \union {f}
    BY <1>1 DEF InSeq
  <2>4. \A x \in InSeq(q) : x \in InSeq(Append(q, f))
    BY <1>1, <2>1 DEF InSeq
  <2>5. f \in InSeq(Append(q, f))
    BY <1>1, <2>2 DEF InSeq
  <2> QED
    BY <2>3, <2>4, <2>5
<1> QED
  BY <1>3, <1>4

LEMMA Popped ==
  ASSUME NEW q \in Seq(Nat), q # <<>>, Ascends(q)
  PROVE  /\ Ascends(Tail(q)) /\ InSeq(Tail(q)) \subseteq InSeq(q)
         /\ Head(q) \in InSeq(q) /\ Older({Head(q)}, InSeq(Tail(q)))
<1>1. /\ DOMAIN q = 1 .. Len(q) /\ Len(q) \in Nat \ {0} /\ DOMAIN Tail(q) = 1 .. Len(q) - 1
      /\ \A i \in 1 .. Len(q) - 1 : Tail(q)[i] = q[i + 1] /\ i + 1 \in 1 .. Len(q) /\ 1 < i + 1
      /\ Head(q) = q[1]
  OBVIOUS
<1>2. \A i, j \in 1 .. Len(q) : i < j => q[i] < q[j]
  BY <1>1 DEF Ascends
<1>3. Ascends(Tail(q))
  BY <1>1, <1>2 DEF Ascends
<1>4. InSeq(Tail(q)) \subseteq InSeq(q) /\ Head(q) \in InSeq(q)
  BY <1>1 DEF InSeq
<1>5. Older({Head(q)}, InSeq(Tail(q)))
  BY <1>1, <1>2 DEF InSeq, Older
<1> QED
  BY <1>3, <1>4, <1>5

-----------------------------------------------------------------------------
(* From the card to the stack                                               *)

LEMMA Received ==
  ASSUME NicTypeOK
  PROVE  /\ rx \in [0 .. RxDescs - 1 -> Nat] /\ RxDescs \in Nat \ {0, 1}
         /\ rxCard \in 0 .. RxDescs - 1 /\ rxNext \in 0 .. RxDescs - 1 /\ rdt \in 0 .. RxDescs - 1
         /\ incoming \in Seq(Nat) /\ handled \in Seq(Nat) /\ numbers.rx \in Nat
         /\ InRing(rx, RxDescs) \subseteq Nat
         /\ InSeq(incoming) \subseteq Nat /\ InSeq(handled) \subseteq Nat
<1>1. /\ rx \in [RxSlots -> 0 .. MaxRx] /\ rxCard \in RxSlots /\ rxNext \in RxSlots /\ rdt \in RxSlots
      /\ incoming \in Seq(1 .. MaxRx) /\ handled \in Seq(1 .. MaxRx)
      /\ numbers \in [rx : 0 .. MaxRx, tx : 0 .. MaxTx, flips : 0 .. MaxFlips, early : 0 .. MaxRx]
  BY DEF NicTypeOK
<1>2. /\ rx \in [0 .. RxDescs - 1 -> Nat] /\ RxDescs \in Nat \ {0, 1}
      /\ rxCard \in 0 .. RxDescs - 1 /\ rxNext \in 0 .. RxDescs - 1 /\ rdt \in 0 .. RxDescs - 1
      /\ numbers.rx \in Nat
  BY <1>1, NicAssumption DEF RxSlots
<1>3. incoming \in Seq(Nat) /\ handled \in Seq(Nat)
  <2>1. \A q \in Seq(1 .. MaxRx) : q \in Seq(Nat)
    BY NicAssumption, SeqDef
  <2> QED
    BY <1>1, <2>1
<1>4. InSeq(incoming) \subseteq Nat /\ InSeq(handled) \subseteq Nat
  BY <1>3 DEF InSeq
<1> QED
  BY <1>2, <1>3, <1>4 DEF InRing

LEMMA CardReceivesKeeps ==
  ASSUME NicTypeOK, RxInv, ReceivedInv, CardReceives
  PROVE  RxInv' /\ ReceivedInv'
<1> DEFINE f == numbers.rx + 1
<1>1. /\ kind' = kind /\ rxNext' = rxNext /\ rdt' = rdt
      /\ incoming' = incoming /\ handled' = handled
      /\ rx' = [rx EXCEPT ![rxCard] = f] /\ rxCard' = Succ(rxCard, RxDescs)
      /\ numbers'.rx = f
  <2>1. rxCard' = (rxCard + 1) % RxDescs
    BY DEF CardReceives
  <2>2. (rxCard + 1) % RxDescs = Succ(rxCard, RxDescs)
    BY Received, StepRound
  <2>3. numbers'.rx = f
    BY DEF CardReceives, NicTypeOK
  <2> QED
    BY <2>1, <2>2, <2>3 DEF CardReceives, bootVars, nicThread
<1>2. rx[rxCard] = 0 /\ (kind = "e1000" => rxCard # rdt)
  BY DEF CardReceives, CardOwns, RxInv
<1>3. f \in Nat \ {0} /\ Older(InRing(rx, RxDescs), {f})
  BY Received DEF ReceivedInv, Older
<1>4. /\ Window(rx', rxNext, Succ(rxCard, RxDescs), RxDescs)
      /\ InRing(rx', RxDescs) \subseteq InRing(rx, RxDescs) \union {f}
  <2>1. Window(rx, rxNext, rxCard, RxDescs)
    BY DEF RxInv
  <2>2. /\ rxNext \in 0 .. RxDescs - 1 /\ rxCard \in 0 .. RxDescs - 1 /\ RxDescs \in Nat \ {0, 1}
        /\ rx \in [0 .. RxDescs - 1 -> Nat]
    BY Received
  <2>3. rx' = [rx EXCEPT ![rxCard] = f] /\ rx[rxCard] = 0
    BY <1>1, <1>2
  <2> HIDE DEF f
  <2>4. Window([rx EXCEPT ![rxCard] = f], rxNext, Succ(rxCard, RxDescs), RxDescs)
    BY <1>3, <2>1, <2>2, <2>3, PutIn
  <2>5. InRing([rx EXCEPT ![rxCard] = f], RxDescs) \subseteq InRing(rx, RxDescs) \union {f}
    BY <2>2 DEF InRing
  <2> QED
    BY <2>3, <2>4, <2>5, Zenon
<1>5. RxInv'
  <2>1. ASSUME kind = "e1000"
        PROVE  /\ Succ(rxCard, RxDescs) # rxNext
               /\ Ahead(Succ(rdt, RxDescs), rxNext, RxDescs)
                    <= Ahead(Succ(rdt, RxDescs), Succ(rxCard, RxDescs), RxDescs)
    <3>1. Ahead(Succ(rdt, RxDescs), rxNext, RxDescs) <= Ahead(Succ(rdt, RxDescs), rxCard, RxDescs)
      BY <2>1 DEF RxInv
    <3> QED
      BY <2>1, <3>1, <1>2, Received, FollowsRound
  <2> QED
    BY <1>1, <1>4, <2>1 DEF RxInv, Window
<1>6. ReceivedInv'
  <2>1. \A g \in InSeq(handled) \union InSeq(incoming) \union InRing(rx, RxDescs) : g < f /\ g <= f
    BY Received DEF ReceivedInv
  <2>2. Older(InSeq(handled), InRing(rx, RxDescs) \union {f})
        /\ Older(InSeq(incoming), InRing(rx, RxDescs) \union {f})
    BY <2>1 DEF ReceivedInv, Older
  <2>3. f <= f
    BY Received
  <2> HIDE DEF f
  <2> QED
    BY <1>1, <1>4, <2>1, <2>2, <2>3 DEF ReceivedInv, Older
<1> QED
  BY <1>5, <1>6

LEMMA IrqTakesKeeps ==
  ASSUME NicTypeOK, RxInv, ReceivedInv, IrqTakes
  PROVE  RxInv' /\ ReceivedInv'
<1> DEFINE f == rx[rxNext]
<1>1. /\ kind' = kind /\ rxCard' = rxCard /\ rdt' = rdt /\ handled' = handled /\ numbers' = numbers
      /\ rx' = [rx EXCEPT ![rxNext] = 0] /\ rxNext' = Succ(rxNext, RxDescs)
      /\ f # 0 /\ incoming' \in {incoming, Append(incoming, f)}
  <2>1. rxNext' = (rxNext + 1) % RxDescs
    BY DEF IrqTakes
  <2>2. (rxNext + 1) % RxDescs = Succ(rxNext, RxDescs)
    BY Received, StepRound
  <2> QED
    BY <2>1, <2>2 DEF IrqTakes, Queue, bootVars, nicThread
<1>2. rx' \in [0 .. RxDescs - 1 -> Nat]
  BY <1>1, Received
<1>3. /\ Window(rx', Succ(rxNext, RxDescs), rxCard, RxDescs)
      /\ InRing(rx', RxDescs) \subseteq InRing(rx, RxDescs)
      /\ f \in InRing(rx, RxDescs) /\ Older({f}, InRing(rx', RxDescs))
      /\ rx[rxCard] = 0 => rx'[rxCard] = 0 /\ rxNext # rxCard
  BY <1>1, <1>2, Received, TakeOut DEF RxInv
<1>4. RxInv'
  <2>1. ASSUME kind = "e1000"
        PROVE  Ahead(Succ(rdt, RxDescs), Succ(rxNext, RxDescs), RxDescs)
                 <= Ahead(Succ(rdt, RxDescs), rxCard, RxDescs)
    <3>1. /\ Ahead(Succ(rdt, RxDescs), rxNext, RxDescs) <= Ahead(Succ(rdt, RxDescs), rxCard, RxDescs)
          /\ rxNext # rxCard
      BY <2>1, <1>3 DEF RxInv
    <3> QED
      BY <3>1, Received, FollowsRound
  <2> QED
    BY <1>1, <1>3, <2>1 DEF RxInv
<1>5. f \in Nat /\ Older(InSeq(handled), {f}) /\ Older(InSeq(incoming), {f}) /\ f <= numbers.rx
  BY <1>3, Received DEF ReceivedInv, Older
<1>6. /\ Ascends(incoming') /\ InSeq(incoming') \subseteq InSeq(incoming) \union {f}
  BY <1>1, <1>5, Received, Appended DEF ReceivedInv
<1>7. ReceivedInv'
  BY <1>1, <1>3, <1>5, <1>6 DEF ReceivedInv, Older
<1> QED
  BY <1>4, <1>7

(* The handler leaves once its slot is empty: then the card has written     *)
(* nothing it has not taken.                                                *)
LEMMA IrqEndsKeeps ==
  ASSUME NicTypeOK, RxInv, ReceivedInv, IrqEnds
  PROVE  RxInv' /\ ReceivedInv'
<1>1. UNCHANGED <<kind, rx, rxCard, rxNext, incoming, handled, numbers>>
  BY DEF IrqEnds, bootVars, nicThread
<1>2. ASSUME kind = "e1000"
      PROVE  Ahead(Succ(rdt', RxDescs), rxNext, RxDescs) <= Ahead(Succ(rdt', RxDescs), rxCard, RxDescs)
  <2>1. rdt' = (rxNext + RxDescs - 1) % RxDescs
    BY <1>2 DEF IrqEnds, HandBack
  <2>2. Succ(rdt', RxDescs) = rxNext
    BY <2>1, Received, StepRound
  <2> QED
    BY <2>2, Received DEF Ahead
<1>3. RxInv'
  BY <1>1, <1>2 DEF RxInv
<1> QED
  BY <1>1, <1>3 DEF ReceivedInv

LEMMA NicReceivesKeeps ==
  ASSUME NicTypeOK, RxInv, ReceivedInv, NicReceives
  PROVE  RxInv' /\ ReceivedInv'
<1> DEFINE f == Head(incoming)
<1>1. /\ UNCHANGED <<kind, rx, rxCard, rxNext, rdt, numbers>>
      /\ incoming # <<>> /\ incoming' = Tail(incoming) /\ handled' = Append(handled, f)
  BY DEF NicReceives, bootVars
<1>2. /\ Ascends(Tail(incoming)) /\ InSeq(Tail(incoming)) \subseteq InSeq(incoming)
      /\ f \in InSeq(incoming) /\ Older({f}, InSeq(Tail(incoming)))
  BY <1>1, Received, Popped DEF ReceivedInv
<1>3. f \in Nat /\ Older(InSeq(handled), {f})
  BY <1>2, Received DEF ReceivedInv, Older
<1>4. Ascends(Append(handled, f)) /\ InSeq(Append(handled, f)) = InSeq(handled) \union {f}
  BY <1>3, Received, Appended DEF ReceivedInv
<1>5. ReceivedInv'
  BY <1>1, <1>2, <1>4 DEF ReceivedInv, Older
<1> QED
  BY <1>1, <1>5 DEF RxInv

(* Whatever leaves the descriptors, the ring and the stack alone.           *)
LEMMA ReceivedQuiet ==
  ASSUME RxInv, ReceivedInv, UNCHANGED <<kind, rx, rxCard, rxNext, rdt, incoming, handled, numbers.rx>>
  PROVE  RxInv' /\ ReceivedInv'
BY DEF RxInv, ReceivedInv

LEMMA NextReceived ==
  ASSUME NicTypeOK, RxInv, ReceivedInv, [NicNext]_nicVars
  PROVE  RxInv' /\ ReceivedInv'
<1> DEFINE Alone == UNCHANGED <<kind, rx, rxCard, rxNext, rdt, incoming, handled, numbers.rx>>
<1>1. CASE Boot
  <2>1. Unmasks => Alone
    BY DEF Unmasks, nicThread, NicTypeOK
  <2>2. SetsUpRings \/ GivesUp \/ Hooks \/ ReadsLink \/ Registers => Alone
    BY DEF SetsUpRings, GivesUp, Hooks, ReadsLink, Registers, rxVars, nicThread
  <2> QED
    BY <1>1, <2>1, <2>2, ReceivedQuiet DEF Boot
<1>2. CASE Card
  <2>1. CardTransmits => Alone
    BY DEF CardTransmits, bootVars, rxVars, nicThread
  <2>2. CableFlips => Alone
    BY DEF CableFlips, bootVars, nicThread, NicTypeOK
  <2> QED
    BY <1>2, <2>1, <2>2, CardReceivesKeeps, ReceivedQuiet DEF Card
<1>3. CASE Irq
  <2>1. IrqEnters => Alone
    BY DEF IrqEnters, bootVars, nicThread
  <2> QED
    BY <1>3, <2>1, IrqTakesKeeps, IrqEndsKeeps, ReceivedQuiet DEF Irq
<1>4. CASE Sends
  <2>1. \A p \in Threads : ThreadSends(p) => Alone
    BY DEF ThreadSends, Dispatch, bootVars, rxVars, nicThread, NicTypeOK
  <2>2. \A p \in Threads : ThreadAdvances(p) => Alone
    BY DEF ThreadAdvances, bootVars, rxVars, nicThread
  <2> QED
    BY <1>4, <2>1, <2>2, ReceivedQuiet DEF Sends
<1>5. CASE NicThread
  <2>1. NicAnswers => Alone
    BY DEF NicAnswers, Dispatch, bootVars, rxVars, NicTypeOK
  <2>2. NicSends \/ NicYields \/ NicAdvances \/ NicIsDone \/ E1000Sends \/ RtlSends \/ RtlMovesOn => Alone
    BY DEF NicSends, NicYields, NicAdvances, NicIsDone, E1000Sends, RtlSends, RtlMovesOn,
           bootVars, rxVars, nicThread
  <2> QED
    BY <1>5, <2>1, <2>2, NicReceivesKeeps, ReceivedQuiet DEF NicThread
<1>6. CASE UNCHANGED nicVars
  BY <1>6, ReceivedQuiet DEF nicVars, bootVars, rxVars, nicThread
<1> QED
  BY <1>1, <1>2, <1>3, <1>4, <1>5, <1>6 DEF NicNext

-----------------------------------------------------------------------------
(* From the threads to the wire                                             *)

LEMMA DispatchIndexes ==
  ASSUME NicTypeOK
  PROVE  /\ txCard \in 0 .. TxDescs - 1 /\ TxDescs \in Nat
         /\ outTail \in 0 .. RingSize - 1 /\ outHead \in 0 .. RingSize - 1 /\ RingSize \in Nat
         /\ numbers.tx \in Nat
BY NicAssumption DEF NicTypeOK, TxSlots, RingSlots

LEMMA Dispatched ==
  ASSUME NicTypeOK
  PROVE  /\ tx \in [0 .. TxDescs - 1 -> Nat] /\ TxDescs \in Nat \ {0, 1}
         /\ txCard \in 0 .. TxDescs - 1 /\ txNext \in 0 .. TxDescs - 1 /\ TxHead \in 0 .. TxDescs - 1
         /\ outBuf \in [0 .. RingSize - 1 -> Nat] /\ RingSize \in Nat \ {0, 1}
         /\ outTail \in 0 .. RingSize - 1 /\ outHead \in 0 .. RingSize - 1
         /\ Outgoing \in [0 .. RingSize - 1 -> Nat] /\ Outgoing[outHead] = 0
         /\ wire \in Seq(Nat) /\ numbers.tx \in Nat /\ nic.frame \in Nat
         /\ InSeq(wire) \subseteq Nat
         /\ InRing(tx, TxDescs) \subseteq Nat /\ InRing(Outgoing, RingSize) \subseteq Nat
         /\ InHand \subseteq Nat
<1>1. /\ outBuf \in [RingSlots -> 0 .. MaxTx] /\ outHead \in RingSlots /\ outTail \in RingSlots
      /\ tx \in [TxSlots -> 0 .. MaxTx] /\ txCard \in TxSlots /\ txNext \in TxSlots
      /\ wire \in Seq(1 .. MaxTx) /\ nic.frame \in Nat
      /\ numbers \in [rx : 0 .. MaxRx, tx : 0 .. MaxTx, flips : 0 .. MaxFlips, early : 0 .. MaxRx]
  BY DEF NicTypeOK
<1>2. /\ tx \in [0 .. TxDescs - 1 -> Nat] /\ TxDescs \in Nat \ {0, 1}
      /\ txCard \in 0 .. TxDescs - 1 /\ txNext \in 0 .. TxDescs - 1
      /\ outBuf \in [0 .. RingSize - 1 -> Nat] /\ RingSize \in Nat \ {0, 1}
      /\ outTail \in 0 .. RingSize - 1 /\ outHead \in 0 .. RingSize - 1
      /\ numbers.tx \in Nat /\ nic.frame \in Nat
  BY <1>1, NicAssumption DEF TxSlots, RingSlots
<1>3. TxHead \in 0 .. TxDescs - 1
  BY <1>2 DEF TxHead, Succ
<1>4. Outgoing \in [0 .. RingSize - 1 -> Nat] /\ Outgoing[outHead] = 0
  BY <1>2 DEF Outgoing, RingSlots, Ahead
<1>5. wire \in Seq(Nat)
  <2>1. \A q \in Seq(1 .. MaxTx) : q \in Seq(Nat)
    BY NicAssumption, SeqMonotonic
  <2> QED
    BY <1>1, <2>1
<1>6. InSeq(wire) \subseteq Nat
  BY <1>5 DEF InSeq
<1>7. InRing(tx, TxDescs) \subseteq Nat /\ InRing(Outgoing, RingSize) \subseteq Nat
  BY <1>2, <1>4 DEF InRing
<1>8. InHand \subseteq Nat
  BY <1>2 DEF InHand
<1> QED
  BY <1>2, <1>3, <1>4, <1>5, <1>6, <1>7, <1>8

OrderInv == TxInv /\ OutInv /\ DispatchedInv

LEMMA DispatchedFrames ==
  ASSUME NicTypeOK
  PROVE  InSeq(wire) \union InRing(tx, TxDescs) \union InHand \union InRing(Outgoing, RingSize) \subseteq Nat
BY Dispatched

(* Whatever leaves the rings and the card alone.                            *)
LEMMA DispatchedQuiet ==
  ASSUME OrderInv, UNCHANGED <<kind, outBuf, outHead, outTail, producer, tx, txCard, wire, numbers.tx>>,
         TxHead' = TxHead, InHand' = InHand,
         kind = "e1000" => UNCHANGED txNext /\ nic'.pc # "sent"
  PROVE  OrderInv'
<1>1. Outgoing' = Outgoing
  BY DEF Outgoing
<1>2. TxInv'
  BY DEF OrderInv, TxInv
<1>3. OutInv'
  BY <1>1 DEF OrderInv, OutInv, Storing
<1>4. DispatchedInv'
  BY <1>1 DEF OrderInv, DispatchedInv, Storing
<1> QED
  BY <1>2, <1>3, <1>4 DEF OrderInv

LEMMA CardTransmitsKeeps ==
  ASSUME NicTypeOK, OrderInv, CardTransmits
  PROVE  OrderInv' /\ tx[txCard] # 0
<1> DEFINE f == tx[txCard]
<1>1. /\ kind' = kind /\ nic' = nic /\ txNext' = txNext /\ numbers' = numbers
      /\ outBuf' = outBuf /\ outHead' = outHead /\ outTail' = outTail /\ producer' = producer
      /\ tx' = [tx EXCEPT ![txCard] = 0] /\ txCard' = Succ(txCard, TxDescs)
      /\ wire' = Append(wire, f)
  <2>1. txCard' = (txCard + 1) % TxDescs
    BY DEF CardTransmits
  <2>2. (txCard + 1) % TxDescs = Succ(txCard, TxDescs)
    BY Dispatched, StepRound
  <2> QED
    BY <2>1, <2>2 DEF CardTransmits, bootVars, outVars, nicThread
<1>2. f # 0
  <2>1. CASE kind = "e1000"
    <3>1. tx[TxHead] = 0 /\ TxHead # txCard
      BY <2>1 DEF OrderInv, TxInv, TxHead, CardTransmits
    <3>2. TxHead \in 0 .. TxDescs - 1
      BY Dispatched
    <3>3. Ahead(txCard, txCard, TxDescs) < Ahead(txCard, TxHead, TxDescs)
      BY ONLY <3>1, <3>2, DispatchIndexes, NicTypeOK DEF Ahead
    <3> QED
      BY <3>1, <3>3, Dispatched DEF OrderInv, TxInv, Window
  <2>2. CASE kind # "e1000"
    BY <2>2 DEF CardTransmits
  <2> QED
    BY <2>1, <2>2
<1>3. /\ Window(tx', Succ(txCard, TxDescs), TxHead, TxDescs)
      /\ InRing(tx', TxDescs) \subseteq InRing(tx, TxDescs)
      /\ f \in InRing(tx, TxDescs) /\ Older({f}, InRing(tx', TxDescs))
      /\ tx[TxHead] = 0 => tx'[TxHead] = 0
  BY <1>1, <1>2, Dispatched, TakeOut DEF OrderInv, TxInv
<1>4. TxHead' = TxHead /\ InHand' = InHand /\ Outgoing' = Outgoing
  BY <1>1 DEF TxHead, InHand, Outgoing
<1>5. TxInv'
  BY <1>1, <1>3, <1>4 DEF OrderInv, TxInv, TxHead
<1>6. OutInv'
  BY <1>1, <1>4 DEF OrderInv, OutInv, Storing
<1>7. f \in Nat /\ Older(InSeq(wire), {f})
  BY <1>3, Dispatched DEF OrderInv, DispatchedInv, Older
<1>8. Ascends(Append(wire, f)) /\ InSeq(Append(wire, f)) = InSeq(wire) \union {f}
  BY <1>7, Dispatched, Appended DEF OrderInv, DispatchedInv
<1>9. DispatchedInv'
  <2>1. \A p \in Producers : Storing(p)' <=> Storing(p)
    BY <1>1 DEF Storing
  <2> QED
    BY <1>1, <1>3, <1>4, <1>8, <2>1 DEF OrderInv, DispatchedInv, Older
<1> QED
  BY <1>2, <1>5, <1>6, <1>9 DEF OrderInv

(* A frame is written behind the head: the window is as it was, and nobody  *)
(* else stores one until the head has moved.                                *)
LEMMA DispatchKeeps ==
  ASSUME OneSender, NicTypeOK, OrderInv, NEW p \in Producers, Dispatch(p),
         UNCHANGED <<kind, tx, txCard, txNext, wire>>, TxHead' = TxHead, InHand' = InHand,
         nic'.pc = "sent" => nic.pc = "sent"
  PROVE  OrderInv'
<1> DEFINE f == numbers.tx + 1
<1>1. /\ outHead' = outHead /\ outTail' = outTail /\ numbers'.tx = f
      /\ \A q \in Producers : ~Storing(q)
      /\ producer \in [Producers -> [pc : {"idle", "stored"}, frame : 0 .. MaxTx, next : RingSlots]]
  BY DEF Dispatch, MaySend, Storing, NicTypeOK
<1>2. Outgoing' = Outgoing
  <2>1. CASE Full
    BY <2>1, <1>1 DEF Dispatch, Outgoing
  <2>2. CASE ~Full
    <3>1. outBuf' = [outBuf EXCEPT ![outHead] = f]
      BY <2>2 DEF Dispatch
    <3>2. \A s \in RingSlots : outBuf'[s] = IF s = outHead THEN f ELSE outBuf[s]
      BY <3>1, Dispatched DEF RingSlots
    <3>3. ~(Ahead(outTail, outHead, RingSize) < Ahead(outTail, outHead, RingSize))
      BY DispatchIndexes DEF Ahead
    <3> QED
      BY <1>1, <3>2, <3>3 DEF Outgoing
  <2> QED
    BY <2>1, <2>2
<1>3. TxInv'
  BY DEF OrderInv, TxInv
<1>4. \A q \in Producers :
        Storing(q)' => /\ q = p /\ producer'[q].next = Succ(outHead, RingSize)
                       /\ Succ(outHead, RingSize) # outTail /\ outBuf'[outHead] = f
  <2> SUFFICES ASSUME NEW q \in Producers, Storing(q)'
               PROVE  /\ q = p /\ producer'[q].next = Succ(outHead, RingSize)
                      /\ Succ(outHead, RingSize) # outTail /\ outBuf'[outHead] = f
    OBVIOUS
  <2>1. ~Full
    BY <1>1 DEF Dispatch, Storing
  <2>2. /\ outBuf' = [outBuf EXCEPT ![outHead] = f]
        /\ producer' = [producer EXCEPT ![p] = [pc |-> "stored", frame |-> f,
                                                next |-> (outHead + 1) % RingSize]]
    BY <2>1 DEF Dispatch
  <2>3. q = p
    BY <2>2, <1>1 DEF Storing
  <2>4. producer'[q].next = (outHead + 1) % RingSize
    BY <2>2, <2>3, <1>1
  <2>5. (outHead + 1) % RingSize = Succ(outHead, RingSize)
    BY Dispatched, StepRound
  <2>6. outBuf'[outHead] = f
    BY <2>2, Dispatched
  <2> QED
    BY <2>1, <2>3, <2>4, <2>5, <2>6 DEF Full
<1>5. OutInv'
  <2>1. f > 0
    BY DispatchIndexes
  <2> HIDE DEF f
  <2> QED
    BY <1>1, <1>2, <1>4, <2>1 DEF OrderInv, OutInv
<1>6. DispatchedInv'
  <2>1. \A g \in InSeq(wire) \union InRing(tx, TxDescs) \union InHand \union InRing(Outgoing, RingSize) :
          g \in Nat /\ 0 < g /\ g <= numbers.tx
    BY Dispatched DEF OrderInv, DispatchedInv
  <2>2. numbers.tx \in Nat
    BY Dispatched
  <2>3. \A g \in InSeq(wire) \union InRing(tx, TxDescs) \union InHand \union InRing(Outgoing, RingSize) :
          0 < g /\ g <= f /\ g < f
    BY <2>1, <2>2
  <2> HIDE DEF f
  <2> QED
    BY <1>1, <1>2, <2>3 DEF OrderInv, DispatchedInv, Older
<1> QED
  BY <1>3, <1>5, <1>6 DEF OrderInv

(* The head moves on: the stored frame joins the window.                    *)
LEMMA AdvanceHeadKeeps ==
  ASSUME NicTypeOK, OrderInv, NEW p \in Producers, AdvanceHead(p),
         UNCHANGED <<kind, tx, txCard, txNext, wire, nic, numbers>>
  PROVE  OrderInv'
<1> DEFINE f == numbers.tx
<1>1. /\ outBuf' = outBuf /\ outTail' = outTail
      /\ outHead' = Succ(outHead, RingSize) /\ Succ(outHead, RingSize) # outTail
      /\ outBuf[outHead] = f /\ f > 0 /\ Storing(p)
      /\ \A q \in Producers : Storing(q) => q = p
  BY DEF AdvanceHead, OrderInv, OutInv, Storing
<1>2. \A q \in Producers : ~Storing(q)'
  <2>1. producer' = [producer EXCEPT ![p].pc = "idle"]
    BY DEF AdvanceHead
  <2>2. producer \in [Producers -> [pc : {"idle", "stored"}, frame : 0 .. MaxTx, next : RingSlots]]
    BY DEF NicTypeOK
  <2> QED
    BY <1>1, <2>1, <2>2 DEF Storing
<1>3. Outgoing' = [Outgoing EXCEPT ![outHead] = f]
  <2>1. \A s \in 0 .. RingSize - 1 :
          Ahead(outTail, s, RingSize) < Ahead(outTail, Succ(outHead, RingSize), RingSize)
            <=> s = outHead \/ Ahead(outTail, s, RingSize) < Ahead(outTail, outHead, RingSize)
    BY <1>1, Dispatched, WindowGrows
  <2> QED
    BY <1>1, <2>1 DEF Outgoing, RingSlots
<1>4. \A g \in InSeq(wire) \union InRing(tx, TxDescs) \union InHand \union InRing(Outgoing, RingSize) :
        0 < g /\ g < f
  BY <1>1 DEF OrderInv, DispatchedInv
<1>5. f \in Nat \ {0} /\ Older(InRing(Outgoing, RingSize), {f})
  BY <1>1, <1>4, Dispatched DEF Older
<1>6. TxHead' = TxHead /\ InHand' = InHand
  BY DEF TxHead, InHand
<1>7. TxInv'
  BY <1>6 DEF OrderInv, TxInv
<1> HIDE DEF f
<1>8. Window([Outgoing EXCEPT ![outHead] = f], outTail, Succ(outHead, RingSize), RingSize)
  <2>1. Window(Outgoing, outTail, outHead, RingSize)
    BY DEF OrderInv, OutInv
  <2> QED
    BY <1>5, <2>1, Dispatched, PutIn
<1>9. OutInv'
  BY <1>1, <1>2, <1>3, <1>8 DEF OutInv
<1>10. InRing(Outgoing', RingSize) \subseteq InRing(Outgoing, RingSize) \union {f}
  BY <1>3, Dispatched DEF InRing
<1>11. DispatchedInv'
  <2>1. \A g \in InSeq(wire) \union InRing(tx, TxDescs) \union InHand \union InRing(Outgoing, RingSize) \union {f} :
          0 < g /\ g <= f
    BY <1>4, <1>5, DispatchedFrames
  <2>2. numbers'.tx = f
    BY DEF f
  <2> QED
    BY <1>2, <1>4, <1>6, <1>10, <2>1, <2>2 DEF OrderInv, DispatchedInv, Older
<1> QED
  BY <1>7, <1>9, <1>11 DEF OrderInv

(* The nic thread takes a frame over.                                       *)
LEMMA NicSendsKeeps ==
  ASSUME NicTypeOK, OrderInv, NicSends
  PROVE  OrderInv'
<1> DEFINE f == outBuf[outTail]
<1>1. /\ UNCHANGED <<kind, tx, txCard, txNext, wire, outBuf, outHead, producer, numbers>>
      /\ nic.pc = "poll" /\ nic' = [pc |-> "send", frame |-> f]
      /\ outHead # outTail /\ outTail' = Succ(outTail, RingSize)
  <2>1. outTail' = (outTail + 1) % RingSize
    BY DEF NicSends
  <2>2. (outTail + 1) % RingSize = Succ(outTail, RingSize)
    BY Dispatched, StepRound
  <2> QED
    BY <2>1, <2>2 DEF NicSends, NicAt, NicGoto, bootVars, txVars
<1>2. /\ Ahead(outTail, outTail, RingSize) < Ahead(outTail, outHead, RingSize)
      /\ Succ(outHead, RingSize) # Succ(outTail, RingSize)
      /\ \A s \in 0 .. RingSize - 1 :
           Ahead(Succ(outTail, RingSize), s, RingSize) < Ahead(Succ(outTail, RingSize), outHead, RingSize)
             <=> s # outTail /\ Ahead(outTail, s, RingSize) < Ahead(outTail, outHead, RingSize)
  BY <1>1, Dispatched, WindowShrinks
<1>3. Outgoing[outTail] = f /\ f # 0
  BY <1>2, Dispatched DEF Outgoing, RingSlots, OrderInv, OutInv, Window
<1>4. Outgoing' = [Outgoing EXCEPT ![outTail] = 0]
  BY <1>1, <1>2 DEF Outgoing, RingSlots
<1>5. /\ Window(Outgoing', Succ(outTail, RingSize), outHead, RingSize)
      /\ InRing(Outgoing', RingSize) \subseteq InRing(Outgoing, RingSize)
      /\ f \in InRing(Outgoing, RingSize) /\ Older({f}, InRing(Outgoing', RingSize))
  BY <1>3, <1>4, Dispatched, TakeOut DEF OrderInv, OutInv
<1>6. TxHead' = TxHead /\ InHand = {} /\ InHand' = {f}
  BY <1>1 DEF TxHead, InHand
<1>7. TxInv'
  BY <1>1, <1>6 DEF OrderInv, TxInv
<1>8. \A p \in Producers : Storing(p)' <=> Storing(p)
  BY <1>1 DEF Storing
<1>9. OutInv'
  BY <1>1, <1>2, <1>5, <1>8 DEF OrderInv, OutInv
<1>10. DispatchedInv'
  BY <1>1, <1>5, <1>6, <1>8 DEF OrderInv, DispatchedInv, Older
<1> QED
  BY <1>7, <1>9, <1>10 DEF OrderInv

(* The frame in hand goes into the next descriptor, or is dropped.          *)
LEMMA SendsKeeps ==
  ASSUME NicTypeOK, OrderInv, E1000Sends \/ RtlSends
  PROVE  OrderInv'
<1> DEFINE f == nic.frame
<1>1. /\ UNCHANGED <<kind, outBuf, outHead, outTail, producer, txCard, wire, numbers>>
      /\ nic.pc = "send" /\ TxHead = txNext /\ InHand = {f}
  BY DEF E1000Sends, RtlSends, NicAt, bootVars, outVars, TxHead, InHand
<1>2. InHand' = {} /\ Outgoing' = Outgoing /\ \A p \in Producers : Storing(p)' <=> Storing(p)
  BY <1>1 DEF E1000Sends, RtlSends, NicGoto, InHand, Outgoing, Storing
<1>3. CASE TxFull
  <2>1. tx' = tx /\ txNext' = txNext /\ nic'.pc = "poll"
    BY <1>1, <1>3 DEF E1000Sends, RtlSends, NicGoto
  <2>2. TxHead' = TxHead
    BY <1>1, <2>1 DEF TxHead
  <2>3. TxInv'
    BY <1>1, <2>1, <2>2 DEF OrderInv, TxInv
  <2>4. OutInv'
    BY <1>1, <1>2 DEF OrderInv, OutInv
  <2>5. DispatchedInv'
    BY <1>1, <1>2, <2>1 DEF OrderInv, DispatchedInv, Older
  <2> QED
    BY <2>3, <2>4, <2>5 DEF OrderInv
<1>4. CASE ~TxFull
  <2>1. NextTx = Succ(txNext, TxDescs)
    BY Dispatched, StepRound DEF NextTx
  <2>2. /\ tx' = [tx EXCEPT ![txNext] = f] /\ tx[txNext] = 0
        /\ TxHead' = Succ(txNext, TxDescs)
        /\ kind = "e1000" => /\ txNext' = Succ(txNext, TxDescs) /\ nic'.pc # "sent"
                             /\ Succ(txNext, TxDescs) # txCard
    BY <1>1, <1>4, <2>1 DEF E1000Sends, RtlSends, NicGoto, TxFull, TxHead, OrderInv, TxInv
  <2>3. f \in Nat \ {0} /\ Older(InRing(tx, TxDescs), {f})
    BY <1>1, Dispatched DEF OrderInv, DispatchedInv
  <2>4. /\ Window(tx, txCard, txNext, TxDescs) /\ tx[txNext] = 0
        /\ tx \in [0 .. TxDescs - 1 -> Nat] /\ TxDescs \in Nat \ {0, 1}
        /\ txCard \in 0 .. TxDescs - 1 /\ txNext \in 0 .. TxDescs - 1
    BY <1>1, <2>2, Dispatched DEF OrderInv, TxInv
  <2> HIDE DEF f
  <2>5. Window([tx EXCEPT ![txNext] = f], txCard, Succ(txNext, TxDescs), TxDescs)
    BY <2>3, <2>4, PutIn
  <2>6. InRing([tx EXCEPT ![txNext] = f], TxDescs) \subseteq InRing(tx, TxDescs) \union {f}
    BY Dispatched DEF InRing
  <2>7. TxInv'
    BY <1>1, <2>2, <2>5 DEF TxInv, Window
  <2>8. OutInv'
    BY <1>1, <1>2 DEF OrderInv, OutInv
  <2>9. DispatchedInv'
    <3>1. InRing(tx', TxDescs) \subseteq InRing(tx, TxDescs) \union InHand
      BY <1>1, <2>2, <2>6, Zenon
    <3> QED
      BY <1>1, <1>2, <3>1 DEF OrderInv, DispatchedInv, Older
  <2> QED
    BY <2>7, <2>8, <2>9 DEF OrderInv
<1> QED
  BY <1>3, <1>4

LEMMA NextOrder ==
  ASSUME OneSender, NicTypeOK, OrderInv, [NicNext]_nicVars
  PROVE  OrderInv'
<1> DEFINE Rest == UNCHANGED <<kind, outBuf, outHead, outTail, producer, tx, txCard, wire, numbers.tx>>
           Still == Rest /\ UNCHANGED <<txNext, nic>>
<1>1. ASSUME Still PROVE OrderInv'
  <2>1. TxHead' = TxHead /\ InHand' = InHand
    BY <1>1 DEF TxHead, InHand
  <2>2. kind = "e1000" => UNCHANGED txNext /\ nic'.pc # "sent"
    BY <1>1 DEF OrderInv, TxInv
  <2> QED
    BY <1>1, <2>1, <2>2, DispatchedQuiet
<1>2. CASE Boot
  <2>1. Unmasks => Still
    BY DEF Unmasks, outVars, txVars, nicThread, NicTypeOK
  <2>2. SetsUpRings \/ GivesUp \/ Hooks \/ ReadsLink \/ Registers => Still
    BY DEF SetsUpRings, GivesUp, Hooks, ReadsLink, Registers, outVars, txVars, nicThread
  <2> QED
    BY <1>1, <1>2, <2>1, <2>2 DEF Boot
<1>3. CASE Card
  <2>1. CardReceives \/ CableFlips => Still
    BY DEF CardReceives, CableFlips, bootVars, outVars, txVars, nicThread, NicTypeOK
  <2> QED
    BY <1>1, <1>3, <2>1, CardTransmitsKeeps DEF Card
<1>4. CASE Irq
  <2>1. Still
    BY <1>4 DEF Irq, IrqEnters, IrqTakes, IrqEnds, bootVars, outVars, txVars, nicThread
  <2> QED
    BY <1>1, <2>1
<1>5. CASE Sends
  <2>1. PICK p \in Threads : ThreadSends(p) \/ ThreadAdvances(p)
    BY <1>5 DEF Sends
  <2>2. p \in Producers /\ UNCHANGED <<kind, tx, txCard, txNext, wire, nic>>
    BY <2>1 DEF Producers, ThreadSends, ThreadAdvances, bootVars, txVars, nicThread
  <2>3. TxHead' = TxHead /\ InHand' = InHand
    BY <2>2 DEF TxHead, InHand
  <2>4. CASE ThreadSends(p)
    BY <2>2, <2>3, <2>4, DispatchKeeps DEF ThreadSends
  <2>5. CASE ThreadAdvances(p)
    BY <2>2, <2>5, AdvanceHeadKeeps DEF ThreadAdvances
  <2> QED
    BY <2>1, <2>4, <2>5
<1>6. CASE NicThread
  <2>1. CASE NicReceives \/ NicYields \/ NicIsDone
    <3>1. Rest /\ txNext' = txNext /\ {nic.pc, nic'.pc} \subseteq {"poll", "receive", "answer", "halted"}
      BY <2>1 DEF NicReceives, NicYields, NicIsDone, NicAt, NicGoto, bootVars, outVars, txVars
    <3>2. TxHead' = TxHead /\ InHand' = InHand
      BY <3>1 DEF TxHead, InHand
    <3> QED
      BY <3>1, <3>2, DispatchedQuiet
  <2>2. CASE NicSends
    BY <2>2, NicSendsKeeps
  <2>3. CASE NicAnswers
    <3>1. /\ "nic" \in Producers /\ Dispatch("nic") /\ UNCHANGED <<kind, tx, txCard, txNext, wire>>
          /\ nic.pc = "receive" /\ nic'.pc = "answer"
      BY <2>3 DEF NicAnswers, NicAt, NicGoto, Producers, bootVars, txVars
    <3>2. TxHead' = TxHead /\ InHand' = InHand /\ (nic'.pc = "sent" => nic.pc = "sent")
      BY <3>1 DEF TxHead, InHand
    <3> QED
      BY <3>1, <3>2, DispatchKeeps
  <2>4. CASE NicAdvances
    <3>1. /\ "nic" \in Producers /\ AdvanceHead("nic")
          /\ UNCHANGED <<kind, tx, txCard, txNext, wire, nic, numbers>>
      BY <2>4 DEF NicAdvances, Producers, bootVars, txVars, nicThread
    <3> QED
      BY <3>1, AdvanceHeadKeeps
  <2>5. CASE E1000Sends \/ RtlSends
    BY <2>5, SendsKeeps
  <2>6. CASE RtlMovesOn
    <3>1. Rest /\ nic.pc = "sent" /\ nic'.pc = "poll" /\ txNext' = NextTx
      BY <2>6 DEF RtlMovesOn, NicAt, NicGoto, bootVars, outVars
    <3>2. NextTx = Succ(txNext, TxDescs)
      BY Dispatched, StepRound DEF NextTx
    <3>3. TxHead' = TxHead /\ InHand' = InHand /\ kind # "e1000"
      BY <3>1, <3>2 DEF TxHead, InHand, OrderInv, TxInv
    <3> QED
      BY <3>1, <3>3, DispatchedQuiet
  <2> QED
    BY <1>6, <2>1, <2>2, <2>3, <2>4, <2>5, <2>6 DEF NicThread
<1>7. CASE UNCHANGED nicVars
  BY <1>1, <1>7 DEF nicVars, bootVars, outVars, txVars, nicThread
<1> QED
  BY <1>2, <1>3, <1>4, <1>5, <1>6, <1>7 DEF NicNext

-----------------------------------------------------------------------------
(* Types                                                                    *)

LEMMA InitInv == NicInit => NicTypeOK /\ RxInv /\ ReceivedInv /\ OrderInv
<1> SUFFICES ASSUME NicInit PROVE NicTypeOK /\ RxInv /\ ReceivedInv /\ OrderInv
  OBVIOUS
<1>1. NicTypeOK
  <2>1. /\ 0 \in RxSlots /\ RxDescs - 1 \in RxSlots /\ 0 \in TxSlots /\ 0 \in RingSlots
        /\ 0 \in 0 .. MaxRx /\ 0 \in 0 .. MaxTx /\ 0 \in 0 .. MaxFlips /\ 0 < RingSize
    BY NicAssumption DEF RxSlots, TxSlots, RingSlots
  <2>2. /\ <<>> \in Seq(1 .. MaxRx) /\ <<>> \in Seq(1 .. MaxTx) /\ Len(<<>>) = 0
    OBVIOUS
  <2> QED
    BY <2>1, <2>2 DEF NicInit, NicTypeOK
<1>2. /\ \A s \in 0 .. RxDescs - 1 : rx[s] = 0
      /\ \A s \in 0 .. TxDescs - 1 : tx[s] = 0
      /\ \A s \in 0 .. RingSize - 1 : Outgoing[s] = 0
  BY DEF NicInit, RxSlots, TxSlots, RingSlots, Outgoing
<1>3. /\ InRing(rx, RxDescs) = {} /\ InRing(tx, TxDescs) = {} /\ InRing(Outgoing, RingSize) = {}
      /\ InSeq(handled) = {} /\ InSeq(incoming) = {} /\ InSeq(wire) = {} /\ InHand = {}
  <2>1. InRing(rx, RxDescs) = {} /\ InRing(tx, TxDescs) = {} /\ InRing(Outgoing, RingSize) = {}
    BY <1>2 DEF InRing
  <2>2. handled = <<>> /\ incoming = <<>> /\ wire = <<>> /\ nic.pc = "poll"
    BY DEF NicInit
  <2>3. DOMAIN <<>> = {}
    OBVIOUS
  <2> QED
    BY <2>1, <2>2, <2>3 DEF InSeq, InHand
<1>4. RxInv
  <2>1. rxNext = 0 /\ rxCard = 0 /\ rdt = RxDescs - 1 /\ 0 \in 0 .. RxDescs - 1
    BY NicAssumption DEF NicInit
  <2> QED
    BY <1>2, <2>1, NicAssumption DEF RxInv, Window, Ahead, Succ
<1>5. TxInv
  <2>1. TxHead = 0 /\ txCard = 0 /\ txNext = 0 /\ 0 \in 0 .. TxDescs - 1 /\ nic.pc # "sent"
    BY NicAssumption DEF NicInit, TxHead
  <2> QED
    BY <1>2, <2>1, NicAssumption DEF TxInv, Window, Ahead
<1>6. OutInv
  <2>1. outHead = 0 /\ outTail = 0 /\ 0 \in 0 .. RingSize - 1 /\ \A p \in Producers : ~Storing(p)
    BY NicAssumption DEF NicInit, Storing
  <2> QED
    BY <1>2, <2>1, NicAssumption DEF OutInv, Window, Ahead
<1>7. ReceivedInv /\ DispatchedInv
  <2>1. Ascends(handled) /\ Ascends(incoming) /\ Ascends(wire)
    BY DEF Ascends, NicInit
  <2> QED
    BY <1>3, <2>1 DEF ReceivedInv, DispatchedInv, Older
<1> QED
  BY <1>1, <1>4, <1>5, <1>6, <1>7 DEF OrderInv

LEMMA StepsStayInside ==
  /\ \A s \in RxSlots : (s + 1) % RxDescs \in RxSlots /\ (s + RxDescs - 1) % RxDescs \in RxSlots
  /\ \A s \in TxSlots : (s + 1) % TxDescs \in TxSlots
  /\ \A s \in RingSlots : (s + 1) % RingSize \in RingSlots
<1>1. RxDescs \in Nat \ {0, 1} /\ TxDescs \in Nat \ {0, 1} /\ RingSize \in Nat \ {0, 1}
  BY NicAssumption
<1>2. \A n \in Nat \ {0, 1} : \A s \in 0 .. n - 1 :
        (s + 1) % n \in 0 .. n - 1 /\ (s + n - 1) % n \in 0 .. n - 1
  BY StepRound
<1> QED
  BY <1>1, <1>2 DEF RxSlots, TxSlots, RingSlots

(* One more of something that has not reached its bound.                    *)
LEMMA OneMore ==
  ASSUME NicTypeOK
  PROVE  /\ numbers.rx < MaxRx => numbers.rx + 1 \in 0 .. MaxRx
         /\ numbers.tx < MaxTx => numbers.tx + 1 \in 0 .. MaxTx
         /\ numbers.flips < MaxFlips => numbers.flips + 1 \in 0 .. MaxFlips
<1>1. numbers \in [rx : 0 .. MaxRx, tx : 0 .. MaxTx, flips : 0 .. MaxFlips, early : 0 .. MaxRx]
  BY DEF NicTypeOK
<1> QED
  BY <1>1, NicAssumption

(* The types, a group of variables at a time.                               *)
NumbersOK == numbers \in [rx : 0 .. MaxRx, tx : 0 .. MaxTx, flips : 0 .. MaxFlips, early : 0 .. MaxRx]
LinkOK == link \in [cable : {"up", "down"}, seen : {"up", "down"}, read : {"up", "down"}]

BootOK ==
  /\ kind \in {"e1000", "rtl8168"}
  /\ boot \in {"probing", "rings", "unmasked", "hooked", "read", "registered", "failed"}

RxOK ==
  /\ rx \in [RxSlots -> 0 .. MaxRx] /\ rxCard \in RxSlots /\ rxNext \in RxSlots /\ rdt \in RxSlots
  /\ cause \subseteq {"rx", "link"} /\ isr \in {"idle", "drain"}
  /\ incoming \in Seq(1 .. MaxRx) /\ Len(incoming) < RingSize /\ orphans \subseteq 1 .. MaxRx

OutOK ==
  /\ outBuf \in [RingSlots -> 0 .. MaxTx] /\ outHead \in RingSlots /\ outTail \in RingSlots
  /\ producer \in [Producers -> [pc : {"idle", "stored"}, frame : 0 .. MaxTx, next : RingSlots]]

TxOK ==
  /\ tx \in [TxSlots -> 0 .. MaxTx] /\ txCard \in TxSlots /\ txNext \in TxSlots
  /\ wire \in Seq(1 .. MaxTx)

HandOK ==
  /\ nic.pc \in {"poll", "receive", "answer", "send", "sent", "halted"} /\ nic.frame \in Nat
  /\ selector \in {0, 1} /\ handled \in Seq(1 .. MaxRx)

LEMMA TypeParts ==
  NicTypeOK <=> BootOK /\ RxOK /\ OutOK /\ TxOK /\ HandOK /\ LinkOK /\ NumbersOK
BY DEF NicTypeOK, BootOK, RxOK, OutOK, TxOK, HandOK, LinkOK, NumbersOK

LEMMA TypePartsNext ==
  NicTypeOK' <=> BootOK' /\ RxOK' /\ OutOK' /\ TxOK' /\ HandOK' /\ LinkOK' /\ NumbersOK'
BY DEF NicTypeOK, BootOK, RxOK, OutOK, TxOK, HandOK, LinkOK, NumbersOK

LEMMA PartsStay ==
  ASSUME NicTypeOK
  PROVE  /\ UNCHANGED bootVars => BootOK'
         /\ UNCHANGED rxVars => RxOK'
         /\ UNCHANGED outVars => OutOK'
         /\ UNCHANGED txVars => TxOK'
         /\ UNCHANGED nicThread => HandOK'
         /\ UNCHANGED link => LinkOK'
         /\ UNCHANGED numbers => NumbersOK'
<1>1. BootOK /\ RxOK /\ OutOK /\ TxOK /\ HandOK /\ LinkOK /\ NumbersOK
  BY TypeParts
<1>2. UNCHANGED bootVars => BootOK'
  BY <1>1 DEF BootOK, bootVars
<1>3. UNCHANGED rxVars => RxOK'
  BY <1>1 DEF RxOK, rxVars
<1>4. UNCHANGED outVars => OutOK'
  BY <1>1 DEF OutOK, outVars
<1>5. UNCHANGED txVars => TxOK'
  BY <1>1 DEF TxOK, txVars
<1>6. UNCHANGED nicThread => HandOK'
  BY <1>1 DEF HandOK, nicThread
<1>7. (UNCHANGED link => LinkOK') /\ (UNCHANGED numbers => NumbersOK')
  BY <1>1 DEF LinkOK, NumbersOK
<1> QED
  BY <1>2, <1>3, <1>4, <1>5, <1>6, <1>7

(* The types of what the card and the interrupt handler change ...          *)
LEMMA CardType ==
  ASSUME NicTypeOK, OrderInv, Card \/ Irq
  PROVE  NicTypeOK'
<1>1. BootOK /\ RxOK /\ OutOK /\ TxOK /\ HandOK /\ LinkOK /\ NumbersOK
  BY TypeParts
<1>2. CASE CardReceives
  <2>1. /\ rx' = [rx EXCEPT ![rxCard] = numbers.rx + 1] /\ rxCard' = (rxCard + 1) % RxDescs
        /\ cause' = cause \union {"rx"} /\ numbers' = [numbers EXCEPT !.rx = @ + 1]
        /\ UNCHANGED <<bootVars, rxNext, rdt, isr, incoming, orphans, outVars, txVars, nicThread, link>>
    BY <1>2 DEF CardReceives
  <2>2. numbers.rx + 1 \in 0 .. MaxRx
    BY <1>2, OneMore DEF CardReceives
  <2>3. rxCard' \in RxSlots
    BY <1>1, <2>1, StepsStayInside DEF RxOK
  <2>4. rx' \in [RxSlots -> 0 .. MaxRx]
    BY <1>1, <2>1, <2>2 DEF RxOK
  <2>5. NumbersOK'
    BY <1>1, <2>1, <2>2 DEF NumbersOK
  <2>6. RxOK'
    BY <1>1, <2>1, <2>3, <2>4 DEF RxOK
  <2> QED
    BY <2>1, <2>5, <2>6, PartsStay, TypePartsNext
<1>3. CASE CardTransmits
  <2>1. /\ wire' = Append(wire, tx[txCard]) /\ tx' = [tx EXCEPT ![txCard] = 0]
        /\ txCard' = (txCard + 1) % TxDescs
        /\ UNCHANGED <<bootVars, rxVars, outVars, txNext, nicThread, link, numbers>>
    BY <1>3 DEF CardTransmits
  <2>2. tx[txCard] # 0
    BY <1>3, CardTransmitsKeeps
  <2>3. tx[txCard] \in 1 .. MaxTx
    BY <1>1, <2>2 DEF TxOK
  <2>4. wire' \in Seq(1 .. MaxTx)
    BY <1>1, <2>1, <2>3 DEF TxOK
  <2>5. txCard' \in TxSlots
    BY <1>1, <2>1, StepsStayInside DEF TxOK
  <2>6. tx' \in [TxSlots -> 0 .. MaxTx]
    BY <1>1, <2>1, NicAssumption DEF TxOK
  <2>7. TxOK'
    BY <1>1, <2>1, <2>4, <2>5, <2>6 DEF TxOK
  <2> QED
    BY <2>1, <2>7, PartsStay, TypePartsNext
<1>4. CASE CableFlips
  <2>1. /\ numbers' = [numbers EXCEPT !.flips = @ + 1]
        /\ link' = [link EXCEPT !.cable = IF @ = "up" THEN "down" ELSE "up"]
        /\ cause' = cause \union {"link"}
        /\ UNCHANGED <<bootVars, rx, rxCard, rxNext, rdt, isr, incoming, orphans, outVars, txVars, nicThread>>
    BY <1>4 DEF CableFlips
  <2>2. numbers.flips + 1 \in 0 .. MaxFlips
    BY <1>4, OneMore DEF CableFlips
  <2>3. NumbersOK'
    BY <1>1, <2>1, <2>2 DEF NumbersOK
  <2>4. LinkOK'
    BY <1>1, <2>1 DEF LinkOK
  <2>5. RxOK'
    BY <1>1, <2>1 DEF RxOK
  <2> QED
    BY <2>1, <2>3, <2>4, <2>5, PartsStay, TypePartsNext
<1>5. CASE IrqEnters
  <2>1. /\ isr' \in {"idle", "drain"} /\ cause' = {}
        /\ link' = link \/ link' = [link EXCEPT !.seen = link.cable]
        /\ UNCHANGED <<bootVars, rx, rxCard, rxNext, rdt, incoming, orphans, outVars, txVars, nicThread,
                       numbers>>
    BY <1>5 DEF IrqEnters
  <2>2. LinkOK'
    BY <1>1, <2>1 DEF LinkOK
  <2>3. RxOK'
    BY <1>1, <2>1 DEF RxOK
  <2> QED
    BY <2>1, <2>2, <2>3, PartsStay, TypePartsNext
<1>6. CASE IrqTakes
  <2>1. /\ rx' = [rx EXCEPT ![rxNext] = 0] /\ rxNext' = (rxNext + 1) % RxDescs /\ rx[rxNext] # 0
        /\ orphans' = orphans \/ orphans' = orphans \union {rx[rxNext]}
        /\ UNCHANGED <<bootVars, rxCard, rdt, cause, isr, outVars, txVars, nicThread, link, numbers>>
    BY <1>6 DEF IrqTakes
  <2>2. rx[rxNext] \in 1 .. MaxRx
    BY <1>1, <2>1 DEF RxOK
  <2>3. rxNext' \in RxSlots
    BY <1>1, <2>1, StepsStayInside DEF RxOK
  <2>4. rx' \in [RxSlots -> 0 .. MaxRx]
    BY <1>1, <2>1, NicAssumption DEF RxOK
  <2>5. incoming' \in Seq(1 .. MaxRx) /\ Len(incoming') < RingSize
    <3>1. \/ UNCHANGED incoming
          \/ Len(incoming) < RingSize - 1 /\ incoming' = Append(incoming, rx[rxNext])
      BY <1>6 DEF IrqTakes, Queue
    <3>2. CASE UNCHANGED incoming
      BY <1>1, <3>2 DEF RxOK
    <3>3. CASE Len(incoming) < RingSize - 1 /\ incoming' = Append(incoming, rx[rxNext])
      <4>1. Len(incoming') = Len(incoming) + 1 /\ incoming' \in Seq(1 .. MaxRx) /\ Len(incoming) \in Nat
        BY <1>1, <2>2, <3>3 DEF RxOK
      <4> QED
        BY <3>3, <4>1, NicAssumption
    <3> QED
      BY <3>1, <3>2, <3>3
  <2>6. orphans' \subseteq 1 .. MaxRx
    BY <1>1, <2>1, <2>2 DEF RxOK
  <2>7. RxOK'
    BY <1>1, <2>1, <2>3, <2>4, <2>5, <2>6 DEF RxOK
  <2> QED
    BY <2>1, <2>7, PartsStay, TypePartsNext
<1>7. CASE IrqEnds
  <2>1. /\ isr' = "idle" /\ (rdt' = rdt \/ rdt' = (rxNext + RxDescs - 1) % RxDescs)
        /\ UNCHANGED <<bootVars, rx, rxCard, rxNext, cause, incoming, orphans, outVars, txVars, nicThread,
                       link, numbers>>
    BY <1>7 DEF IrqEnds, HandBack
  <2>2. rdt' \in RxSlots
    BY <1>1, <2>1, StepsStayInside DEF RxOK
  <2>3. RxOK'
    BY <1>1, <2>1, <2>2 DEF RxOK
  <2> QED
    BY <2>1, <2>3, PartsStay, TypePartsNext
<1> QED
  BY <1>2, <1>3, <1>4, <1>5, <1>6, <1>7 DEF Card, Irq

LEMMA BootType ==
  ASSUME NicTypeOK, Boot
  PROVE  NicTypeOK'
<1>1. BootOK /\ LinkOK
  BY TypeParts
<1>2. BootOK'
  BY <1>1 DEF Boot, SetsUpRings, Unmasks, GivesUp, Hooks, ReadsLink, Registers, Boots, BootOK
<1>3. \/ link' = link
      \/ link' = [link EXCEPT !.read = link.cable]
      \/ link' = [link EXCEPT !.seen = link.read]
  BY DEF Boot, SetsUpRings, Unmasks, GivesUp, Hooks, ReadsLink, Registers
<1>4. LinkOK'
  BY <1>1, <1>3 DEF LinkOK
<1>5. RxOK' /\ NumbersOK' /\ UNCHANGED <<outVars, txVars, nicThread>>
  <2>1. CASE Unmasks
    <3>1. RxOK /\ NumbersOK
      BY TypeParts
    <3>2. /\ cause' \in {{}, cause} /\ numbers' = [numbers EXCEPT !.early = numbers.rx]
          /\ UNCHANGED <<rx, rxCard, rxNext, rdt, isr, incoming, orphans, outVars, txVars, nicThread>>
      BY <2>1 DEF Unmasks
    <3>3. NumbersOK'
      BY <3>1, <3>2 DEF NumbersOK
    <3>4. RxOK'
      BY <3>1, <3>2 DEF RxOK
    <3> QED
      BY <3>2, <3>3, <3>4
  <2>2. CASE SetsUpRings \/ GivesUp \/ Hooks \/ ReadsLink \/ Registers
    <3>1. UNCHANGED <<rxVars, outVars, txVars, nicThread, numbers>>
      BY <2>2 DEF SetsUpRings, GivesUp, Hooks, ReadsLink, Registers
    <3> QED
      BY <3>1, PartsStay
  <2> QED
    BY <2>1, <2>2 DEF Boot
<1> QED
  BY <1>2, <1>4, <1>5, PartsStay, TypePartsNext

(* ... and of what the threads change.                                      *)
LEMMA OutType ==
  ASSUME NicTypeOK, NEW p \in Producers, Dispatch(p) \/ (AdvanceHead(p) /\ numbers' = numbers)
  PROVE  OutOK' /\ NumbersOK'
<1>1. OutOK /\ NumbersOK
  BY TypeParts
<1>2. CASE Dispatch(p)
  <2>1. numbers' = [numbers EXCEPT !.tx = @ + 1] /\ UNCHANGED <<outHead, outTail>>
    BY <1>2 DEF Dispatch
  <2>2. numbers.tx + 1 \in 0 .. MaxTx
    BY <1>2, OneMore DEF Dispatch, MaySend
  <2>3. NumbersOK'
    BY <1>1, <2>1, <2>2 DEF NumbersOK
  <2>4. CASE Full
    <3>1. UNCHANGED <<outBuf, producer>>
      BY <1>2, <2>4 DEF Dispatch
    <3> QED
      BY <1>1, <2>1, <2>3, <3>1 DEF OutOK
  <2>5. CASE ~Full
    <3> DEFINE next == (outHead + 1) % RingSize
    <3>1. /\ outBuf' = [outBuf EXCEPT ![outHead] = numbers.tx + 1]
          /\ producer' = [producer EXCEPT ![p] = [pc |-> "stored", frame |-> numbers.tx + 1, next |-> next]]
      BY <1>2, <2>5 DEF Dispatch
    <3>2. next \in RingSlots
      BY <1>1, StepsStayInside DEF OutOK
    <3> HIDE DEF next
    <3>3. [pc |-> "stored", frame |-> numbers.tx + 1, next |-> next]
            \in [pc : {"idle", "stored"}, frame : 0 .. MaxTx, next : RingSlots]
      BY <2>2, <3>2
    <3>4. producer' \in [Producers -> [pc : {"idle", "stored"}, frame : 0 .. MaxTx, next : RingSlots]]
      BY <1>1, <3>1, <3>3 DEF OutOK
    <3>5. outBuf' \in [RingSlots -> 0 .. MaxTx]
      BY <1>1, <2>2, <3>1 DEF OutOK
    <3> QED
      BY <1>1, <2>1, <2>3, <3>4, <3>5 DEF OutOK
  <2> QED
    BY <2>4, <2>5
<1>3. CASE AdvanceHead(p) /\ numbers' = numbers
  <2>1. /\ outHead' = producer[p].next /\ producer' = [producer EXCEPT ![p].pc = "idle"]
        /\ UNCHANGED <<outBuf, outTail, numbers>>
    BY <1>3 DEF AdvanceHead
  <2> QED
    BY <1>1, <2>1 DEF OutOK, NumbersOK
<1> QED
  BY <1>2, <1>3

LEMMA ThreadType ==
  ASSUME NicTypeOK, OrderInv, Sends \/ NicThread
  PROVE  NicTypeOK'
<1>1. BootOK /\ RxOK /\ OutOK /\ TxOK /\ HandOK /\ LinkOK /\ NumbersOK
  BY TypeParts
<1>2. CASE Sends
  <2>1. PICK p \in Threads : ThreadSends(p) \/ ThreadAdvances(p)
    BY <1>2 DEF Sends
  <2>2. p \in Producers /\ (Dispatch(p) \/ (AdvanceHead(p) /\ numbers' = numbers))
        /\ UNCHANGED <<bootVars, rxVars, txVars, nicThread, link>>
    BY <2>1 DEF Producers, ThreadSends, ThreadAdvances
  <2>3. OutOK' /\ NumbersOK'
    BY <2>2, OutType
  <2> QED
    BY <2>2, <2>3, PartsStay, TypePartsNext
<1>3. CASE NicAnswers \/ NicAdvances
  <2>1. /\ "nic" \in Producers /\ (Dispatch("nic") \/ (AdvanceHead("nic") /\ numbers' = numbers))
        /\ UNCHANGED <<bootVars, rxVars, txVars, selector, handled, link>>
        /\ nic' = nic \/ nic' = [pc |-> "answer", frame |-> nic.frame]
    BY <1>3 DEF Producers, NicAnswers, NicAdvances, NicGoto, nicThread
  <2>2. HandOK'
    BY <1>1, <2>1 DEF HandOK
  <2>3. OutOK' /\ NumbersOK'
    BY <2>1, OutType
  <2> QED
    BY <2>1, <2>2, <2>3, PartsStay, TypePartsNext
<1>4. CASE NicReceives
  <2>1. /\ incoming # <<>>
        /\ \E pc \in {"receive", "halted"} : nic' = [pc |-> pc, frame |-> Head(incoming)]
        /\ incoming' = Tail(incoming) /\ handled' = Append(handled, Head(incoming))
        /\ selector' = 1 - selector
        /\ UNCHANGED <<bootVars, rx, rxCard, rxNext, rdt, cause, isr, orphans, outVars, txVars, link,
                       numbers>>
    BY <1>4 DEF NicReceives, NicGoto, Flips
  <2>2. Head(incoming) \in 1 .. MaxRx /\ incoming' \in Seq(1 .. MaxRx) /\ Len(incoming') = Len(incoming) - 1
    <3>1. \A q \in Seq(1 .. MaxRx) :
            q # <<>> => Head(q) \in 1 .. MaxRx /\ Tail(q) \in Seq(1 .. MaxRx) /\ Len(Tail(q)) = Len(q) - 1
      BY HeadTailProperties
    <3> QED
      BY <1>1, <2>1, <3>1 DEF RxOK
  <2>3. Len(incoming) \in Nat /\ Len(incoming) < RingSize /\ RingSize \in Nat
    BY <1>1, NicAssumption DEF RxOK
  <2>4. Len(incoming') < RingSize
    BY <2>2, <2>3
  <2>5. RxOK'
    BY <1>1, <2>1, <2>2, <2>4 DEF RxOK
  <2>6. handled' \in Seq(1 .. MaxRx)
    BY <1>1, <2>1, <2>2 DEF HandOK
  <2>7. HandOK'
    BY <1>1, <2>1, <2>2, <2>6 DEF HandOK
  <2> QED
    BY <2>1, <2>5, <2>7, PartsStay, TypePartsNext
<1>5. CASE NicSends
  <2>1. /\ outTail' = (outTail + 1) % RingSize /\ nic' = [pc |-> "send", frame |-> outBuf[outTail]]
        /\ selector' = 1 - selector
        /\ UNCHANGED <<bootVars, rxVars, outBuf, outHead, producer, txVars, handled, link, numbers>>
    BY <1>5 DEF NicSends, NicGoto, Flips
  <2>2. outTail' \in RingSlots
    BY <1>1, <2>1, StepsStayInside DEF OutOK
  <2>3. OutOK'
    BY <1>1, <2>1, <2>2 DEF OutOK
  <2>4. outBuf[outTail] \in Nat
    BY <1>1, NicAssumption DEF OutOK
  <2>5. HandOK'
    BY <1>1, <2>1, <2>4 DEF HandOK
  <2> QED
    BY <2>1, <2>3, <2>5, PartsStay, TypePartsNext
<1>6. CASE NicYields \/ NicIsDone
  <2>1. /\ nic' = nic \/ nic' = [pc |-> "poll", frame |-> 0]
        /\ selector' = 1 - selector \/ selector' = selector
        /\ UNCHANGED <<bootVars, rxVars, outVars, txVars, handled, link, numbers>>
    BY <1>6 DEF NicYields, NicIsDone, NicGoto, Flips
  <2>2. HandOK'
    BY <1>1, <2>1 DEF HandOK
  <2> QED
    BY <2>1, <2>2, PartsStay, TypePartsNext
<1>7. CASE E1000Sends \/ RtlSends \/ RtlMovesOn
  <2>1. nic.pc = "send" => nic.frame \in 0 .. MaxTx
    <3>1. nic.pc = "send" => nic.frame <= numbers.tx
      BY DEF OrderInv, DispatchedInv, InHand
    <3>2. nic.frame \in Nat /\ numbers.tx \in 0 .. MaxTx
      BY <1>1 DEF HandOK, NumbersOK
    <3>3. MaxTx \in Nat
      BY NicAssumption
    <3> QED
      BY <3>1, <3>2, <3>3
  <2>2. /\ tx' = tx \/ (nic.pc = "send" /\ tx' = [tx EXCEPT ![txNext] = nic.frame])
        /\ txNext' = txNext \/ txNext' = NextTx
        /\ nic' = [pc |-> "poll", frame |-> 0] \/ nic' = [pc |-> "sent", frame |-> nic.frame]
        /\ UNCHANGED <<bootVars, rxVars, outVars, txCard, wire, selector, handled, link, numbers>>
    BY <1>7 DEF E1000Sends, RtlSends, RtlMovesOn, NicAt, NicGoto
  <2>3. NextTx \in TxSlots
    BY <1>1, StepsStayInside DEF NextTx, TxOK
  <2>4. tx' \in [TxSlots -> 0 .. MaxTx]
    BY <1>1, <2>1, <2>2 DEF TxOK
  <2>5. TxOK'
    BY <1>1, <2>2, <2>3, <2>4 DEF TxOK
  <2>6. HandOK'
    BY <1>1, <2>2 DEF HandOK
  <2> QED
    BY <2>2, <2>5, <2>6, PartsStay, TypePartsNext
<1> QED
  BY <1>2, <1>3, <1>4, <1>5, <1>6, <1>7 DEF NicThread

-----------------------------------------------------------------------------
(* With one thread sending at a time, whatever the card receives, however   *)
(* its descriptors and the two rings wrap, fill up and overflow, and        *)
(* wherever the interrupt strikes: ethernet_receive is called with the      *)
(* frames in the order the card took them off the wire, and the card sends  *)
(* them in the order nic_dispatch_packet was given them, none of them twice. *)
THEOREM FramesKeepTheirOrder == OneSender => (NicSpec => [](NicTypeOK /\ FramesInOrder))
<1> DEFINE Inv == NicTypeOK /\ RxInv /\ ReceivedInv /\ OrderInv
<1> SUFFICES ASSUME OneSender PROVE NicSpec => [](NicTypeOK /\ FramesInOrder)
  OBVIOUS
<1>1. NicInit => Inv
  BY InitInv
<1>2. Inv /\ [NicNext]_nicVars => Inv'
  <2> SUFFICES ASSUME Inv, [NicNext]_nicVars PROVE Inv'
    OBVIOUS
  <2>1. NicTypeOK'
    <3>1. CASE UNCHANGED nicVars
      BY <3>1, PartsStay, TypePartsNext DEF nicVars
    <3> QED
      BY <3>1, BootType, CardType, ThreadType DEF NicNext
  <2> QED
    BY <2>1, NextReceived, NextOrder
<1>3. Inv => NicTypeOK /\ FramesInOrder
  BY DEF OrderInv, ReceivedInv, DispatchedInv, FramesInOrder
<1> QED
  BY <1>1, <1>2, <1>3, PTL DEF NicSpec

-----------------------------------------------------------------------------
(* NetConfig                                                                *)

(* An offer leaves the session with one server of one network.              *)
SessionInv ==
  session.ip # Zero =>
    \E s \in DhcpServers : session = [ip |-> Address("lease", s), server |-> Address("server", s)]

(* A record is filed under the name whose address it holds.                 *)
CacheInv == \A i \in DOMAIN cache : cache[i].ip = cache[i].name

(* While an acknowledgement is being stored, what is stored already is of   *)
(* the network it came from, and that is the session's.                     *)
Requested(s) == \E m \in sent : m.type = "request" /\ m.server.net = s
StoringInv ==
  storing.field # "none" =>
    /\ session = [ip |-> Address("lease", storing.server), server |-> Address("server", storing.server)]
    /\ iface.masked /\ Requested(storing.server)
    /\ storing.field # "gateway" => iface.gateway = Address("gateway", storing.server)
    /\ storing.field \in {"active", "remote"} => iface.ip = Address("lease", storing.server)
    /\ storing.field = "remote" => iface.active

IInv ==
  /\ NetConfigTypeOK /\ SessionInv /\ CacheInv /\ StoringInv
  /\ ConfiguredAsAcked /\ AnswerIsForTheName

-----------------------------------------------------------------------------
(* Types                                                                    *)

IfaceType == [ip : Leases \union {Zero}, gateway : Gateways \union {Zero}, masked : BOOLEAN, active : BOOLEAN]
StoringType == [field : {"gateway", "ip", "active", "remote"}, server : DhcpServers] \union {AtRest}
AskerType == [pc : {"idle", "route", "send", "wait", "found"}, name : Hostnames \union {"none"}, looks : 0 .. Looks,
              moved : BOOLEAN, result : Hostnames \union {"none"}]

LEMMA InitType == ASSUME NetConfigInit PROVE NetConfigTypeOK
<1>1. 0 \in 0 .. Looks
  BY NetConfigAssumption
<1>2. asker \in [Askers -> AskerType]
  BY <1>1 DEF NetConfigInit, AskerType
<1>3. cache \in Seq([name : Hostnames, ip : Hostnames])
  BY DEF NetConfigInit
<1> QED
  BY <1>2, <1>3 DEF NetConfigInit, NetConfigTypeOK, AskerType

(* What an offer and an acknowledgement do to the configuration.            *)
LEMMA DhcpType ==
  ASSUME NetConfigTypeOK, SessionInv, NEW m \in Replies, ReceiveDhcp(m)
  PROVE  NetConfigTypeOK' /\ SessionInv'
<1>1. /\ m.server \in DhcpServers
      /\ Address("server", m.server) \in DhcpHosts /\ Address("gateway", m.server) \in Gateways
      /\ YourIp(m) \in Leases
  BY DEF Replies, DhcpHosts, Gateways, Leases, YourIp
<1>2. arpTable' \subseteq Gateways \union DhcpHosts \union {DnsServer}
  BY <1>1 DEF ReceiveDhcp, Learns, NetConfigTypeOK
<1>3. /\ session' \in [ip : Leases \union {Zero}, server : DhcpHosts \union {Zero}]
      /\ iface' \in IfaceType /\ storing' \in StoringType /\ dhcpRemote' = dhcpRemote
      /\ SessionInv'
  <2>1. CASE ReceiveOffer(m)
    <3>1. session' = [ip |-> Address("lease", m.server), server |-> Address("server", m.server)]
      BY <2>1 DEF ReceiveOffer, Offered, YourIp
    <3>2. UNCHANGED <<iface, storing, dhcpRemote>>
      BY <2>1 DEF ReceiveOffer
    <3>3. Address("lease", m.server) \in Leases
      BY <1>1 DEF Leases
    <3>4. SessionInv'
      BY <3>1, <1>1 DEF SessionInv
    <3> QED
      BY <3>1, <3>2, <3>3, <3>4, <1>1 DEF NetConfigTypeOK, IfaceType, StoringType
  <2>2. CASE ReceiveAck(m)
    <3>1. /\ iface' = [iface EXCEPT !.masked = TRUE] /\ storing' = [field |-> "gateway", server |-> m.server]
          /\ UNCHANGED <<session, dhcpRemote>>
      BY <2>2 DEF ReceiveAck
    <3>2. iface \in IfaceType /\ session \in [ip : Leases \union {Zero}, server : DhcpHosts \union {Zero}]
      BY DEF NetConfigTypeOK, IfaceType
    <3>3. iface' \in IfaceType
      BY <3>1, <3>2 DEF IfaceType
    <3>4. storing' \in StoringType
      BY <3>1, <1>1 DEF StoringType
    <3> QED
      BY <3>1, <3>2, <3>3, <3>4 DEF SessionInv
  <2>3. CASE ReceiveOther(m)
    BY <2>3 DEF ReceiveOther, NetConfigTypeOK, SessionInv, IfaceType, StoringType
  <2> QED
    BY <2>1, <2>2, <2>3 DEF ReceiveDhcp
<1> QED
  BY <1>2, <1>3 DEF ReceiveDhcp, NetConfigTypeOK, IfaceType, StoringType

(* What the stores behind an acknowledgement do.                            *)
LEMMA StoreType ==
  ASSUME NetConfigTypeOK, SessionInv, StoringInv, StoreNext
  PROVE  NetConfigTypeOK' /\ SessionInv'
<1>1. /\ iface \in IfaceType /\ storing \in StoringType
      /\ session \in [ip : Leases \union {Zero}, server : DhcpHosts \union {Zero}]
      /\ dhcpRemote \in DhcpHosts \union {Broadcast}
  BY DEF NetConfigTypeOK, IfaceType, StoringType
<1>2. storing.field \in {"gateway", "ip", "active", "remote"} /\ UNCHANGED <<lan, cards, session, arpTable, cache, asker, sent>>
  BY DEF StoreNext, StoreGateway, StoreIp, StoreActive, StoreRemote, Stores
<1>3. storing \in [field : {"gateway", "ip", "active", "remote"}, server : DhcpServers]
  BY <1>1, <1>2 DEF StoringType, AtRest
<1>4. Address("gateway", storing.server) \in Gateways /\ Address("server", storing.server) \in DhcpHosts
  BY <1>3 DEF Gateways, DhcpHosts
<1>5. storing' \in StoringType
  BY <1>3 DEF StoreNext, StoreGateway, StoreIp, StoreActive, StoreRemote, Stores, StoringType
<1>6. \/ iface' = [iface EXCEPT !.gateway = Address("gateway", storing.server)] /\ dhcpRemote' = dhcpRemote
      \/ iface' = [iface EXCEPT !.ip = session.ip] /\ dhcpRemote' = dhcpRemote
      \/ iface' = [iface EXCEPT !.active = TRUE] /\ dhcpRemote' = dhcpRemote
      \/ iface' = iface /\ dhcpRemote' = session.server
  BY DEF StoreNext, StoreGateway, StoreIp, StoreActive, StoreRemote
<1>7. session.server = Address("server", storing.server)
  BY <1>2 DEF StoringInv
<1>8. iface' \in IfaceType /\ dhcpRemote' \in DhcpHosts \union {Broadcast}
  <2>1. session.ip \in Leases \union {Zero}
    BY <1>1
  <2> QED
    BY <1>1, <1>4, <1>6, <1>7, <2>1 DEF IfaceType
<1>9. SessionInv'
  BY <1>2 DEF SessionInv
<1> QED
  BY <1>2, <1>5, <1>8, <1>9 DEF NetConfigTypeOK, IfaceType, StoringType

LEMMA AnswerType ==
  ASSUME NetConfigTypeOK, CacheInv, NEW n \in Hostnames, ReceiveAnswer(n)
  PROVE  NetConfigTypeOK' /\ CacheInv'
<1>1. arpTable' \subseteq Gateways \union DhcpHosts \union {DnsServer}
  BY DEF ReceiveAnswer, Learns, NetConfigTypeOK
<1>2. cache' \in Seq([name : Hostnames, ip : Hostnames]) /\ asker' \in [Askers -> AskerType] /\ CacheInv'
  <2>1. CASE Known(n)
    BY <2>1 DEF ReceiveAnswer, AddRecord, RecordName, NetConfigTypeOK, AskerType, CacheInv
  <2>2. CASE ~Known(n)
    <3>1. cache' = Append(cache, [name |-> n, ip |-> n])
      BY <2>2 DEF ReceiveAnswer, AddRecord, RecordName
    <3>2. asker' = [a \in Askers |-> [asker[a] EXCEPT !.moved = @ \/ (ArrayIsFull /\ At(a, "found"))]]
      BY <2>2 DEF ReceiveAnswer, AddRecord, RecordName
    <3>4. ASSUME NEW a \in Askers
          PROVE  [asker[a] EXCEPT !.moved = @ \/ (ArrayIsFull /\ At(a, "found"))] \in AskerType
      <4>1. asker[a] \in AskerType
        BY DEF NetConfigTypeOK, AskerType
      <4> DEFINE b == asker[a].moved \/ (ArrayIsFull /\ At(a, "found"))
      <4>2. b \in BOOLEAN
        OBVIOUS
      <4> HIDE DEF b
      <4>3. [asker[a] EXCEPT !.moved = b] \in AskerType
        BY <4>1, <4>2 DEF AskerType
      <4> QED
        BY <4>3 DEF b
    <3>5. asker' \in [Askers -> AskerType]
      BY <3>2, <3>4
    <3>6. cache \in Seq([name : Hostnames, ip : Hostnames])
      BY DEF NetConfigTypeOK
    <3>7. cache' \in Seq([name : Hostnames, ip : Hostnames]) /\ CacheInv'
      BY <3>1, <3>6 DEF CacheInv
    <3> QED
      BY <3>5, <3>7
  <2> QED
    BY <2>1, <2>2
<1> QED
  BY <1>1, <1>2 DEF ReceiveAnswer, NetConfigTypeOK, AskerType, configVars

LEMMA AskerStepType ==
  ASSUME NetConfigTypeOK, NEW a \in Askers,
         Asks(a) \/ \E n \in lan.names : Ask(a, n)
  PROVE  asker' \in [Askers -> AskerType] /\ cache' = cache
<1>1. asker \in [Askers -> AskerType] /\ asker[a] \in AskerType
  BY DEF NetConfigTypeOK, AskerType
<1>2. CASE \E n \in lan.names : Ask(a, n)
  <2>1. PICK n \in lan.names : Ask(a, n)
    BY <1>2
  <2>2. n \in Hostnames /\ Looks \in 0 .. Looks
    BY NetConfigAssumption DEF NetConfigTypeOK
  <2>3. 0 \in 0 .. Looks
    BY NetConfigAssumption
  <2>4. [pc |-> IF Known(n) THEN "found" ELSE "route", name |-> n, looks |-> 0, moved |-> FALSE,
         result |-> "none"] \in AskerType
    BY <2>2, <2>3 DEF AskerType
  <2> QED
    BY <2>1, <2>4, <1>1 DEF Ask
<1>6. CASE Route(a) \/ SendQuery(a)
  <2>1. Looks \in 0 .. Looks
    BY NetConfigAssumption
  <2>2. asker' = [asker EXCEPT ![a].pc = "send"] \/ asker' = [asker EXCEPT ![a].pc = "wait", ![a].looks = Looks]
    BY <1>6 DEF Route, SendQuery, Waits
  <2>3. cache' = cache
    BY <1>6 DEF Route, SendQuery
  <2> QED
    BY <1>1, <2>1, <2>2, <2>3 DEF AskerType
<1>3. CASE LookAgain(a)
  <2>4. 0 \in 0 .. Looks
    BY NetConfigAssumption
  <2>1. asker[a].looks > 0 => asker[a].looks - 1 \in 0 .. Looks
    BY <1>1, NetConfigAssumption DEF AskerType
  <2>2. CASE Known(asker[a].name)
    BY <1>3, <2>2, <2>4, <1>1 DEF LookAgain, Found, AskerType
  <2>3. CASE ~Known(asker[a].name)
    BY <1>3, <2>1, <2>3, <1>1 DEF LookAgain, AskerType
  <2> QED
    BY <2>2, <2>3
<1>4. CASE GiveUp(a)
  BY <1>4, <1>1 DEF GiveUp, AskerType
<1>5. CASE ReadRecord(a)
  <2>1. \A i \in DOMAIN cache : cache[i].ip \in Hostnames
    <3> DEFINE Records == [name : Hostnames, ip : Hostnames]
    <3>1. cache \in Seq(Records)
      BY DEF NetConfigTypeOK
    <3> HIDE DEF Records
    <3>2. \A i \in DOMAIN cache : cache[i] \in Records
      BY <3>1, ElementOfSeq, LenProperties
    <3> QED
      BY <3>2 DEF Records
  <2>2. PICK r \in IF asker[a].moved THEN Hostnames \union {"none"}
                   ELSE {cache[i].ip : i \in {j \in DOMAIN cache : cache[j].name = asker[a].name}} :
          asker' = [asker EXCEPT ![a].pc = "idle", ![a].result = r]
    BY <1>5 DEF ReadRecord
  <2>3. r \in Hostnames \union {"none"}
    BY <2>1, <2>2
  <2> QED
    BY <1>5, <2>2, <2>3, <1>1 DEF ReadRecord, AskerType
<1> QED
  BY <1>2, <1>3, <1>4, <1>5, <1>6 DEF Asks

(* What an asker leaves alone.                                              *)
LEMMA AskerLeaves ==
  ASSUME NEW a \in Askers, Asks(a) \/ \E n \in lan.names : Ask(a, n)
  PROVE  UNCHANGED <<configVars, arpTable>> /\ sent \subseteq sent'
BY DEF Asks, Route, SendQuery, IpSend, LookAgain, GiveUp, ReadRecord, Ask

LEMMA NextType ==
  ASSUME NetConfigTypeOK, SessionInv, CacheInv, StoringInv, [NetConfigNext]_netVars
  PROVE  NetConfigTypeOK' /\ SessionInv' /\ CacheInv'
<1>1. CASE Configure \/ RegisterSecond
  BY <1>1 DEF Configure, RegisterSecond, NetConfigTypeOK, SessionInv, CacheInv
<1>2. CASE \E m \in Replies : m.server \in lan.servers /\ ReceiveDhcp(m)
  <2>1. PICK m \in Replies : ReceiveDhcp(m)
    BY <1>2
  <2>2. CacheInv'
    BY <2>1 DEF ReceiveDhcp, CacheInv
  <2> QED
    BY <2>1, <2>2, DhcpType
<1>3. CASE \E n \in Hostnames : ReceiveAnswer(n)
  <2>1. PICK n \in Hostnames : ReceiveAnswer(n)
    BY <1>3
  <2>2. SessionInv'
    BY <2>1 DEF ReceiveAnswer, configVars, SessionInv
  <2> QED
    BY <2>1, <2>2, AnswerType
<1>4. CASE \/ \E a \in Lan(Gateways \union DhcpHosts) : ReceiveArpReply(a)
           \/ \E a \in Lan(Gateways) : ReceivePing(a)
  BY <1>4 DEF ReceiveArpReply, ReceivePing, Lan, Learns, configVars, NetConfigTypeOK, SessionInv, CacheInv
<1>5. CASE \E a \in Askers : Asks(a) \/ \E n \in lan.names : Ask(a, n)
  <2>1. PICK a \in Askers : Asks(a) \/ \E n \in lan.names : Ask(a, n)
    BY <1>5
  <2>2. asker' \in [Askers -> AskerType] /\ cache' = cache
    BY <2>1, AskerStepType
  <2>3. UNCHANGED <<configVars, arpTable>>
    BY <2>1, AskerLeaves
  <2> QED
    BY <2>2, <2>3 DEF configVars, NetConfigTypeOK, AskerType, SessionInv, CacheInv
<1>6. CASE UNCHANGED netVars
  BY <1>6 DEF netVars, configVars, NetConfigTypeOK, SessionInv, CacheInv
<1>7. CASE StoreNext
  <2>1. CacheInv'
    BY <1>7 DEF StoreNext, StoreGateway, StoreIp, StoreActive, StoreRemote, CacheInv
  <2> QED
    BY <1>7, <2>1, StoreType
<1> QED
  BY <1>1, <1>2, <1>3, <1>4, <1>5, <1>6, <1>7 DEF NetConfigNext, Receive

-----------------------------------------------------------------------------
(* The two properties                                                       *)

(* What was sent stays sent.                                                *)
LEMMA SentGrows == ASSUME [NetConfigNext]_netVars PROVE sent \subseteq sent'
<1>1. ASSUME NEW m \in Replies, ReceiveDhcp(m) PROVE sent \subseteq sent'
  BY <1>1 DEF ReceiveDhcp, ReceiveOffer, ReceiveAck, ReceiveOther, UdpSend, IpSend
<1>2. CASE StoreNext
  BY <1>2 DEF StoreNext, StoreGateway, StoreIp, StoreActive, StoreRemote
<1> QED
  BY <1>1, <1>2, AskerLeaves DEF NetConfigNext, Configure, RegisterSecond, Receive, ReceiveAnswer,
                                 ReceiveArpReply, ReceivePing, UdpSend, IpSend, netVars

(* Where neither the configuration nor the session is touched.              *)
LEMMA ConfiguredQuiet ==
  ASSUME StoringInv, ConfiguredAsAcked, sent \subseteq sent', UNCHANGED <<iface, storing, dhcpRemote>>,
         storing.field # "none" => session' = session
  PROVE  StoringInv' /\ ConfiguredAsAcked'
BY DEF StoringInv, Requested, ConfiguredAsAcked, Granted

LEMMA AckStep ==
  ASSUME NetConfigTypeOK, SessionInv, StoringInv, ConfiguredAsAcked, NEW m \in Replies,
         ReceiveDhcp(m), ReceiveAck(m)
  PROVE  StoringInv' /\ ConfiguredAsAcked'
<1>1. /\ iface' = [iface EXCEPT !.masked = TRUE] /\ storing' = [field |-> "gateway", server |-> m.server]
      /\ UNCHANGED <<session, dhcpRemote, sent>> /\ storing = AtRest
  BY DEF ReceiveAck, ReceiveDhcp, Hears
<1>2. iface \in IfaceType
  BY DEF NetConfigTypeOK, IfaceType
<1>3. /\ iface'.masked /\ iface'.ip = iface.ip /\ iface'.gateway = iface.gateway /\ iface'.active = iface.active
  BY <1>1, <1>2 DEF IfaceType
<1>4. session.ip = Address("lease", m.server)
  BY DEF ReceiveAck, Acked, YourIp
<1>5. session = [ip |-> Address("lease", m.server), server |-> Address("server", m.server)]
  BY <1>4 DEF SessionInv, Zero, Address
<1>6. Requested(m.server)
  <2>1. PICK q \in sent : q.type = "request" /\ q.server = Address("server", m.server)
    BY DEF ReceiveDhcp, IsSent, ReceiveAck, Acked
  <2> QED
    BY <2>1 DEF Requested, Address
<1>7. StoringInv'
  BY <1>1, <1>3, <1>5, <1>6 DEF StoringInv, Requested
<1>8. ConfiguredAsAcked'
  BY <1>1, <1>3 DEF ConfiguredAsAcked, Granted, AtRest
<1> QED
  BY <1>7, <1>8

LEMMA StoreStep ==
  ASSUME NetConfigTypeOK, StoringInv, ConfiguredAsAcked, StoreNext
  PROVE  StoringInv' /\ ConfiguredAsAcked'
<1>1. iface \in IfaceType /\ UNCHANGED <<session, sent>>
  BY DEF NetConfigTypeOK, IfaceType, StoreNext, StoreGateway, StoreIp, StoreActive, StoreRemote
<1>2. storing.field # "none" /\ storing \in [field : {"gateway", "ip", "active", "remote"}, server : DhcpServers]
  BY DEF NetConfigTypeOK, AtRest, StoreNext, StoreGateway, StoreIp, StoreActive, StoreRemote, Stores
<1>3. /\ session = [ip |-> Address("lease", storing.server), server |-> Address("server", storing.server)]
      /\ iface.masked /\ Requested(storing.server)
  BY <1>2 DEF StoringInv
<1>4. storing.server # "none"
  BY <1>2, NetConfigAssumption
<1>5. CASE StoreGateway
  <2>1. /\ storing' = [storing EXCEPT !.field = "ip"] /\ storing.field = "gateway" /\ dhcpRemote' = dhcpRemote
        /\ iface' = [iface EXCEPT !.gateway = Address("gateway", storing.server)]
    BY <1>5 DEF StoreGateway, Stores
  <2>2. /\ storing'.field = "ip" /\ storing'.server = storing.server
        /\ iface'.gateway = Address("gateway", storing.server) /\ iface'.ip = iface.ip
        /\ iface'.masked = iface.masked /\ iface'.active = iface.active
    BY <1>1, <1>2, <2>1 DEF IfaceType
  <2>3. StoringInv'
    BY <1>1, <1>3, <2>2 DEF StoringInv, Requested
  <2>4. ConfiguredAsAcked'
    BY <1>1, <2>1, <2>2 DEF ConfiguredAsAcked, Granted, Address
  <2> QED
    BY <2>3, <2>4
<1>6. CASE StoreIp
  <2>1. /\ storing' = [storing EXCEPT !.field = "active"] /\ storing.field = "ip" /\ dhcpRemote' = dhcpRemote
        /\ iface' = [iface EXCEPT !.ip = session.ip]
    BY <1>6 DEF StoreIp, Stores
  <2>2. /\ storing'.field = "active" /\ storing'.server = storing.server
        /\ iface'.ip = Address("lease", storing.server) /\ iface'.gateway = iface.gateway
        /\ iface'.masked = iface.masked /\ iface'.active = iface.active
    BY <1>1, <1>2, <1>3, <2>1 DEF IfaceType
  <2>3. iface.gateway = Address("gateway", storing.server)
    BY <2>1 DEF StoringInv
  <2>4. StoringInv'
    BY <1>1, <1>3, <2>2, <2>3 DEF StoringInv, Requested
  <2>5. Granted(iface.ip)' /\ iface'.ip # Zero
    BY <1>1, <1>3, <2>2 DEF Granted, Requested, Address, Zero
  <2>6. ConfiguredAsAcked'
    BY <1>1, <1>3, <2>2, <2>3, <2>5 DEF ConfiguredAsAcked, Address
  <2> QED
    BY <2>4, <2>6
<1>7. CASE StoreActive
  <2>1. /\ storing' = [storing EXCEPT !.field = "remote"] /\ storing.field = "active" /\ dhcpRemote' = dhcpRemote
        /\ iface' = [iface EXCEPT !.active = TRUE]
    BY <1>7 DEF StoreActive, Stores
  <2>2. /\ storing'.field = "remote" /\ storing'.server = storing.server
        /\ iface'.ip = iface.ip /\ iface'.gateway = iface.gateway
        /\ iface'.masked = iface.masked /\ iface'.active
    BY <1>1, <1>2, <2>1 DEF IfaceType
  <2>3. iface.gateway = Address("gateway", storing.server) /\ iface.ip = Address("lease", storing.server)
    BY <2>1 DEF StoringInv
  <2>4. StoringInv'
    BY <1>1, <1>3, <2>2, <2>3 DEF StoringInv, Requested
  <2>5. ConfiguredAsAcked'
    BY <1>1, <1>3, <2>2, <2>3 DEF ConfiguredAsAcked, Granted, Requested, Address, Zero
  <2> QED
    BY <2>4, <2>5
<1>8. CASE StoreRemote
  <2>1. storing' = AtRest /\ storing.field = "remote" /\ dhcpRemote' = session.server /\ iface' = iface
    BY <1>8 DEF StoreRemote
  <2>2. iface.gateway = Address("gateway", storing.server) /\ iface.ip = Address("lease", storing.server)
    BY <2>1 DEF StoringInv
  <2>3. StoringInv' /\ storing'.field = "none"
    BY <2>1 DEF StoringInv, AtRest
  <2>4. ConfiguredAsAcked'
    BY <1>1, <1>3, <2>1, <2>2, <2>3 DEF ConfiguredAsAcked, Granted, Address
  <2> QED
    BY <2>3, <2>4
<1> QED
  BY <1>5, <1>6, <1>7, <1>8 DEF StoreNext

LEMMA ConfiguredStep ==
  ASSUME NetConfigTypeOK, SessionInv, StoringInv, ConfiguredAsAcked, [NetConfigNext]_netVars
  PROVE  StoringInv' /\ ConfiguredAsAcked'
<1>1. sent \subseteq sent'
  BY SentGrows
<1>2. ASSUME NEW m \in Replies, ReceiveDhcp(m) PROVE StoringInv' /\ ConfiguredAsAcked'
  <2>1. storing.field = "none"
    BY <1>2 DEF ReceiveDhcp, Hears, AtRest
  <2>2. CASE ReceiveOffer(m) \/ ReceiveOther(m)
    BY <1>1, <2>1, <2>2, ConfiguredQuiet DEF ReceiveOffer, ReceiveOther
  <2> QED
    BY <1>2, <2>2, AckStep DEF ReceiveDhcp
<1>3. CASE \E a \in Askers : Asks(a) \/ \E n \in lan.names : Ask(a, n)
  BY <1>1, <1>3, AskerLeaves, ConfiguredQuiet DEF configVars
<1>4. CASE UNCHANGED netVars
  BY <1>1, <1>4, ConfiguredQuiet DEF netVars, configVars
<1>5. CASE Configure \/ RegisterSecond
  BY <1>1, <1>5, ConfiguredQuiet DEF Configure, RegisterSecond
<1>6. CASE \/ \E n \in Hostnames : ReceiveAnswer(n)
           \/ \E a \in Lan(Gateways \union DhcpHosts) : ReceiveArpReply(a)
           \/ \E a \in Lan(Gateways) : ReceivePing(a)
  BY <1>1, <1>6, ConfiguredQuiet DEF ReceiveAnswer, ReceiveArpReply, ReceivePing, configVars
<1> QED
  BY <1>2, <1>3, <1>4, <1>5, <1>6, StoreStep DEF NetConfigNext, Receive

LEMMA AnswerStep ==
  ASSUME NetConfigTypeOK, CacheInv, AnswerIsForTheName, [NetConfigNext]_netVars
  PROVE  AnswerIsForTheName'
<1>1. asker \in [Askers -> AskerType]
  BY DEF NetConfigTypeOK, AskerType
<1>2. CASE UNCHANGED asker
  BY <1>2 DEF AnswerIsForTheName
<1>3. ASSUME NEW n \in Hostnames, ReceiveAnswer(n) PROVE AnswerIsForTheName'
  <2>1. CASE Known(n)
    BY <1>2, <1>3, <2>1 DEF ReceiveAnswer, AddRecord, RecordName
  <2>2. CASE ~Known(n)
    <3>1. asker' = [a \in Askers |-> [asker[a] EXCEPT !.moved = @ \/ (ArrayIsFull /\ At(a, "found"))]]
      BY <1>3, <2>2 DEF ReceiveAnswer, AddRecord, RecordName
    <3>2. ASSUME NEW a \in Askers
          PROVE  /\ asker'[a].result = asker[a].result /\ asker'[a].name = asker[a].name
                 /\ asker[a].moved => asker'[a].moved
      <4>1. asker[a] \in AskerType
        BY <1>1
      <4>2. asker'[a] = [asker[a] EXCEPT !.moved = @ \/ (ArrayIsFull /\ At(a, "found"))]
        BY <3>1
      <4> QED
        BY <4>1, <4>2 DEF AskerType
    <3> QED
      BY <3>2 DEF AnswerIsForTheName
  <2> QED
    BY <2>1, <2>2
<1>4. ASSUME NEW a \in Askers, Asks(a) \/ \E n \in lan.names : Ask(a, n) PROVE AnswerIsForTheName'
  <2>1. asker[a] \in AskerType
    BY <1>1
  <2>2. \A b \in Askers \ {a} : asker'[b] = asker[b]
    BY <1>1, <1>4 DEF Asks, Route, SendQuery, Waits, LookAgain, Found, GiveUp, ReadRecord, Ask
  <2>3. asker'[a].result \in {"none", asker'[a].name} \/ asker'[a].moved
    <3>1. CASE \E n \in lan.names : Ask(a, n)
      BY <1>1, <3>1 DEF Ask
    <3>2. CASE GiveUp(a)
      BY <1>1, <2>1, <3>2 DEF GiveUp, AnswerIsForTheName, AskerType
    <3>3. CASE LookAgain(a)
      BY <1>1, <2>1, <3>3 DEF LookAgain, Found, AnswerIsForTheName, AskerType
    <3>4. CASE ReadRecord(a)
      <4>1. PICK r \in IF asker[a].moved THEN Hostnames \union {"none"}
                       ELSE {cache[i].ip : i \in {j \in DOMAIN cache : cache[j].name = asker[a].name}} :
              asker' = [asker EXCEPT ![a].pc = "idle", ![a].result = r]
        BY <3>4 DEF ReadRecord
      <4>2. asker'[a].result = r /\ asker'[a].name = asker[a].name /\ asker'[a].moved = asker[a].moved
        BY <1>1, <2>1, <4>1 DEF AskerType
      <4>3. ~asker[a].moved => r = asker[a].name
        BY <4>1 DEF CacheInv
      <4> QED
        BY <4>2, <4>3
    <3>5. CASE Route(a) \/ SendQuery(a)
      BY <1>1, <2>1, <3>5 DEF Route, SendQuery, Waits, AnswerIsForTheName, AskerType
    <3> QED
      BY <1>4, <3>1, <3>2, <3>3, <3>4, <3>5 DEF Asks
  <2> QED
    BY <2>2, <2>3 DEF AnswerIsForTheName
<1>5. CASE \E m \in Replies : ReceiveDhcp(m)
  BY <1>2, <1>5 DEF ReceiveDhcp
<1> QED
  BY <1>2, <1>3, <1>4, <1>5 DEF NetConfigNext, Configure, RegisterSecond, Receive, ReceiveArpReply,
                               ReceivePing, StoreNext, StoreGateway, StoreIp, StoreActive, StoreRemote,
                               netVars

-----------------------------------------------------------------------------

LEMMA InitIInv == ASSUME NetConfigInit PROVE IInv
  BY InitType DEF NetConfigInit, IInv, SessionInv, CacheInv, StoringInv, AtRest, ConfiguredAsAcked, AnswerIsForTheName

LEMMA NextIInv == ASSUME IInv, [NetConfigNext]_netVars PROVE IInv'
  BY NextType, ConfiguredStep, AnswerStep DEF IInv

(* Session, interface, tables and queries keep their types, however many    *)
(* servers and hosts answer (network_manager.cpp, dns.cpp, arp.cpp).         *)
THEOREM TypeCorrect == NetConfigSpec => []NetConfigTypeOK
<1>1. IInv => NetConfigTypeOK
  BY DEF IInv
<1> QED
  BY <1>1, InitIInv, NextIInv, PTL DEF NetConfigSpec

(* However offers and acknowledgements of any number of servers cross, the   *)
(* interface only carries an address its server granted to this machine      *)
(* (network_manager_dhcp_callback).                                         *)
THEOREM AddressWasAcked == NetConfigSpec => []ConfiguredAsAcked
<1>1. IInv => ConfiguredAsAcked
  BY DEF IInv
<1> QED
  BY <1>1, InitIInv, NextIInv, PTL DEF NetConfigSpec

(* A query returns the address of the name it asked for, unless the records  *)
(* moved between the look-up and the read (network_manager_dns_query).       *)
THEOREM AnswersMatch == NetConfigSpec => []AnswerIsForTheName
<1>1. IInv => AnswerIsForTheName
  BY DEF IInv
<1> QED
  BY <1>1, InitIInv, NextIInv, PTL DEF NetConfigSpec

=============================================================================
