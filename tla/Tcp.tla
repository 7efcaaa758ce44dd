-------------------------------- MODULE Tcp --------------------------------
(***************************************************************************)
(* One TCP socket of kernel/src/network (socket.cpp, tcp.cpp) with what it  *)
(* uses of ip.cpp and arp.cpp.  Three actors share it:                      *)
(*                                                                          *)
(*   - a thread in socket_send, which opens the connection on its first     *)
(*     call, waits until it is established and sends one byte;              *)
(*   - the nic thread, which runs tcp_receive on every segment that comes   *)
(*     in and preempts the sender, or is preempted by it, anywhere;         *)
(*   - the peer, which is not this repository's code.                       *)
(*                                                                          *)
(* The network between them loses, repeats, delays and reorders: a segment  *)
(* once sent may arrive at any later time, any number of times or never.    *)
(* The kernel never sends anything twice; the peer does.                    *)
(***************************************************************************)
EXTENDS Integers, Sequences

CONSTANTS
  Space,      \* the sequence numbers: 2^32
  MaxConn,    \* bound: how many control blocks are created
  MaxSend,    \* bound: how many times socket_send is called
  PeerData,   \* bound: how many bytes the peer writes to a connection
  Iss,        \* the number tcp_generate_isn gives to each connection
  Irs,        \* the number the peer starts each connection with
  Windows     \* the windows its segments announce

Conns == 1 .. MaxConn

(* Positions in a connection are numbered from its initial number on.       *)
Number(base, i) == (base + i) % Space

(* Numbers in use differ, within a connection and between two: what initial *)
(* sequence numbers are chosen for.                                         *)
ASSUME NumbersAssumption ==
  /\ Space \in Nat \ {0}
  /\ MaxConn \in Nat
  /\ MaxSend \in Nat /\ MaxSend + 2 <= Space
  /\ PeerData \in Nat /\ PeerData + 2 <= Space
  /\ Iss \in [Conns -> 0 .. Space - 1]
  /\ Irs \in [Conns -> 0 .. Space - 1]
  /\ Windows \subseteq Nat
  /\ \A k, l \in Conns :
       /\ \A i, j \in 0 .. MaxSend + 1 :
            Number(Iss[k], i) = Number(Iss[l], j) => k = l /\ i = j
       /\ \A i, j \in 0 .. PeerData + 1 :
            Number(Irs[k], i) = Number(Irs[l], j) => k = l /\ i = j

VARIABLES
  socketData, \* socket->socket_data: a control block, or 0
  created,    \* the control blocks created so far are 1 .. created
  tcb,        \* and what they hold
  freed,      \* those deleted
  arp,        \* what g_address_lookup_table knows of the next hop
  sender,     \* the sending thread: where it is, the block it passed on, its byte
  calls,      \* how many times it has called socket_send
  nic,        \* the nic thread: polling, or how far tcp_receive is
  held,       \* the byte it is about to call the listener with
  sent,       \* every segment the kernel has sent
  accepted,   \* the bytes tcp_send took for each connection, in order
  peer,       \* the peer's end of each connection and how much it has written
  delivered   \* the bytes the listener was called with, by connection

NoByte == <<0, 0>>

senderVars == <<sender, calls, accepted>>
nicVars == <<freed, nic, held, delivered>>
vars == <<socketData, created, tcb, arp, senderVars, nicVars, sent, peer>>

Init ==
  /\ socketData = 0
  /\ created = 0
  /\ tcb = [k \in Conns |-> [state |-> "CLOSED", sndNxt |-> 0, rcvNxt |-> 0]]
  /\ freed = {}
  /\ arp \in {"unknown", "known"}
  /\ sender = [pc |-> "idle", tcb |-> 0, byte |-> 0]
  /\ calls = 0
  /\ nic = "poll" /\ held = NoByte
  /\ sent = {}
  /\ accepted = [k \in Conns |-> <<>>]
  /\ peer = [k \in Conns |-> [state |-> "listen", written |-> 0]]
  /\ delivered = [k \in Conns |-> <<>>]

-----------------------------------------------------------------------------
(* Segments and the way down                                                *)

(* tcp_send_with_flags: what a block puts into a segment.                   *)
Segment(k, kind, ack, byte) ==
  [conn |-> k, kind |-> kind, seq |-> tcb[k].sndNxt, ack |-> ack, byte |-> byte]

(* ip_send: with the next hop unknown it asks for its address and fails.    *)
IpSend(s) ==
  IF arp = "known"
    THEN sent' = sent \union {s} /\ UNCHANGED arp
    ELSE arp' = "asked" /\ UNCHANGED sent

(* An address arrives: arp_receive puts it into the table.                  *)
ArpReply ==
  /\ arp = "asked"
  /\ arp' = "known"
  /\ UNCHANGED <<socketData, created, tcb, senderVars, nicVars, sent, peer>>

-----------------------------------------------------------------------------
(* The sending thread                                                       *)

At(pc) == sender.pc = pc
Goto(pc) == sender' = [sender EXCEPT !.pc = pc]

(* The block the next step of the sender touches: socket_data again, or the *)
(* argument of the call it is in.                                           *)
Touched ==
  IF sender.pc \in {"connect", "wait", "send"} THEN socketData ELSE sender.tcb

(* socket_send; without a block it creates one (tcp_create_tcb).            *)
SocketSend ==
  /\ At("idle")
  /\ calls < MaxSend
  /\ calls' = calls + 1
  /\ IF socketData = 0
       THEN /\ created < MaxConn
            /\ created' = created + 1
            /\ tcb' = [tcb EXCEPT ![created + 1] =
                        [state |-> "OPENED", sndNxt |-> Iss[created + 1], rcvNxt |-> 0]]
            /\ socketData' = created + 1
            /\ sender' = [sender EXCEPT !.pc = "connect", !.byte = calls + 1]
       ELSE /\ sender' = [sender EXCEPT !.pc = "wait", !.byte = calls + 1]
            /\ UNCHANGED <<socketData, created, tcb>>
  /\ UNCHANGED <<arp, accepted, nicVars, sent, peer>>

(* tcp_send: the block is loaded and its state decides.                     *)
TcpSend ==
  /\ sender.pc \in {"connect", "send"}
  /\ sender' = [sender EXCEPT
       !.tcb = socketData,
       !.pc = IF socketData = 0 THEN "idle"
              ELSE CASE tcb[socketData].state = "OPENED"      -> "syn"
                     [] tcb[socketData].state = "ESTABLISHED" -> "data"
                     [] OTHER                                 -> "idle"]
  /\ UNCHANGED <<socketData, created, tcb, arp, calls, accepted, nicVars, sent, peer>>

(* The SYN goes out, or the call fails with SYN_SENT already stored.        *)
SynSend ==
  /\ At("syn")
  /\ tcb' = [tcb EXCEPT ![sender.tcb].state = "SYN_SENT"]
  /\ IpSend(Segment(sender.tcb, "syn", 0, 0))
  /\ Goto(IF arp = "known" THEN "synCount" ELSE "idle")
  /\ UNCHANGED <<socketData, created, calls, accepted, nicVars, peer>>

(* The data go out, or the call fails.                                      *)
DataSend ==
  /\ At("data")
  /\ IpSend(Segment(sender.tcb, "data", tcb[sender.tcb].rcvNxt, sender.byte))
  /\ Goto(IF arp = "known" THEN "dataCount" ELSE "idle")
  /\ UNCHANGED <<socketData, created, tcb, calls, accepted, nicVars, peer>>

(* Mutant: the numbers do not wrap. *)
CountedUnwrapped(k) == [tcb EXCEPT ![k].sndNxt = @ + 1]

(* Mutant: only data count. *)
CountedData(k) ==
  IF At("synCount") THEN tcb ELSE [tcb EXCEPT ![k].sndNxt = Number(@, 1)]

(* After ip_send has returned, a SYN and a byte count one each.             *)
Counted(k) == [tcb EXCEPT ![k].sndNxt = Number(@, 1)]

SynCount ==
  /\ At("synCount")
  /\ tcb' = Counted(sender.tcb)
  /\ Goto("wait")
  /\ UNCHANGED <<socketData, created, arp, calls, accepted, nicVars, sent, peer>>

DataCount ==
  /\ At("dataCount")
  /\ tcb' = Counted(sender.tcb)
  /\ accepted' = [accepted EXCEPT ![sender.tcb] = Append(@, sender.byte)]
  /\ Goto("idle")
  /\ UNCHANGED <<socketData, created, arp, calls, nicVars, sent, peer>>

(* socket_send polls until tcp_is_connection_established.                   *)
Wait ==
  /\ At("wait")
  /\ socketData # 0
  /\ tcb[socketData].state = "ESTABLISHED"
  /\ Goto("send")
  /\ UNCHANGED <<socketData, created, tcb, arp, calls, accepted, nicVars, sent, peer>>

(* The block is gone under the sender.  What a deleted block held may still *)
(* be there: then the steps above go on with it.  Or its memory is in use   *)
(* again, or the pointer is null outside tcp_send, which tests it: then the *)
(* sender finds any state, and polls on, goes on to send, gives up or       *)
(* faults; what it may send is addressed by the same garbage.               *)
TouchesDead ==
  /\ sender.pc \notin {"idle", "halted"}
  /\ \/ Touched \in freed
     \/ Touched = 0 /\ At("wait")
  /\ \E pc \in {"wait", "send", "idle", "halted"} : Goto(pc)
  /\ UNCHANGED <<socketData, created, tcb, arp, calls, accepted, nicVars, sent, peer>>

Sender ==
  \/ SocketSend \/ TcpSend \/ SynSend \/ SynCount \/ Wait
  \/ DataSend \/ DataCount \/ TouchesDead

-----------------------------------------------------------------------------
(* The peer and what it has sent                                            *)

Answered(k) == peer[k].state \notin {"listen", "refused"}

PeerSegment(k, kind, seq) ==
  [conn |-> k, kind |-> kind, seq |-> seq, ack |-> Number(Iss[k], 1),
   window |-> 0, pos |-> 0]

SynAck(k) == PeerSegment(k, "synack", Irs[k])

PeerByte(k, i) == [PeerSegment(k, "data", Number(Irs[k], i)) EXCEPT !.pos = i]

PeerEnd(k, kind) == PeerSegment(k, kind, Number(Irs[k], peer[k].written + 1))

(* The segments that may reach the kernel now, or again.                    *)
ToKernel ==
  UNION {
    {SynAck(k) : k \in {c \in Conns : Answered(c)}},
    UNION {{PeerByte(k, i) : i \in 1 .. peer[k].written} : k \in Conns},
    {PeerEnd(k, "fin") : k \in {c \in Conns : peer[c].state = "fin"}},
    {[PeerEnd(k, "rst") EXCEPT !.window = w] :
       k \in {c \in Conns : peer[c].state = "reset"}, w \in Windows},
    {PeerSegment(k, "rst", 0) : k \in {c \in Conns : peer[c].state = "refused"}}}

PeerGoes(k, state) == peer' = [peer EXCEPT ![k].state = state]

PeerKeeps ==
  UNCHANGED <<socketData, created, tcb, arp, senderVars, nicVars, sent>>

PeerAnswers(k) ==
  /\ peer[k].state = "listen"
  /\ \E s \in sent : s.conn = k /\ s.kind = "syn"
  /\ PeerGoes(k, "synRcvd") \/ PeerGoes(k, "refused")
  /\ PeerKeeps

PeerEstablishes(k) ==
  /\ peer[k].state = "synRcvd"
  /\ \E s \in sent : s.conn = k /\ s.kind # "syn" /\ s.ack = Number(Irs[k], 1)
  /\ PeerGoes(k, "established")
  /\ PeerKeeps

PeerWrites(k) ==
  /\ peer[k].state = "established"
  /\ peer[k].written < PeerData
  /\ peer' = [peer EXCEPT ![k].written = @ + 1]
  /\ PeerKeeps

PeerCloses(k) ==
  /\ peer[k].state = "established"
  /\ PeerGoes(k, "fin")
  /\ PeerKeeps

PeerAborts(k) ==
  /\ peer[k].state \in {"synRcvd", "established"}
  /\ PeerGoes(k, "reset")
  /\ PeerKeeps

Peer ==
  \E k \in Conns : PeerAnswers(k) \/ PeerEstablishes(k) \/ PeerWrites(k)
                    \/ PeerCloses(k) \/ PeerAborts(k)

-----------------------------------------------------------------------------
(* The nic thread: tcp_receive                                              *)

(* The socket has a block: a segment that finds none is dropped.            *)
Arrives(g) == nic = "poll" /\ socketData # 0 /\ g \in ToKernel

(* Acknowledge what block t has received by then.                           *)
Ack(t, kind, ack) == IpSend([Segment(t, "ack", ack, 0) EXCEPT !.kind = kind])

(* delete tcb; the null store is another step.                              *)
Delete(t) == freed' = freed \union {t} /\ nic' = "clear"

(* A FIN of any number ends the connection: it is counted, acknowledged and *)
(* the block deleted, and the sender may run before each of the three.      *)
ReceiveFin(g) ==
  /\ Arrives(g) /\ g.kind = "fin"
  /\ tcb' = [tcb EXCEPT ![socketData].rcvNxt = Number(@, 1)]
  /\ nic' = "finAck"
  /\ UNCHANGED <<socketData, created, arp, senderVars, freed, held, delivered, sent, peer>>

AckFin ==
  /\ nic = "finAck"
  /\ Ack(socketData, "finack", tcb[socketData].rcvNxt)
  /\ nic' = "close"
  /\ UNCHANGED <<socketData, created, tcb, senderVars, freed, held, delivered, peer>>

Close ==
  /\ nic = "close"
  /\ tcb' = [tcb EXCEPT ![socketData].state = "CLOSED"]
  /\ Delete(socketData)
  /\ UNCHANGED <<socketData, created, arp, senderVars, held, delivered, sent, peer>>

(* A RST inside the window the segment itself announces ends it as well.    *)
ReceiveRst(g) ==
  LET t == socketData IN
  /\ Arrives(g) /\ g.kind = "rst"
  /\ g.seq >= tcb[t].rcvNxt
  /\ g.seq < Number(tcb[t].rcvNxt, g.window)
  /\ tcb' = [tcb EXCEPT ![t].state = "CLOSED"]
  /\ Delete(t)
  /\ UNCHANGED <<socketData, created, arp, senderVars, held, delivered, sent, peer>>

(* Mutant: any SYN|ACK will do. *)
AnswersAny(g, t) == tcb[t].state = "SYN_SENT" /\ g.kind = "synack"

(* The answer to the SYN acknowledges the number after it.                  *)
AnswersSyn(g, t) ==
  /\ tcb[t].state = "SYN_SENT"
  /\ g.kind = "synack"
  /\ g.ack = tcb[t].sndNxt

ReceiveSynAck(g) ==
  LET t == socketData
      ack == Number(g.seq, 1) IN
  /\ Arrives(g) /\ AnswersSyn(g, t)
  /\ tcb' = [tcb EXCEPT ![t].rcvNxt = ack, ![t].state = "ESTABLISHED"]
  /\ Ack(t, "ack", ack)
  /\ UNCHANGED <<socketData, created, senderVars, nicVars, peer>>

Carries(g) ==
  Arrives(g) /\ g.kind = "data" /\ tcb[socketData].state = "ESTABLISHED"

(* Mutant: whatever comes is the next byte. *)
IsNextAny(g, t) == TRUE

IsNext(g, t) == g.seq = tcb[t].rcvNxt

(* The next byte: it is counted, the listener called, and the byte          *)
(* acknowledged.  What a sender that runs in between sends carries the new  *)
(* number.                                                                  *)
ReceiveData(g) ==
  /\ Carries(g) /\ IsNext(g, socketData)
  /\ tcb' = [tcb EXCEPT ![socketData].rcvNxt = Number(@, 1)]
  /\ nic' = "hear" /\ held' = <<g.conn, g.pos>>
  /\ UNCHANGED <<socketData, created, arp, senderVars, freed, delivered, sent, peer>>

Hear ==
  /\ nic = "hear"
  /\ delivered' = [delivered EXCEPT ![socketData] = Append(@, held)]
  /\ nic' = "ack" /\ held' = NoByte
  /\ UNCHANGED <<socketData, created, tcb, arp, senderVars, freed, sent, peer>>

AckData ==
  /\ nic = "ack"
  /\ Ack(socketData, "ack", tcb[socketData].rcvNxt)
  /\ nic' = "poll"
  /\ UNCHANGED <<socketData, created, tcb, senderVars, freed, held, delivered, peer>>

(* Mutant: an acknowledgement takes a number. *)
ReceiveOutOfOrderNumbered(g) ==
  LET t == socketData IN
  /\ Carries(g) /\ ~IsNext(g, t)
  /\ tcb' = [tcb EXCEPT ![t].sndNxt = Number(@, 1)]
  /\ Ack(t, "ack", tcb[t].rcvNxt)
  /\ UNCHANGED <<socketData, created, senderVars, nicVars, peer>>

(* Mutant: a byte out of order moves rcv_nxt although it is dropped. *)
ReceiveOutOfOrderCounts(g) ==
  LET t == socketData
      ack == Number(tcb[t].rcvNxt, 1) IN
  /\ Carries(g) /\ ~IsNext(g, t)
  /\ tcb' = [tcb EXCEPT ![t].rcvNxt = ack]
  /\ Ack(t, "ack", ack)
  /\ UNCHANGED <<socketData, created, senderVars, nicVars, peer>>

(* Any other byte is dropped and what came so far acknowledged again.       *)
ReceiveOutOfOrder(g) ==
  LET t == socketData IN
  /\ Carries(g) /\ ~IsNext(g, t)
  /\ Ack(t, "ack", tcb[t].rcvNxt)
  /\ UNCHANGED <<socketData, created, tcb, senderVars, nicVars, peer>>

Clear ==
  /\ nic = "clear"
  /\ nic' = "poll"
  /\ socketData' = 0
  /\ UNCHANGED <<created, tcb, arp, senderVars, freed, held, delivered, sent, peer>>

(* ip_receive hands the segment to tcp_receive.  It would also enter the    *)
(* sender of the packet in the table of addresses, where it is already: no  *)
(* segment of the peer comes before one has been sent to it.                *)
Receive(g) ==
  ReceiveFin(g) \/ ReceiveRst(g) \/ ReceiveSynAck(g) \/ ReceiveData(g)
  \/ ReceiveOutOfOrder(g)

(* What tcp_receive has still to do for the segment it has begun.           *)
GoesOn == AckFin \/ Close \/ Clear \/ Hear \/ AckData

Nic == GoesOn \/ \E g \in ToKernel : Receive(g)

Next == Sender \/ Nic \/ ArpReply \/ Peer

Spec == Init /\ [][Next]_vars

(* Both threads are scheduled again and again (VThread, EveryThreadRuns),   *)
(* and a peer that waits for the end of the handshake repeats its SYN|ACK.  *)
RepeatedSynAck(k) == peer[k].state = "synRcvd" /\ ReceiveSynAck(SynAck(k))

FairSpec ==
  /\ Spec
  /\ WF_vars(Sender)
  /\ WF_vars(GoesOn)
  /\ \A k \in Conns : SF_vars(RepeatedSynAck(k))

-----------------------------------------------------------------------------
(* Properties                                                               *)

States == {"CLOSED", "OPENED", "SYN_SENT", "ESTABLISHED"}
Numbers == 0 .. Space - 1
Segments == [conn : Conns, kind : {"syn", "ack", "finack", "data"},
             seq : Numbers, ack : Numbers, byte : 0 .. MaxSend]

(* Every variable has the values the code can give it.                      *)
TypeOK ==
  /\ socketData \in 0 .. created
  /\ created \in 0 .. MaxConn
  /\ tcb \in [Conns -> [state : States, sndNxt : Numbers, rcvNxt : Numbers]]
  /\ freed \subseteq 1 .. created
  /\ arp \in {"unknown", "asked", "known"}
  /\ sender \in [pc : {"idle", "connect", "syn", "synCount", "wait", "send",
                       "data", "dataCount", "halted"},
                 tcb : 0 .. created, byte : 0 .. MaxSend]
  /\ calls \in 0 .. MaxSend
  /\ nic \in {"poll", "finAck", "close", "clear", "hear", "ack"}
  /\ held \in (Conns \X (1 .. PeerData)) \union {NoByte}
  /\ sent \subseteq Segments
  /\ accepted \in [Conns -> Seq(0 .. MaxSend)]
  /\ peer \in [Conns -> [state : {"listen", "refused", "synRcvd", "established",
                                  "fin", "reset"},
                         written : 0 .. PeerData]]
  /\ delivered \in [Conns -> Seq(Conns \X (1 .. PeerData))]

Written == [k \in Conns |-> peer[k].written]

(* The listener of the socket hears a byte stream: of each connection what  *)
(* the peer wrote, in order, without a gap and without a repeat, whatever   *)
(* the network does and whatever is left over from earlier connections.     *)
Stream == INSTANCE ByteStream WITH written <- Written, read <- delivered

IsByteStream == Stream!Spec

ReadOf(k) == Len(delivered[k])

(* The bytes tcp_send took are on the wire under consecutive numbers from   *)
(* the one after the SYN, although the nic thread sends acknowledgements    *)
(* between the moment a byte goes out and the moment it is counted: no      *)
(* number stands for two bytes and none is left out.                        *)
SentInOrder ==
  \A k \in Conns :
    LET count == Len(accepted[k])
        data == {<<s.seq, s.byte>> : s \in {t \in sent : t.conn = k /\ t.kind = "data"}}
        counted == {<<Number(Iss[k], i), accepted[k][i]>> : i \in 1 .. count}
    IN  /\ counted \subseteq data
        /\ \A d, e \in data \ counted :
             /\ d = e
             /\ d[1] = Number(Iss[k], count + 1)
             /\ k \in freed \/ (At("dataCount") /\ sender.tcb = k)

(* The byte between its count and the listener, and a FIN between its count *)
(* and the end of the block.                                                *)
InHand(k) == nic = "hear" /\ socketData = k
Closing(k) == nic \in {"finAck", "close"} /\ socketData = k
Ahead(k) == IF InHand(k) \/ Closing(k) THEN 1 ELSE 0

(* The kernel acknowledges only bytes its listener has heard: what the peer *)
(* forgets because of an acknowledgement is never missing at the listener.  *)
(* The exceptions are the one byte the nic thread is about to hand over,    *)
(* which a sender that preempts it acknowledges first; a FIN, which is      *)
(* acknowledged whatever is missing before it; and a byte sent from a block *)
(* that a FIN is closing or has deleted.                                    *)
AcksOnlyDelivered ==
  \A s \in sent :
    \/ s.kind \in {"syn", "finack"}
    \/ s.kind = "data" /\ (s.conn \in freed \/ Closing(s.conn))
    \/ \E n \in 0 .. ReadOf(s.conn) : s.ack = Number(Irs[s.conn], n + 1)
    \/ InHand(s.conn) /\ s.ack = Number(Irs[s.conn], ReadOf(s.conn) + 2)

(* Whenever a connection counts as established, the peer has answered the   *)
(* SYN of this very connection, and both agree on the next byte, but for    *)
(* what the nic thread is counting: answers to an earlier connection, which *)
(* may still arrive, establish nothing.                                     *)
EstablishedAgreed ==
  \A k \in Conns : tcb[k].state = "ESTABLISHED" =>
    Answered(k) /\ tcb[k].rcvNxt = Number(Irs[k], ReadOf(k) + 1 + Ahead(k))

(* A sender that waits on a connection the peer has answered goes on,       *)
(* although a SYN|ACK that comes before the SYN is counted is dropped: that *)
(* the peer repeats it is enough.                                           *)
HandshakeCompletes ==
  \A k \in Conns :
    (At("wait") /\ socketData = k /\ peer[k].state = "synRcvd")
      ~> ~(At("wait") /\ socketData = k /\ peer[k].state = "synRcvd")
=============================================================================
