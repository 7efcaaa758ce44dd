----------------------------- MODULE Tcp_proofs -----------------------------
(***************************************************************************)
(* For every size of the number space, every choice of initial numbers that *)
(* keeps the numbers in use apart, and any number of connections, calls and *)
(* bytes: the listener hears a byte stream, the kernel acknowledges only    *)
(* what the listener has heard, established means that the peer agreed, and *)
(* what is sent goes out under consecutive numbers.                         *)
(***************************************************************************)
EXTENDS Tcp, SequenceTheorems, TLAPS

(* How far each block is, by its state.                                     *)
ConnInv ==
  \A k \in Conns :
    /\ ReadOf(k) \in 0 .. peer[k].written
    /\ k > created => tcb[k].state = "CLOSED" /\ ReadOf(k) = 0
    /\ k \in 1 .. created /\ tcb[k].state = "CLOSED" => k \in freed
    /\ tcb[k].state = "OPENED" => tcb[k].sndNxt = Number(Iss[k], 0)
    /\ tcb[k].state \in {"OPENED", "SYN_SENT"} =>
         /\ ReadOf(k) = 0
         /\ tcb[k].sndNxt \in {Number(Iss[k], 0), Number(Iss[k], 1)}
    /\ tcb[k].state = "ESTABLISHED" =>
         Answered(k) /\ tcb[k].rcvNxt = Number(Irs[k], ReadOf(k) + 1 + Ahead(k))

(* What the sender knows of the block it holds.                             *)
SenderInv ==
  LET k == sender.tcb IN
  /\ sender.pc \in {"syn", "synCount", "data", "dataCount"} => k \in 1 .. created
  /\ sender.pc \in {"syn", "synCount"} =>
       /\ tcb[k].sndNxt = Number(Iss[k], 0)
       /\ tcb[k].state # "ESTABLISHED"
       /\ ReadOf(k) = 0
  /\ sender.pc = "synCount" => tcb[k].state # "OPENED"
  /\ sender.pc \in {"data", "dataCount"} => tcb[k].state \in {"ESTABLISHED", "CLOSED"}

(* The socket holds the youngest block.                                     *)
SocketInv == socketData \in {0, created}

(* The nic thread works on a block the socket has, hands over the byte the  *)
(* listener lacks, and acknowledges a block that is established.            *)
NicInv ==
  LET t == socketData IN
  /\ t = 0 => nic = "poll"
  /\ nic \in {"hear", "ack"} => tcb[t].state = "ESTABLISHED"
  /\ nic = "hear" => held = <<t, ReadOf(t) + 1>> /\ ReadOf(t) < peer[t].written

IInv == TypeOK /\ ConnInv /\ SenderInv /\ SocketInv /\ NicInv

-----------------------------------------------------------------------------
(* Arithmetic                                                               *)

LEMMA Bounds ==
  /\ Space \in Nat \ {0} /\ MaxConn \in Nat
  /\ MaxSend \in Nat /\ MaxSend + 2 <= Space
  /\ PeerData \in Nat /\ PeerData + 2 <= Space
  /\ Iss \in [Conns -> Numbers] /\ Irs \in [Conns -> Numbers]
  BY NumbersAssumption DEF Numbers

LEMMA Wrap ==
  ASSUME NEW b \in Numbers, NEW j \in 0 .. Space
  PROVE  /\ Number(b, j) = IF b + j < Space THEN b + j ELSE b + j - Space
         /\ Number(b, j) \in Numbers
  <1> USE Bounds DEF Number, Numbers
  <1>1. CASE b + j < Space
    BY <1>1
  <1>2. CASE ~(b + j < Space)
    <2> DEFINE r == b + j - Space
    <2>1. r \in 0 .. Space - 1
      BY <1>2
    <2>2. (r + Space) % Space = r
      BY <2>1
    <2>3. b + j = r + Space
      OBVIOUS
    <2> QED
      BY <1>2, <2>1, <2>2, <2>3
  <1> QED
    BY <1>1, <1>2

(* One more is one more.                                                    *)
LEMMA NumberNext ==
  ASSUME NEW b \in Numbers, NEW j \in 0 .. Space - 1
  PROVE  Number(Number(b, j), 1) = Number(b, j + 1)
  <1> DEFINE c == Number(b, j)
  <1>1. j \in 0 .. Space /\ j + 1 \in 0 .. Space /\ 1 \in 0 .. Space
    BY Bounds
  <1>2. c \in Numbers /\ c = IF b + j < Space THEN b + j ELSE b + j - Space
    BY <1>1, Wrap
  <1>3. Number(b, j + 1) = IF b + (j + 1) < Space THEN b + (j + 1) ELSE b + (j + 1) - Space
    BY <1>1, Wrap
  <1> HIDE DEF c
  <1>4. Number(c, 1) = IF c + 1 < Space THEN c + 1 ELSE c + 1 - Space
    BY <1>1, <1>2, Wrap
  <1>5. Number(c, 1) = Number(b, j + 1)
    BY <1>2, <1>3, <1>4, Bounds DEF Numbers
  <1> QED
    BY <1>5 DEF c

LEMMA NumberZero ==
  ASSUME NEW b \in Numbers
  PROVE  Number(b, 0) = b
  BY Bounds DEF Number, Numbers

(* The numbers of a connection are numbers.                                 *)
LEMMA InitialNumbers ==
  ASSUME NEW k \in Conns
  PROVE  /\ Iss[k] \in Numbers /\ Irs[k] \in Numbers
         /\ \A j \in 0 .. MaxSend + 1 : Number(Iss[k], j) \in Numbers
         /\ \A j \in 0 .. PeerData + 1 : Number(Irs[k], j) \in Numbers
  <1>1. Iss[k] \in Numbers /\ Irs[k] \in Numbers
    BY Bounds DEF Numbers
  <1>2. \A j \in 0 .. MaxSend + 1 : j \in 0 .. Space
    BY Bounds
  <1>3. \A j \in 0 .. PeerData + 1 : j \in 0 .. Space
    BY Bounds
  <1> QED
    BY <1>1, <1>2, <1>3, Wrap

LEMMA InitIInv == Init => IInv
  <1> SUFFICES ASSUME Init PROVE IInv
    OBVIOUS
  <1>1. TypeOK
    BY Bounds DEF Init, TypeOK, Numbers, States
  <1>2. \A k \in Conns : ReadOf(k) = 0
    BY DEF Init, ReadOf
  <1>3. ConnInv
    BY <1>2, Bounds DEF Init, ConnInv, Conns
  <1> QED
    BY <1>1, <1>3 DEF Init, IInv, SenderInv, SocketInv, NicInv

-----------------------------------------------------------------------------
(* The way down                                                             *)

LEMMA SegmentType ==
  ASSUME TypeOK, NEW k \in Conns, NEW kind \in {"syn", "ack", "finack", "data"},
         NEW ack \in Numbers, NEW byte \in 0 .. MaxSend
  PROVE  Segment(k, kind, ack, byte) \in Segments
  BY DEF TypeOK, Segment, Segments

LEMMA IpSendType ==
  ASSUME TypeOK, NEW s \in Segments, IpSend(s)
  PROVE  /\ sent' \subseteq Segments
         /\ arp' \in {"unknown", "asked", "known"}
         /\ sent' \subseteq sent \union {s}
  BY DEF TypeOK, IpSend

(* What a segment of the peer can be.                                       *)
LEMMA Incoming ==
  ASSUME TypeOK, NEW g \in ToKernel
  PROVE  /\ g.conn \in Conns
         /\ g.kind = "synack" => /\ Answered(g.conn)
                                 /\ g.seq = Irs[g.conn]
                                 /\ g.ack = Number(Iss[g.conn], 1)
         /\ g.kind = "data" => /\ g.pos \in 1 .. peer[g.conn].written
                               /\ g.seq = Number(Irs[g.conn], g.pos)
  <1> DEFINE A == {SynAck(k) : k \in {c \in Conns : Answered(c)}}
             B == UNION {{PeerByte(k, i) : i \in 1 .. peer[k].written} : k \in Conns}
             C == {PeerEnd(k, "fin") : k \in {c \in Conns : peer[c].state = "fin"}}
             D == {[PeerEnd(k, "rst") EXCEPT !.window = w] :
                     k \in {c \in Conns : peer[c].state = "reset"}, w \in Windows}
             E == {PeerSegment(k, "rst", 0) : k \in {c \in Conns : peer[c].state = "refused"}}
  <1>1. g \in A \/ g \in B \/ g \in C \/ g \in D \/ g \in E
    BY DEF ToKernel
  <1>2. CASE g \in A
    <2>1. PICK k \in Conns : Answered(k) /\ g = SynAck(k)
      BY <1>2
    <2> QED
      BY <2>1 DEF SynAck, PeerSegment
  <1>3. CASE g \in B
    <2>1. PICK k \in Conns : g \in {PeerByte(k, i) : i \in 1 .. peer[k].written}
      BY <1>3
    <2>2. PICK i \in 1 .. peer[k].written : g = PeerByte(k, i)
      BY <2>1
    <2> QED
      BY <2>2 DEF PeerByte, PeerSegment
  <1>4. CASE g \in C
    BY <1>4 DEF PeerEnd, PeerSegment
  <1>5. CASE g \in D
    <2>1. PICK k \in Conns, w \in Windows : g = [PeerEnd(k, "rst") EXCEPT !.window = w]
      BY <1>5
    <2>2. g.kind = "rst" /\ g.conn = k
      BY <2>1 DEF PeerEnd, PeerSegment
    <2> QED
      BY <2>2
  <1>6. CASE g \in E
    BY <1>6 DEF PeerSegment
  <1> HIDE DEF A, B, C, D, E
  <1> QED
    BY <1>1, <1>2, <1>3, <1>4, <1>5, <1>6

-----------------------------------------------------------------------------
(* The sender's steps                                                       *)

LEMMA SocketSendIInv == IInv /\ SocketSend => IInv'
  <1> SUFFICES ASSUME IInv, SocketSend PROVE IInv'
    OBVIOUS
  <1> USE DEF IInv
  <1>1. /\ \A k : ReadOf(k)' = ReadOf(k) /\ Ahead(k)' = Ahead(k)
        /\ \A k : Answered(k)' = Answered(k)
        /\ UNCHANGED <<arp, accepted, freed, nic, held, delivered, sent, peer>>
        /\ sender.pc = "idle" /\ sender'.tcb = sender.tcb
        /\ sender'.pc \in {"connect", "wait"}
    BY DEF SocketSend, NicInv, ReadOf, Answered, Ahead, InHand, Closing, nicVars, At, TypeOK
  <1>2. CASE socketData = 0
    <2> DEFINE n == created + 1
    <2>1. /\ n \in Conns /\ created' = n /\ socketData' = n
          /\ calls' = calls + 1 /\ calls + 1 \in 0 .. MaxSend
          /\ tcb' = [tcb EXCEPT ![n] = [state |-> "OPENED", sndNxt |-> Iss[n], rcvNxt |-> 0]]
          /\ sender' = [sender EXCEPT !.pc = "connect", !.byte = calls + 1]
      <3>1. /\ created < MaxConn /\ created' = n /\ socketData' = n
            /\ tcb' = [tcb EXCEPT ![n] = [state |-> "OPENED", sndNxt |-> Iss[n], rcvNxt |-> 0]]
            /\ sender' = [sender EXCEPT !.pc = "connect", !.byte = calls + 1]
        BY <1>2 DEF SocketSend
      <3>2. calls < MaxSend /\ calls' = calls + 1
        BY DEF SocketSend
      <3>3. created \in 0 .. MaxConn /\ calls \in 0 .. MaxSend
        BY DEF TypeOK
      <3>4. n \in Conns
        BY <3>1, <3>3, Bounds DEF Conns
      <3>5. calls + 1 \in 0 .. MaxSend
        BY <3>2, <3>3, Bounds
      <3> QED
        BY ONLY <3>1, <3>2, <3>4, <3>5
    <2>2. Iss[n] \in Numbers /\ 0 \in Numbers
      BY <2>1, Bounds, InitialNumbers DEF Numbers
    <2>3. TypeOK'
      <3>1. tcb' \in [Conns -> [state : States, sndNxt : Numbers, rcvNxt : Numbers]]
        BY <2>1, <2>2 DEF TypeOK, States
      <3>2. sender' \in [pc : {"idle", "connect", "syn", "synCount", "wait", "send",
                             "data", "dataCount", "halted"},
                       tcb : 0 .. created', byte : 0 .. MaxSend]
        <4>1. sender.tcb \in 0 .. created' /\ calls + 1 \in 0 .. MaxSend
          BY <2>1, Bounds DEF TypeOK
        <4> QED
          BY <2>1, <4>1 DEF TypeOK
      <3>3. /\ created' \in 0 .. MaxConn /\ socketData' \in 0 .. created'
            /\ freed' \subseteq 1 .. created'
        <4>1. freed' \subseteq 1 .. created /\ created \in 0 .. MaxConn
          BY <1>1 DEF TypeOK
        <4>2. n \in 1 .. MaxConn
          BY <2>1 DEF Conns
        <4> QED
          BY <2>1, <4>1, <4>2, Bounds
      <3> QED
        BY <1>1, <2>1, <3>1, <3>2, <3>3 DEF TypeOK
    <2>4. ConnInv'
      <3> SUFFICES ASSUME NEW k \in Conns PROVE ConnInv!(k)'
        BY DEF ConnInv
      <3>1. CASE k = n
        <4>1. ReadOf(k) = 0 /\ Iss[n] = Number(Iss[n], 0)
          BY <2>1, <2>2, <3>1, NumberZero DEF ConnInv, TypeOK
        <4> QED
          BY <1>1, <2>1, <3>1, <4>1 DEF ConnInv, TypeOK
      <3>2. CASE k # n
        <4>1. tcb'[k] = tcb[k] /\ (k > created' => k > created)
              /\ (k \in 1 .. created' => k \in 1 .. created)
          <5>1. tcb'[k] = tcb[k]
            BY <2>1, <3>2 DEF TypeOK
          <5>2. created \in Nat /\ k \in Nat /\ created' = created + 1 /\ k # created + 1
            BY <2>1, <3>2, Bounds DEF TypeOK, Conns
          <5> QED
            BY ONLY <5>1, <5>2
        <4> QED
          BY <1>1, <4>1 DEF ConnInv
      <3> QED
        BY <3>1, <3>2
    <2>5. SenderInv' /\ SocketInv' /\ NicInv'
      BY <1>1, <1>2, <2>1, Bounds DEF SenderInv, SocketInv, NicInv, TypeOK
    <2> QED
      BY <2>3, <2>4, <2>5
  <1>3. CASE socketData # 0
    <2>1. /\ UNCHANGED <<socketData, created, tcb>>
          /\ calls' = calls + 1 /\ calls + 1 \in 0 .. MaxSend
          /\ sender' = [sender EXCEPT !.pc = "wait", !.byte = calls + 1]
      BY <1>3, Bounds DEF SocketSend, TypeOK
    <2>2. TypeOK'
      BY <1>1, <2>1 DEF TypeOK
    <2>3. ConnInv'
      BY <1>1, <2>1 DEF ConnInv
    <2> QED
      BY <1>1, <2>1, <2>2, <2>3 DEF SenderInv, SocketInv, NicInv, TypeOK
  <1> QED
    BY <1>2, <1>3

LEMMA TcpSendIInv == IInv /\ TcpSend => IInv'
  <1> SUFFICES ASSUME IInv, TcpSend PROVE IInv'
    OBVIOUS
  <1> USE DEF IInv
  <1>1. /\ \A k : ReadOf(k)' = ReadOf(k) /\ Ahead(k)' = Ahead(k)
        /\ \A k : Answered(k)' = Answered(k)
        /\ UNCHANGED <<socketData, created, tcb, arp, calls, accepted, freed, nic, held,
                        delivered, sent, peer>>
        /\ sender'.tcb = socketData /\ sender'.pc \in {"idle", "syn", "data"}
        /\ sender'.byte = sender.byte
        /\ sender' \in [pc : {"idle", "connect", "syn", "synCount", "wait", "send",
                             "data", "dataCount", "halted"},
                       tcb : 0 .. created, byte : 0 .. MaxSend]
        /\ sender'.pc = "syn" => socketData # 0 /\ tcb[socketData].state = "OPENED"
        /\ sender'.pc = "data" => socketData # 0 /\ tcb[socketData].state = "ESTABLISHED"
    BY DEF TcpSend, ReadOf, Answered, Ahead, InHand, Closing, nicVars, TypeOK
  <1>2. socketData # 0 => socketData \in Conns /\ socketData \in 1 .. created
    BY Bounds DEF TypeOK, Conns
  <1>3. TypeOK'
    BY <1>1 DEF TypeOK
  <1>4. ConnInv'
    BY <1>1 DEF ConnInv
  <1>5. SenderInv'
    BY <1>1, <1>2 DEF SenderInv, ConnInv
  <1> QED
    BY <1>1, <1>3, <1>4, <1>5 DEF SocketInv, NicInv

(* A block changes its state, its number, or both; the others stay.         *)
LEMMA BlockChanges ==
  ASSUME TypeOK, NEW k \in Conns, NEW x \in States, NEW n \in Numbers,
         \/ tcb' = [tcb EXCEPT ![k].state = x] /\ n = tcb[k].rcvNxt
         \/ tcb' = [tcb EXCEPT ![k].rcvNxt = n] /\ x = tcb[k].state
         \/ tcb' = [tcb EXCEPT ![k].rcvNxt = n, ![k].state = x]
  PROVE  /\ tcb' \in [Conns -> [state : States, sndNxt : Numbers, rcvNxt : Numbers]]
         /\ tcb'[k].state = x /\ tcb'[k].sndNxt = tcb[k].sndNxt /\ tcb'[k].rcvNxt = n
         /\ \A c \in Conns : c # k => tcb'[c] = tcb[c]
  <1>1. tcb \in [Conns -> [state : States, sndNxt : Numbers, rcvNxt : Numbers]]
    BY DEF TypeOK
  <1>2. tcb' = [tcb EXCEPT ![k] = [tcb[k] EXCEPT !.state = x, !.rcvNxt = n]]
    BY <1>1
  <1> DEFINE new == [tcb[k] EXCEPT !.state = x, !.rcvNxt = n]
  <1>3. /\ new \in [state : States, sndNxt : Numbers, rcvNxt : Numbers]
        /\ new.state = x /\ new.sndNxt = tcb[k].sndNxt /\ new.rcvNxt = n
    BY <1>1
  <1> HIDE DEF new
  <1>4. tcb' = [tcb EXCEPT ![k] = new]
    BY <1>2 DEF new
  <1> QED
    BY <1>1, <1>3, <1>4

LEMMA NumberChanges ==
  ASSUME TypeOK, NEW k \in Conns, NEW n \in Numbers, tcb' = [tcb EXCEPT ![k].rcvNxt = n]
  PROVE  /\ tcb' \in [Conns -> [state : States, sndNxt : Numbers, rcvNxt : Numbers]]
         /\ tcb'[k].state = tcb[k].state /\ tcb'[k].sndNxt = tcb[k].sndNxt /\ tcb'[k].rcvNxt = n
         /\ \A c \in Conns : c # k => tcb'[c] = tcb[c]
  <1>1. PICK x \in States : x = tcb[k].state
    BY DEF TypeOK
  <1> QED
    BY <1>1, BlockChanges

LEMMA SynSendIInv == IInv /\ SynSend => IInv'
  <1> SUFFICES ASSUME IInv, SynSend PROVE IInv'
    OBVIOUS
  <1> USE DEF IInv
  <1> DEFINE k == sender.tcb
             s == Segment(k, "syn", 0, 0)
  <1>1. /\ \A c : ReadOf(c)' = ReadOf(c) /\ Ahead(c)' = Ahead(c)
        /\ \A c : Answered(c)' = Answered(c)
        /\ UNCHANGED <<socketData, created, calls, accepted, freed, nic, held, delivered, peer>>
        /\ tcb' = [tcb EXCEPT ![k].state = "SYN_SENT"]
        /\ sender.pc = "syn" /\ sender'.tcb = k
        /\ sender'.pc \in {"synCount", "idle"}
        /\ sender' \in [pc : {"idle", "connect", "syn", "synCount", "wait", "send",
                             "data", "dataCount", "halted"},
                       tcb : 0 .. created, byte : 0 .. MaxSend]
        /\ IpSend(s)
    BY DEF SynSend, ReadOf, Answered, Ahead, InHand, Closing, nicVars, At, Goto, TypeOK
  <1>2. k \in 1 .. created /\ k \in Conns
    BY <1>1, Bounds DEF SenderInv, TypeOK, Conns
  <1>3. /\ tcb' \in [Conns -> [state : States, sndNxt : Numbers, rcvNxt : Numbers]]
        /\ tcb'[k].state = "SYN_SENT" /\ tcb'[k].sndNxt = tcb[k].sndNxt
        /\ \A c \in Conns : c # k => tcb'[c] = tcb[c]
    <2>1. "SYN_SENT" \in States /\ tcb[k].rcvNxt \in Numbers
      BY <1>2 DEF TypeOK, States
    <2> QED
      BY <1>1, <1>2, <2>1, BlockChanges
  <1>4. s \in Segments
    BY <1>2, SegmentType, Bounds DEF Numbers
  <1> HIDE DEF s, k
  <1>5. TypeOK'
    BY <1>1, <1>3, <1>4, IpSendType DEF TypeOK
  <1>6. /\ tcb[k].sndNxt = Number(Iss[k], 0) /\ ReadOf(k) = 0
    BY <1>1 DEF SenderInv, k
  <1>7. ConnInv'
    <2> SUFFICES ASSUME NEW c \in Conns PROVE ConnInv!(c)'
      BY DEF ConnInv
    <2>1. CASE c = k
      BY <1>1, <1>2, <1>3, <1>6, <2>1 DEF ConnInv, TypeOK
    <2>2. CASE c # k
      BY <1>1, <1>3, <2>2 DEF ConnInv
    <2> QED
      BY <2>1, <2>2
  <1>8. SenderInv'
    BY <1>1, <1>2, <1>3, <1>6 DEF SenderInv
  <1>9. NicInv'
    <2>1. nic \in {"hear", "ack"} => socketData # k /\ socketData \in Conns
      <3>1. tcb[k].state # "ESTABLISHED"
        BY <1>1 DEF SenderInv, k
      <3>2. nic # "poll" => socketData \in Conns
        BY Bounds DEF NicInv, TypeOK, Conns
      <3> QED
        BY <3>1, <3>2 DEF NicInv
    <2> QED
      BY <1>1, <1>3, <2>1 DEF NicInv
  <1> QED
    BY <1>1, <1>5, <1>7, <1>8, <1>9 DEF SocketInv

LEMMA DataSendIInv == IInv /\ DataSend => IInv'
  <1> SUFFICES ASSUME IInv, DataSend PROVE IInv'
    OBVIOUS
  <1> USE DEF IInv
  <1> DEFINE k == sender.tcb
             s == Segment(k, "data", tcb[k].rcvNxt, sender.byte)
  <1>1. /\ \A c : ReadOf(c)' = ReadOf(c) /\ Ahead(c)' = Ahead(c)
        /\ \A c : Answered(c)' = Answered(c)
        /\ UNCHANGED <<socketData, created, tcb, calls, accepted, freed, nic, held, delivered, peer>>
        /\ sender.pc = "data" /\ sender'.tcb = k
        /\ sender'.pc \in {"dataCount", "idle"}
        /\ sender' \in [pc : {"idle", "connect", "syn", "synCount", "wait", "send",
                             "data", "dataCount", "halted"},
                       tcb : 0 .. created, byte : 0 .. MaxSend]
        /\ IpSend(s)
    BY DEF DataSend, ReadOf, Answered, Ahead, InHand, Closing, nicVars, At, Goto, TypeOK
  <1>2. k \in 1 .. created /\ k \in Conns
    BY <1>1, Bounds DEF SenderInv, TypeOK, Conns
  <1>3. s \in Segments
    BY <1>2, SegmentType DEF TypeOK
  <1> HIDE DEF s
  <1>4. TypeOK'
    BY <1>1, <1>3, IpSendType DEF TypeOK
  <1>5. ConnInv'
    BY <1>1 DEF ConnInv
  <1>6. SenderInv'
    BY <1>1 DEF SenderInv
  <1> QED
    BY <1>1, <1>4, <1>5, <1>6 DEF SocketInv, NicInv

(* A count moves the number of a block on by one.                           *)
LEMMA CountedIs ==
  ASSUME TypeOK, NEW k \in Conns
  PROVE  /\ Counted(k) \in [Conns -> [state : States, sndNxt : Numbers, rcvNxt : Numbers]]
         /\ Counted(k)[k].sndNxt = Number(tcb[k].sndNxt, 1)
         /\ Counted(k)[k].state = tcb[k].state /\ Counted(k)[k].rcvNxt = tcb[k].rcvNxt
         /\ \A c \in Conns : c # k => Counted(k)[c] = tcb[c]
  <1>1. tcb[k].sndNxt \in Numbers /\ 1 \in 0 .. Space
    BY Bounds DEF TypeOK
  <1>2. Number(tcb[k].sndNxt, 1) \in Numbers
    BY <1>1, Wrap
  <1> QED
    BY <1>2 DEF Counted, TypeOK

LEMMA SynCountIInv == IInv /\ SynCount => IInv'
  <1> SUFFICES ASSUME IInv, SynCount PROVE IInv'
    OBVIOUS
  <1> USE DEF IInv
  <1> DEFINE k == sender.tcb
  <1>1. /\ \A c : ReadOf(c)' = ReadOf(c) /\ Ahead(c)' = Ahead(c)
        /\ \A c : Answered(c)' = Answered(c)
        /\ UNCHANGED <<socketData, created, arp, calls, accepted, freed, nic, held, delivered,
                        sent, peer>>
        /\ tcb' = Counted(k)
        /\ sender.pc = "synCount" /\ sender'.tcb = k /\ sender'.pc = "wait"
        /\ sender' \in [pc : {"idle", "connect", "syn", "synCount", "wait", "send",
                             "data", "dataCount", "halted"},
                       tcb : 0 .. created, byte : 0 .. MaxSend]
    BY DEF SynCount, ReadOf, Answered, Ahead, InHand, Closing, nicVars, At, Goto, TypeOK
  <1>2. k \in 1 .. created /\ k \in Conns
    BY <1>1, Bounds DEF SenderInv, TypeOK, Conns
  <1>3. /\ tcb' \in [Conns -> [state : States, sndNxt : Numbers, rcvNxt : Numbers]]
        /\ tcb'[k].sndNxt = Number(tcb[k].sndNxt, 1) /\ tcb'[k].state = tcb[k].state
        /\ \A c \in Conns : c # k => tcb'[c] = tcb[c]
    BY <1>1, <1>2, CountedIs
  <1> HIDE DEF k
  <1>4. TypeOK'
    BY <1>1, <1>3 DEF TypeOK
  <1>5. /\ tcb[k].sndNxt = Number(Iss[k], 0)
        /\ tcb[k].state \notin {"ESTABLISHED", "OPENED"}
    BY <1>1 DEF SenderInv, k
  <1>6. tcb'[k].sndNxt = Number(Iss[k], 1)
    <2>1. Iss[k] \in Numbers /\ 0 \in 0 .. Space - 1 /\ 0 + 1 = 1
      BY <1>2, InitialNumbers, Bounds
    <2>2. Number(Number(Iss[k], 0), 1) = Number(Iss[k], 0 + 1)
      BY <2>1, NumberNext
    <2> QED
      BY <1>3, <1>5, <2>1, <2>2
  <1>7. ConnInv'
    <2> SUFFICES ASSUME NEW c \in Conns PROVE ConnInv!(c)'
      BY DEF ConnInv
    <2>1. CASE c = k
      BY <1>1, <1>2, <1>3, <1>5, <1>6, <2>1 DEF ConnInv, TypeOK
    <2>2. CASE c # k
      BY <1>1, <1>3, <2>2 DEF ConnInv
    <2> QED
      BY <2>1, <2>2
  <1>9. NicInv'
    <2>1. \A c \in Conns : tcb'[c].state = tcb[c].state
      BY <1>3
    <2>2. nic # "poll" => socketData \in Conns
      BY Bounds DEF NicInv, TypeOK, Conns
    <2> QED
      BY <1>1, <2>1, <2>2 DEF NicInv
  <1> QED
    BY <1>1, <1>4, <1>7, <1>9 DEF SenderInv, SocketInv

LEMMA DataCountIInv == IInv /\ DataCount => IInv'
  <1> SUFFICES ASSUME IInv, DataCount PROVE IInv'
    OBVIOUS
  <1> USE DEF IInv
  <1> DEFINE k == sender.tcb
  <1>1. /\ \A c : ReadOf(c)' = ReadOf(c) /\ Ahead(c)' = Ahead(c)
        /\ \A c : Answered(c)' = Answered(c)
        /\ UNCHANGED <<socketData, created, arp, calls, freed, nic, held, delivered, sent, peer>>
        /\ tcb' = Counted(k)
        /\ accepted' = [accepted EXCEPT ![k] = Append(@, sender.byte)]
        /\ sender.pc = "dataCount" /\ sender'.tcb = k /\ sender'.pc = "idle"
        /\ sender' \in [pc : {"idle", "connect", "syn", "synCount", "wait", "send",
                             "data", "dataCount", "halted"},
                       tcb : 0 .. created, byte : 0 .. MaxSend]
    BY DEF DataCount, ReadOf, Answered, Ahead, InHand, Closing, nicVars, At, Goto, TypeOK
  <1>2. k \in 1 .. created /\ k \in Conns
    BY <1>1, Bounds DEF SenderInv, TypeOK, Conns
  <1>3. /\ tcb' \in [Conns -> [state : States, sndNxt : Numbers, rcvNxt : Numbers]]
        /\ tcb'[k].state = tcb[k].state /\ tcb'[k].rcvNxt = tcb[k].rcvNxt
        /\ \A c \in Conns : c # k => tcb'[c] = tcb[c]
    BY <1>1, <1>2, CountedIs
  <1>4. sender.byte \in 0 .. MaxSend /\ accepted[k] \in Seq(0 .. MaxSend)
    BY <1>2 DEF TypeOK
  <1>5. Append(accepted[k], sender.byte) \in Seq(0 .. MaxSend)
    BY <1>4
  <1>6. tcb[k].state \in {"ESTABLISHED", "CLOSED"}
    BY <1>1 DEF SenderInv
  <1> HIDE DEF k
  <1>7. TypeOK'
    BY <1>1, <1>2, <1>3, <1>5 DEF TypeOK
  <1>8. ConnInv'
    <2> SUFFICES ASSUME NEW c \in Conns PROVE ConnInv!(c)'
      BY DEF ConnInv
    <2>1. CASE c = k
      BY <1>1, <1>3, <1>6, <2>1 DEF ConnInv
    <2>2. CASE c # k
      BY <1>1, <1>3, <2>2 DEF ConnInv
    <2> QED
      BY <2>1, <2>2
  <1>9. NicInv'
    <2>1. \A c \in Conns : tcb'[c].state = tcb[c].state
      BY <1>3
    <2>2. nic # "poll" => socketData \in Conns
      BY Bounds DEF NicInv, TypeOK, Conns
    <2> QED
      BY <1>1, <2>1, <2>2 DEF NicInv
  <1> QED
    BY <1>1, <1>7, <1>8, <1>9 DEF SenderInv, SocketInv

(* Steps of the sender that move it to a place where it holds no block.     *)
LEMMA SenderMovesIInv == IInv /\ (Wait \/ TouchesDead) => IInv'
  <1> SUFFICES ASSUME IInv, Wait \/ TouchesDead PROVE IInv'
    OBVIOUS
  <1> USE DEF IInv
  <1>1. \E pc \in {"wait", "send", "idle", "halted"} : sender' = [sender EXCEPT !.pc = pc]
    BY DEF Wait, TouchesDead, Goto
  <1>2. /\ \A c : ReadOf(c)' = ReadOf(c) /\ Ahead(c)' = Ahead(c)
        /\ \A c : Answered(c)' = Answered(c)
        /\ UNCHANGED <<socketData, created, tcb, arp, calls, accepted, freed, nic, held,
                        delivered, sent, peer>>
    BY DEF Wait, TouchesDead, ReadOf, Answered, Ahead, InHand, Closing, nicVars
  <1>3. /\ sender'.pc \in {"wait", "send", "idle", "halted"}
        /\ sender' \in [pc : {"idle", "connect", "syn", "synCount", "wait", "send",
                             "data", "dataCount", "halted"},
                       tcb : 0 .. created, byte : 0 .. MaxSend]
    BY <1>1 DEF TypeOK
  <1>4. TypeOK'
    BY <1>2, <1>3 DEF TypeOK
  <1>5. ConnInv'
    BY <1>2 DEF ConnInv
  <1> QED
    BY <1>2, <1>3, <1>4, <1>5 DEF SenderInv, SocketInv, NicInv

-----------------------------------------------------------------------------
(* The steps of the peer and of the address table                           *)

LEMMA ArpReplyIInv == IInv /\ ArpReply => IInv'
  <1> SUFFICES ASSUME IInv, ArpReply PROVE IInv'
    OBVIOUS
  <1> USE DEF IInv
  <1>1. /\ \A c : ReadOf(c)' = ReadOf(c) /\ Ahead(c)' = Ahead(c)
        /\ \A c : Answered(c)' = Answered(c)
        /\ UNCHANGED <<socketData, created, tcb, sender, calls, accepted, freed, nic, held,
                        delivered, sent, peer>>
        /\ arp' = "known"
    BY DEF ArpReply, ReadOf, Answered, Ahead, InHand, Closing, nicVars, senderVars
  <1>2. TypeOK'
    BY <1>1 DEF TypeOK
  <1>3. ConnInv'
    BY <1>1 DEF ConnInv
  <1> QED
    BY <1>1, <1>2, <1>3 DEF SenderInv, SocketInv, NicInv

(* What the peer has answered it has answered, what it wrote it wrote.      *)
LEMMA PeerIs ==
  ASSUME TypeOK, Peer
  PROVE  /\ peer' \in [Conns -> [state : {"listen", "refused", "synRcvd", "established",
                                         "fin", "reset"},
                                written : 0 .. PeerData]]
         /\ \A c \in Conns : /\ Answered(c) => Answered(c)'
                             /\ peer[c].written <= peer'[c].written
         /\ UNCHANGED <<socketData, created, tcb, arp, sender, calls, accepted, freed, nic, held,
                         delivered, sent>>
  <1>1. PICK k \in Conns : \/ PeerAnswers(k) \/ PeerEstablishes(k) \/ PeerWrites(k)
                           \/ PeerCloses(k) \/ PeerAborts(k)
    BY DEF Peer
  <1>2. UNCHANGED <<socketData, created, tcb, arp, sender, calls, accepted, freed, nic, held,
                    delivered, sent>>
    BY <1>1 DEF PeerAnswers, PeerEstablishes, PeerWrites, PeerCloses, PeerAborts,
                PeerKeeps, senderVars, nicVars
  <1>3. CASE PeerWrites(k)
    <2>1. peer' = [peer EXCEPT ![k].written = @ + 1] /\ peer[k].written + 1 \in 0 .. PeerData
      BY <1>3, Bounds DEF PeerWrites, TypeOK
    <2>2. \A c \in Conns : /\ peer'[c].state = peer[c].state
                          /\ peer[c].written \in 0 .. PeerData
                          /\ peer'[c].written = IF c = k THEN peer[c].written + 1
                                                ELSE peer[c].written
      BY <2>1 DEF TypeOK
    <2>3. \A c \in Conns : /\ Answered(c) => Answered(c)'
                          /\ peer[c].written <= peer'[c].written
      BY <2>2, Bounds DEF Answered
    <2>4. peer' \in [Conns -> [state : {"listen", "refused", "synRcvd", "established",
                                      "fin", "reset"},
                             written : 0 .. PeerData]]
      BY <2>1 DEF TypeOK
    <2> QED
      BY <1>2, <2>3, <2>4
  <1>4. ASSUME NEW x \in {"refused", "synRcvd", "established", "fin", "reset"},
               peer' = [peer EXCEPT ![k].state = x],
               Answered(k) => x # "refused"
        PROVE  /\ peer' \in [Conns -> [state : {"listen", "refused", "synRcvd", "established",
                                                "fin", "reset"},
                                       written : 0 .. PeerData]]
               /\ \A c \in Conns : /\ Answered(c) => Answered(c)'
                                   /\ peer[c].written <= peer'[c].written
    <2>1. /\ \A c \in Conns : peer'[c].written = peer[c].written /\ peer[c].written \in Int
          /\ peer'[k].state = x
          /\ \A c \in Conns : c # k => peer'[c].state = peer[c].state
      <3>1. peer \in [Conns -> [state : {"listen", "refused", "synRcvd", "established",
                                        "fin", "reset"},
                               written : 0 .. PeerData]]
        BY DEF TypeOK
      <3> QED
        BY ONLY <1>4, <3>1, k \in Conns, Bounds
    <2>2. \A c \in Conns : /\ Answered(c) => Answered(c)'
                          /\ peer[c].written <= peer'[c].written
      BY <1>4, <2>1 DEF Answered
    <2>3. peer' \in [Conns -> [state : {"listen", "refused", "synRcvd", "established",
                                      "fin", "reset"},
                             written : 0 .. PeerData]]
      BY <1>4 DEF TypeOK
    <2> QED
      BY <2>2, <2>3
  <1>5. CASE PeerAnswers(k)
    BY <1>2, <1>4, <1>5 DEF PeerAnswers, PeerGoes, Answered
  <1>6. CASE PeerEstablishes(k) \/ PeerCloses(k) \/ PeerAborts(k)
    BY <1>2, <1>4, <1>6 DEF PeerEstablishes, PeerCloses, PeerAborts, PeerGoes
  <1> QED
    BY <1>1, <1>3, <1>5, <1>6

LEMMA PeerIInv == IInv /\ Peer => IInv'
  <1> SUFFICES ASSUME IInv, Peer PROVE IInv'
    OBVIOUS
  <1> USE DEF IInv
  <1>1. /\ peer' \in [Conns -> [state : {"listen", "refused", "synRcvd", "established",
                                         "fin", "reset"},
                                written : 0 .. PeerData]]
        /\ \A c \in Conns : /\ Answered(c) => Answered(c)'
                            /\ peer[c].written <= peer'[c].written
        /\ UNCHANGED <<socketData, created, tcb, arp, sender, calls, accepted, freed, nic, held,
                        delivered, sent>>
    BY PeerIs
  <1>2. \A c : ReadOf(c)' = ReadOf(c) /\ Ahead(c)' = Ahead(c)
    BY <1>1 DEF ReadOf, Ahead, InHand, Closing
  <1>3. TypeOK'
    BY <1>1 DEF TypeOK
  <1>4. ConnInv'
    <2> SUFFICES ASSUME NEW c \in Conns PROVE ConnInv!(c)'
      BY DEF ConnInv
    <2>1. ReadOf(c)' \in 0 .. peer'[c].written
      <3>1. peer[c].written \in 0 .. PeerData /\ peer'[c].written \in 0 .. PeerData
        BY <1>1 DEF TypeOK
      <3> QED
        BY <1>1, <1>2, <3>1, Bounds DEF ConnInv
    <2> QED
      BY <1>1, <1>2, <2>1 DEF ConnInv
  <1>5. NicInv'
    <2>1. nic # "poll" => socketData \in Conns
      BY Bounds DEF NicInv, TypeOK, Conns
    <2>2. \A c \in Conns : /\ peer[c].written \in Int /\ peer'[c].written \in Int
                          /\ ReadOf(c) \in Int
      BY <1>1 DEF TypeOK, ReadOf
    <2>3. \A c \in Conns : ReadOf(c) < peer[c].written => ReadOf(c)' < peer'[c].written
      BY <1>1, <1>2, <2>2
    <2> QED
      BY <1>1, <1>2, <2>1, <2>3 DEF NicInv
  <1> QED
    BY <1>1, <1>2, <1>3, <1>4, <1>5 DEF SenderInv, SocketInv

-----------------------------------------------------------------------------
(* The nic thread's steps                                                   *)

LEMMA ArrivesAt ==
  ASSUME TypeOK, SocketInv, NEW g, Arrives(g)
  PROVE  /\ socketData = created /\ created # 0
         /\ socketData \in Conns /\ socketData \in 1 .. created
  BY Bounds DEF TypeOK, SocketInv, Arrives, Conns

LEMMA AckType ==
  ASSUME TypeOK, NEW t \in Conns, NEW kind \in {"ack", "finack"}, NEW a \in Numbers,
         Ack(t, kind, a)
  PROVE  /\ sent' \subseteq Segments
         /\ arp' \in {"unknown", "asked", "known"}
         /\ \A s \in sent' : s \in sent \/ (s.conn = t /\ s.kind = kind /\ s.ack = a)
  <1> DEFINE s == [Segment(t, "ack", a, 0) EXCEPT !.kind = kind]
  <1>1. Segment(t, "ack", a, 0) \in Segments
    BY SegmentType, Bounds
  <1>2. s \in Segments /\ s.conn = t /\ s.kind = kind /\ s.ack = a
    BY <1>1 DEF Segment, Segments
  <1>3. IpSend(s)
    BY DEF Ack
  <1> HIDE DEF s
  <1> QED
    BY <1>2, <1>3, IpSendType

(* The sender's knowledge survives what happens to another block.           *)
LEMMA OtherBlock ==
  ASSUME IInv, NEW t \in Conns, sender.tcb # t,
         \A c \in Conns : c # t => tcb'[c] = tcb[c] /\ ReadOf(c)' = ReadOf(c),
         UNCHANGED <<created, sender>>
  PROVE  SenderInv'
  <1> USE DEF IInv
  <1>1. CASE sender.pc \in {"syn", "synCount", "data", "dataCount"}
    <2>1. sender.tcb \in 1 .. created /\ sender.tcb \in Conns
      BY <1>1, Bounds DEF SenderInv, TypeOK, Conns
    <2>2. tcb'[sender.tcb] = tcb[sender.tcb] /\ ReadOf(sender.tcb)' = ReadOf(sender.tcb)
      BY <2>1
    <2> QED
      BY <2>1, <2>2 DEF SenderInv
  <1>2. CASE sender.pc \notin {"syn", "synCount", "data", "dataCount"}
    BY <1>2 DEF SenderInv
  <1> QED
    BY <1>1, <1>2

(* Where the nic thread works, the socket has the youngest block.           *)
LEMMA NicAt ==
  ASSUME IInv, nic # "poll"
  PROVE  /\ socketData = created /\ created # 0
         /\ socketData \in Conns /\ socketData \in 1 .. created
  BY Bounds DEF IInv, TypeOK, SocketInv, NicInv, Conns

(* Only one block is in the hands of the nic thread.                        *)
LEMMA AheadIs ==
  ASSUME NEW c
  PROVE  /\ socketData # c => Ahead(c) = 0
         /\ socketData = c => Ahead(c) = IF nic \in {"hear", "finAck", "close"} THEN 1 ELSE 0
         /\ (socketData # c)' => Ahead(c)' = 0
         /\ (socketData = c)' => Ahead(c)' = IF nic' \in {"hear", "finAck", "close"} THEN 1 ELSE 0
  BY DEF Ahead, InHand, Closing

(* A block closes and is deleted.                                           *)
LEMMA DeleteIInv ==
  ASSUME IInv, NEW t \in Conns, t \in 1 .. created, t = socketData, Delete(t),
         tcb' = [tcb EXCEPT ![t].state = "CLOSED"],
         UNCHANGED <<socketData, created, arp, senderVars, held, delivered, sent, peer>>
  PROVE  IInv'
  <1> USE DEF IInv
  <1>1. /\ \A c : ReadOf(c)' = ReadOf(c)
        /\ \A c : Answered(c)' = Answered(c)
        /\ UNCHANGED <<socketData, created, arp, sender, calls, accepted, held, delivered,
                        sent, peer>>
        /\ freed' = freed \union {t} /\ nic' = "clear"
    BY DEF ReadOf, Answered, senderVars, Delete
  <1>2. /\ tcb' \in [Conns -> [state : States, sndNxt : Numbers, rcvNxt : Numbers]]
        /\ tcb'[t].state = "CLOSED" /\ tcb'[t].sndNxt = tcb[t].sndNxt
        /\ \A c \in Conns : c # t => tcb'[c] = tcb[c]
    <2>1. "CLOSED" \in States /\ tcb[t].rcvNxt \in Numbers
      BY DEF TypeOK, States
    <2>2. TypeOK /\ tcb' = [tcb EXCEPT ![t].state = "CLOSED"]
      OBVIOUS
    <2> QED
      BY ONLY <2>1, <2>2, t \in Conns, BlockChanges
  <1>3. TypeOK'
    BY <1>1, <1>2 DEF TypeOK
  <1>4. \A c \in Conns : c # t => Ahead(c)' = Ahead(c)
    BY <1>1, AheadIs
  <1>5. ConnInv'
    <2> SUFFICES ASSUME NEW c \in Conns PROVE ConnInv!(c)'
      BY DEF ConnInv
    <2>1. CASE c = t
      BY <1>1, <1>2, <2>1, Bounds DEF ConnInv, TypeOK
    <2>2. CASE c # t
      BY <1>1, <1>2, <1>4, <2>2 DEF ConnInv
    <2> QED
      BY <2>1, <2>2
  <1>6. SenderInv'
    <2>1. CASE sender.tcb = t
      BY <1>1, <1>2, <2>1 DEF SenderInv
    <2>2. CASE sender.tcb # t
      BY <1>1, <1>2, <2>2, OtherBlock
    <2> QED
      BY <2>1, <2>2
  <1>7. NicInv'
    BY <1>1, Bounds DEF NicInv, Conns
  <1> QED
    BY <1>1, <1>3, <1>5, <1>6, <1>7 DEF SocketInv

LEMMA CloseIInv == IInv /\ Close => IInv'
  <1> SUFFICES ASSUME IInv, Close PROVE IInv'
    OBVIOUS
  <1>1. socketData \in Conns /\ socketData \in 1 .. created
    BY NicAt DEF Close
  <1> QED
    BY <1>1, DeleteIInv DEF Close

LEMMA ReceiveRstIInv ==
  ASSUME IInv, NEW g \in ToKernel, ReceiveRst(g)
  PROVE  IInv'
  <1>1. socketData \in Conns /\ socketData \in 1 .. created
    BY ArrivesAt DEF ReceiveRst, IInv
  <1> QED
    BY <1>1, DeleteIInv DEF ReceiveRst

(* A block counts one more that the peer has sent.                          *)
LEMMA NumberIInv ==
  ASSUME IInv, NEW t \in Conns, t = socketData, t # 0, nic = "poll",
         tcb' = [tcb EXCEPT ![t].rcvNxt = Number(@, 1)],
         nic' \in {"finAck", "hear"}, held' \in (Conns \X (1 .. PeerData)) \union {NoByte},
         nic' = "hear" =>
           /\ tcb[t].state = "ESTABLISHED"
           /\ held' = <<t, ReadOf(t) + 1>> /\ ReadOf(t) < peer[t].written,
         UNCHANGED <<socketData, created, arp, senderVars, freed, delivered, sent, peer>>
  PROVE  IInv'
  <1> USE DEF IInv
  <1> DEFINE n == Number(tcb[t].rcvNxt, 1)
  <1>1. /\ \A c : ReadOf(c)' = ReadOf(c)
        /\ \A c : Answered(c)' = Answered(c)
        /\ UNCHANGED <<socketData, created, arp, sender, calls, accepted, freed, delivered,
                        sent, peer>>
    BY DEF ReadOf, Answered, senderVars
  <1>2. tcb[t].rcvNxt \in Numbers /\ n \in Numbers
    <2>1. tcb[t].rcvNxt \in Numbers /\ 1 \in 0 .. Space
      BY Bounds DEF TypeOK
    <2> QED
      BY <2>1, Wrap
  <1>3. tcb' = [tcb EXCEPT ![t].rcvNxt = n]
    BY DEF TypeOK
  <1>4. tcb[t].state = "ESTABLISHED" => n = Number(Irs[t], ReadOf(t) + 1 + 1)
    <2> SUFFICES ASSUME tcb[t].state = "ESTABLISHED"
                 PROVE  n = Number(Irs[t], ReadOf(t) + 1 + 1)
      OBVIOUS
    <2>1. Ahead(t) = 0
      BY AheadIs
    <2>2. tcb[t].rcvNxt = Number(Irs[t], ReadOf(t) + 1 + 0)
      BY <2>1 DEF ConnInv
    <2>3. Irs[t] \in Numbers /\ ReadOf(t) + 1 \in 0 .. Space - 1 /\ ReadOf(t) \in Nat
      <3>1. peer[t].written \in 0 .. PeerData /\ ReadOf(t) \in 0 .. peer[t].written
        BY DEF TypeOK, ConnInv
      <3> QED
        BY <3>1, InitialNumbers, Bounds
    <2>4. Number(Number(Irs[t], ReadOf(t) + 1), 1) = Number(Irs[t], ReadOf(t) + 1 + 1)
      BY <2>3, NumberNext
    <2> QED
      BY <2>2, <2>3, <2>4
  <1> HIDE DEF n
  <1>5. /\ tcb' \in [Conns -> [state : States, sndNxt : Numbers, rcvNxt : Numbers]]
        /\ tcb'[t].state = tcb[t].state /\ tcb'[t].sndNxt = tcb[t].sndNxt /\ tcb'[t].rcvNxt = n
        /\ \A c \in Conns : c # t => tcb'[c] = tcb[c]
    BY <1>2, <1>3, NumberChanges
  <1>6. /\ Ahead(t)' = 1
        /\ \A c \in Conns : c # t => Ahead(c)' = Ahead(c)
    BY <1>1, AheadIs
  <1>7. TypeOK'
    BY <1>1, <1>5 DEF TypeOK
  <1>8. ConnInv'
    <2> SUFFICES ASSUME NEW c \in Conns PROVE ConnInv!(c)'
      BY DEF ConnInv
    <2>1. CASE c = t
      BY <1>1, <1>4, <1>5, <1>6, <2>1 DEF ConnInv
    <2>2. CASE c # t
      BY <1>1, <1>5, <1>6, <2>2 DEF ConnInv
    <2> QED
      BY <2>1, <2>2
  <1>9. SenderInv'
    <2>1. CASE sender.tcb = t
      BY <1>1, <1>5, <2>1 DEF SenderInv
    <2>2. CASE sender.tcb # t
      BY <1>1, <1>5, <2>2, OtherBlock
    <2> QED
      BY <2>1, <2>2
  <1>10. NicInv'
    BY <1>1, <1>5 DEF NicInv
  <1> QED
    BY <1>1, <1>7, <1>8, <1>9, <1>10 DEF SocketInv

LEMMA ReceiveFinIInv ==
  ASSUME IInv, NEW g \in ToKernel, ReceiveFin(g)
  PROVE  IInv'
  <1>1. socketData \in Conns /\ nic = "poll" /\ socketData # 0
    BY ArrivesAt DEF ReceiveFin, Arrives, IInv
  <1>2. held \in (Conns \X (1 .. PeerData)) \union {NoByte}
    BY DEF IInv, TypeOK
  <1>3. /\ tcb' = [tcb EXCEPT ![socketData].rcvNxt = Number(@, 1)]
        /\ nic' = "finAck" /\ held' = held
        /\ UNCHANGED <<socketData, created, arp, senderVars, freed, delivered, sent, peer>>
    BY DEF ReceiveFin
  <1> QED
    BY <1>1, <1>2, <1>3, NumberIInv

(* What the nic thread sends changes no block; it goes on to its next step. *)
LEMMA AckIInv ==
  ASSUME IInv, NEW t \in Conns, t = socketData, t # 0,
         NEW kind \in {"ack", "finack"}, Ack(t, kind, tcb[t].rcvNxt),
         \/ nic = "finAck" /\ nic' = "close"
         \/ nic \in {"ack", "poll"} /\ nic' = "poll",
         UNCHANGED <<socketData, created, tcb, senderVars, freed, held, delivered, peer>>
  PROVE  IInv'
  <1> USE DEF IInv
  <1>1. /\ \A c : ReadOf(c)' = ReadOf(c)
        /\ \A c : Answered(c)' = Answered(c)
        /\ UNCHANGED <<socketData, created, tcb, sender, calls, accepted, freed, held,
                        delivered, peer>>
    BY DEF ReadOf, Answered, senderVars
  <1>2. tcb[t].rcvNxt \in Numbers
    BY DEF TypeOK
  <1>3. sent' \subseteq Segments /\ arp' \in {"unknown", "asked", "known"}
    BY <1>2, AckType
  <1>4. \A c \in Conns : Ahead(c)' = Ahead(c)
    BY <1>1, AheadIs
  <1>5. TypeOK'
    BY <1>1, <1>3 DEF TypeOK
  <1>6. ConnInv'
    BY <1>1, <1>4 DEF ConnInv
  <1> QED
    BY <1>1, <1>5, <1>6 DEF SenderInv, SocketInv, NicInv

LEMMA AckStepsIInv == IInv /\ (AckFin \/ AckData) => IInv'
  <1> SUFFICES ASSUME IInv, AckFin \/ AckData PROVE IInv'
    OBVIOUS
  <1>1. socketData \in Conns /\ socketData # 0
    BY NicAt DEF AckFin, AckData
  <1>2. CASE AckFin
    BY <1>1, <1>2, AckIInv DEF AckFin
  <1>3. CASE AckData
    BY <1>1, <1>3, AckIInv DEF AckData
  <1> QED
    BY <1>2, <1>3

(* Numbers of the kernel's connections tell them apart.                     *)
LEMMA IssApart ==
  ASSUME NEW k \in Conns, NEW l \in Conns, NEW i \in {0, 1}, NEW j \in {0, 1},
         Number(Iss[k], i) = Number(Iss[l], j)
  PROVE  k = l /\ i = j
  <1>1. i \in 0 .. MaxSend + 1 /\ j \in 0 .. MaxSend + 1
    BY Bounds
  <1> QED
    BY <1>1, NumbersAssumption

LEMMA ReceiveSynAckIInv ==
  ASSUME IInv, NEW g \in ToKernel, ReceiveSynAck(g)
  PROVE  IInv'
  <1> USE DEF IInv
  <1> DEFINE t == socketData
             ack == Number(g.seq, 1)
  <1>1. t \in Conns /\ t \in 1 .. created
    BY ArrivesAt DEF ReceiveSynAck
  <1>2. /\ tcb[t].state = "SYN_SENT" /\ g.kind = "synack" /\ g.ack = tcb[t].sndNxt
        /\ tcb' = [tcb EXCEPT ![t].rcvNxt = ack, ![t].state = "ESTABLISHED"]
        /\ Ack(t, "ack", ack)
        /\ UNCHANGED <<socketData, created, sender, calls, accepted, freed, nic, held,
                        delivered, peer>>
    BY DEF ReceiveSynAck, AnswersSyn, senderVars, nicVars
  <1>3. /\ g.conn \in Conns /\ Answered(g.conn) /\ g.seq = Irs[g.conn]
        /\ g.ack = Number(Iss[g.conn], 1)
    BY <1>2, Incoming
  <1>4. /\ tcb[t].sndNxt \in {Number(Iss[t], 0), Number(Iss[t], 1)}
        /\ ReadOf(t) = 0
    BY <1>1, <1>2 DEF ConnInv
  <1>5. g.conn = t /\ tcb[t].sndNxt # Number(Iss[t], 0)
    BY <1>1, <1>2, <1>3, <1>4, IssApart
  <1>6. ack = Number(Irs[t], 1) /\ ack \in Numbers
    <2>1. Irs[t] \in Numbers /\ 1 \in 0 .. Space
      BY <1>1, InitialNumbers, Bounds
    <2> QED
      BY <1>3, <1>5, <2>1, Wrap
  <1> HIDE DEF ack
  <1>7. /\ tcb' \in [Conns -> [state : States, sndNxt : Numbers, rcvNxt : Numbers]]
        /\ tcb'[t].state = "ESTABLISHED" /\ tcb'[t].rcvNxt = ack
        /\ \A c \in Conns : c # t => tcb'[c] = tcb[c]
    <2>1. "ESTABLISHED" \in States
      BY DEF States
    <2> QED
      BY <1>1, <1>2, <1>6, <2>1, BlockChanges
  <1>8. sent' \subseteq Segments /\ arp' \in {"unknown", "asked", "known"}
    BY <1>1, <1>2, <1>6, AckType
  <1>9. /\ \A c : ReadOf(c)' = ReadOf(c) /\ Ahead(c)' = Ahead(c)
        /\ Ahead(t) = 0 /\ nic = "poll"
        /\ \A c : Answered(c)' = Answered(c)
    BY <1>2 DEF ReadOf, Answered, Ahead, InHand, Closing, ReceiveSynAck, Arrives
  <1>10. TypeOK'
    BY <1>2, <1>7, <1>8 DEF TypeOK
  <1>11. ConnInv'
    <2> SUFFICES ASSUME NEW c \in Conns PROVE ConnInv!(c)'
      BY DEF ConnInv
    <2>1. CASE c = t
      <3>1. tcb'[c].rcvNxt = Number(Irs[c], ReadOf(c)' + 1 + Ahead(c)') /\ Answered(c)
        BY <1>3, <1>4, <1>5, <1>6, <1>7, <1>9, <2>1
      <3> QED
        BY <1>1, <1>2, <1>7, <1>9, <2>1, <3>1, Bounds DEF ConnInv, Conns
    <2>2. CASE c # t
      BY <1>2, <1>7, <1>9, <2>2 DEF ConnInv
    <2> QED
      BY <2>1, <2>2
  <1>12. SenderInv'
    <2>1. CASE sender.tcb = t
      <3>1. sender.pc \notin {"syn", "synCount", "data", "dataCount"}
        BY <1>2, <1>5, <2>1 DEF SenderInv
      <3> QED
        BY <1>2, <3>1 DEF SenderInv
    <2>2. CASE sender.tcb # t
      BY <1>2, <1>7, <1>9, <2>2, OtherBlock
    <2> QED
      BY <2>1, <2>2
  <1> QED
    BY <1>2, <1>9, <1>10, <1>11, <1>12 DEF SocketInv, NicInv

LEMMA ClearIInv == IInv /\ Clear => IInv'
  <1> SUFFICES ASSUME IInv, Clear PROVE IInv'
    OBVIOUS
  <1> USE DEF IInv
  <1>1. /\ \A c : ReadOf(c)' = ReadOf(c) /\ Ahead(c)' = Ahead(c)
        /\ \A c : Answered(c)' = Answered(c)
        /\ UNCHANGED <<created, tcb, arp, sender, calls, accepted, freed, delivered, held, sent, peer>>
        /\ nic' = "poll" /\ socketData' = 0
    BY DEF Clear, ReadOf, Answered, Ahead, InHand, Closing, senderVars
  <1>2. TypeOK'
    BY <1>1, Bounds DEF TypeOK
  <1>3. ConnInv'
    BY <1>1 DEF ConnInv
  <1> QED
    BY <1>1, <1>2, <1>3 DEF SenderInv, SocketInv, NicInv

LEMMA ReceiveOutOfOrderIInv ==
  ASSUME IInv, NEW g \in ToKernel, ReceiveOutOfOrder(g)
  PROVE  IInv'
  <1>1. socketData \in Conns /\ nic = "poll" /\ socketData # 0
    BY ArrivesAt DEF ReceiveOutOfOrder, Carries, Arrives, IInv
  <1>2. /\ Ack(socketData, "ack", tcb[socketData].rcvNxt) /\ nic' = "poll"
        /\ UNCHANGED <<socketData, created, tcb, senderVars, freed, held, delivered, peer>>
    BY <1>1 DEF ReceiveOutOfOrder, nicVars
  <1> QED
    BY <1>1, <1>2, AckIInv

(* Numbers of the peer's connections tell its bytes apart.                  *)
LEMMA IrsApart ==
  ASSUME NEW k \in Conns, NEW l \in Conns,
         NEW i \in 0 .. PeerData + 1, NEW j \in 0 .. PeerData + 1,
         Number(Irs[k], i) = Number(Irs[l], j)
  PROVE  k = l /\ i = j
  BY NumbersAssumption

(* A byte that has the number expected is the one expected.                 *)
LEMMA ReceiveDataIs ==
  ASSUME IInv, NEW g \in ToKernel, ReceiveData(g)
  PROVE  LET t == socketData IN
         /\ t \in Conns /\ t # 0 /\ nic = "poll"
         /\ tcb[t].state = "ESTABLISHED"
         /\ g.conn = t /\ g.pos = ReadOf(t) + 1
         /\ g.pos \in 1 .. PeerData /\ ReadOf(t) < peer[t].written
  <1> USE DEF IInv
  <1> PICK t : t = socketData
    OBVIOUS
  <1> PICK c : c = g.conn
    OBVIOUS
  <1> PICK n : n = ReadOf(t)
    OBVIOUS
  <1>1. t \in Conns /\ t # 0 /\ nic = "poll"
    BY ArrivesAt DEF ReceiveData, Carries, Arrives
  <1>2. tcb[t].state = "ESTABLISHED" /\ g.kind = "data" /\ g.seq = tcb[t].rcvNxt
    BY DEF ReceiveData, Carries, IsNext
  <1>3. c \in Conns /\ g.pos \in 1 .. peer[c].written /\ g.seq = Number(Irs[c], g.pos)
    BY <1>2, Incoming
  <1>4. tcb[t].rcvNxt = Number(Irs[t], n + 1) /\ n \in 0 .. peer[t].written
    <2>1. Ahead(t) = 0
      BY <1>1, AheadIs
    <2>2. tcb[t].rcvNxt = Number(Irs[t], n + 1 + 0) /\ n \in 0 .. peer[t].written
      BY <1>1, <1>2, <2>1 DEF ConnInv
    <2>3. peer[t].written \in 0 .. PeerData
      BY <1>1 DEF TypeOK
    <2> QED
      BY <2>2, <2>3, Bounds
  <1>5. peer[t].written \in 0 .. PeerData /\ peer[c].written \in 0 .. PeerData
    BY <1>1, <1>3 DEF TypeOK
  <1>6. n + 1 \in 0 .. PeerData + 1 /\ g.pos \in 0 .. PeerData + 1
    BY <1>3, <1>4, <1>5, Bounds
  <1>7. c = t /\ g.pos = n + 1
    <2>1. Number(Irs[c], g.pos) = Number(Irs[t], n + 1)
      BY <1>2, <1>3, <1>4
    <2> QED
      BY <1>1, <1>3, <1>6, <2>1, IrsApart
  <1>8. n < peer[t].written /\ n + 1 \in 1 .. PeerData
    BY <1>3, <1>4, <1>5, <1>7, Bounds
  <1> QED
    BY <1>1, <1>2, <1>7, <1>8

LEMMA ReceiveDataIInv ==
  ASSUME IInv, NEW g \in ToKernel, ReceiveData(g)
  PROVE  IInv'
  <1>1. /\ socketData \in Conns /\ socketData # 0 /\ nic = "poll"
        /\ tcb[socketData].state = "ESTABLISHED"
        /\ g.conn = socketData /\ g.pos = ReadOf(socketData) + 1
        /\ g.pos \in 1 .. PeerData /\ ReadOf(socketData) < peer[socketData].written
    BY ReceiveDataIs
  <1>2. /\ tcb' = [tcb EXCEPT ![socketData].rcvNxt = Number(@, 1)]
        /\ nic' = "hear" /\ held' = <<g.conn, g.pos>>
        /\ UNCHANGED <<socketData, created, arp, senderVars, freed, delivered, sent, peer>>
    BY DEF ReceiveData
  <1>3. held' \in (Conns \X (1 .. PeerData)) \union {NoByte}
    BY <1>1, <1>2
  <1>4. held' = <<socketData, ReadOf(socketData) + 1>>
    BY <1>1, <1>2
  <1> QED
    BY <1>1, <1>2, <1>3, <1>4, NumberIInv

(* The listener hears the byte it lacked.                                   *)
LEMMA HearIs ==
  ASSUME IInv, Hear
  PROVE  LET t == socketData IN
         /\ t \in Conns /\ t = created
         /\ ReadOf(t) \in Nat /\ ReadOf(t) < peer[t].written
         /\ ReadOf(t) + 1 \in 1 .. PeerData
         /\ delivered' = [delivered EXCEPT ![t] = Append(@, <<t, Len(@) + 1>>)]
         /\ ReadOf(t)' = ReadOf(t) + 1
         /\ \A c \in Conns : c # t => ReadOf(c)' = ReadOf(c)
  <1> USE DEF IInv
  <1> DEFINE t == socketData
             n == ReadOf(t)
  <1>1. t \in Conns /\ t = created
    BY NicAt DEF Hear
  <1>2. held = <<t, n + 1>> /\ n < peer[t].written
    BY DEF Hear, NicInv
  <1>3. n \in Nat /\ n + 1 \in 1 .. PeerData
    <2>1. peer[t].written \in 0 .. PeerData /\ n \in 0 .. peer[t].written
      BY <1>1 DEF TypeOK, ConnInv
    <2> QED
      BY <1>2, <2>1, Bounds
  <1>4. /\ delivered' = [delivered EXCEPT ![t] = Append(@, <<t, Len(@) + 1>>)]
        /\ n = Len(delivered[t])
    BY <1>1, <1>2 DEF ReadOf, Hear
  <1>5. ReadOf(t)' = n + 1
    <2>1. t' = t
      BY DEF Hear
    <2>2. delivered'[t] = Append(delivered[t], <<t, n + 1>>)
      BY <1>1, <1>4 DEF TypeOK
    <2>3. delivered[t] \in Seq(Conns \X (1 .. PeerData))
      BY <1>1 DEF TypeOK
    <2> QED
      BY <1>1, <1>4, <2>1, <2>2, <2>3 DEF ReadOf
  <1>6. \A d \in Conns : d # t => ReadOf(d)' = ReadOf(d)
    BY <1>4 DEF ReadOf, TypeOK
  <1> QED
    BY <1>1, <1>2, <1>3, <1>4, <1>5, <1>6

LEMMA HearIInv == IInv /\ Hear => IInv'
  <1> SUFFICES ASSUME IInv, Hear PROVE IInv'
    OBVIOUS
  <1> USE DEF IInv
  <1> PICK t : t = socketData
    OBVIOUS
  <1> PICK n : n = ReadOf(t)
    OBVIOUS
  <1>1. /\ t \in Conns /\ t = created
        /\ n \in Nat /\ n < peer[t].written /\ n + 1 \in 1 .. PeerData
        /\ delivered' = [delivered EXCEPT ![t] = Append(@, <<t, Len(@) + 1>>)]
        /\ ReadOf(t)' = n + 1
        /\ \A c \in Conns : c # t => ReadOf(c)' = ReadOf(c)
    <2>1. socketData' = socketData
      BY DEF Hear
    <2> QED
      BY <2>1, HearIs
  <1>2. /\ UNCHANGED <<socketData, created, tcb, arp, sender, calls, accepted, freed, sent, peer>>
        /\ \A c : Answered(c)' = Answered(c)
        /\ nic = "hear" /\ nic' = "ack" /\ held' = NoByte
    BY DEF Hear, senderVars, Answered
  <1>3. delivered' \in [Conns -> Seq(Conns \X (1 .. PeerData))]
    <2>1. delivered[t] \in Seq(Conns \X (1 .. PeerData)) /\ Len(delivered[t]) = n
      BY <1>1 DEF TypeOK, ReadOf
    <2>2. Append(delivered[t], <<t, n + 1>>) \in Seq(Conns \X (1 .. PeerData))
      BY <1>1, <2>1
    <2>3. delivered' = [delivered EXCEPT ![t] = Append(delivered[t], <<t, n + 1>>)]
      BY <1>1, <2>1
    <2> QED
      BY <2>2, <2>3 DEF TypeOK
  <1>4. TypeOK'
    BY <1>2, <1>3 DEF TypeOK
  <1>5. /\ tcb[t].state = "ESTABLISHED" /\ Ahead(t) = 1 /\ Ahead(t)' = 0
        /\ \A c \in Conns : c # t => Ahead(c)' = Ahead(c)
    BY <1>2, AheadIs DEF NicInv
  <1>6. ConnInv'
    <2> SUFFICES ASSUME NEW c \in Conns PROVE ConnInv!(c)'
      BY DEF ConnInv
    <2>1. CASE c = t
      <3>1. Answered(t) /\ peer[t].written \in 0 .. PeerData
        BY <1>1, <1>5 DEF ConnInv, TypeOK
      <3>2. peer[t].written \in Nat /\ n + 1 + 1 = (n + 1) + 1 + 0
        BY <1>1, <3>1, Bounds
      <3>3. tcb[t].rcvNxt = Number(Irs[t], n + 1 + 1)
        BY <1>1, <1>5 DEF ConnInv
      <3> QED
        <4>1. /\ ReadOf(c)' \in 0 .. peer'[c].written /\ c \in 1 .. created'
              /\ tcb'[c].state = "ESTABLISHED"
          BY <1>1, <1>2, <1>5, <2>1, <3>1, <3>2, Bounds DEF Conns
        <4>2. tcb'[c].rcvNxt = Number(Irs[c], ReadOf(c)' + 1 + Ahead(c)')
          BY <1>1, <1>2, <1>5, <2>1, <3>2, <3>3
        <4>3. Answered(c)' /\ ~(c > created')
          BY <1>1, <1>2, <2>1, <3>1, Bounds DEF Conns
        <4> QED
          BY <4>1, <4>2, <4>3
    <2>2. CASE c # t
      BY <1>1, <1>2, <1>5, <2>2 DEF ConnInv
    <2> QED
      BY <2>1, <2>2
  <1>7. SenderInv'
    <2>1. CASE sender.tcb = t
      <3>1. sender.pc \notin {"syn", "synCount"}
        BY <1>1, <1>5, <2>1 DEF SenderInv
      <3> QED
        BY <1>1, <1>2, <2>1, <3>1 DEF SenderInv
    <2>2. CASE sender.tcb # t
      BY <1>1, <1>2, <2>2, OtherBlock
    <2> QED
      BY <2>1, <2>2
  <1>8. NicInv'
    BY <1>1, <1>2, <1>5, Bounds DEF NicInv, Conns
  <1> QED
    BY <1>2, <1>4, <1>6, <1>7, <1>8 DEF SocketInv

LEMMA StutterIInv == IInv /\ UNCHANGED vars => IInv'
  <1> SUFFICES ASSUME IInv, UNCHANGED vars PROVE IInv'
    OBVIOUS
  <1> USE DEF IInv
  <1>1. /\ \A c : ReadOf(c)' = ReadOf(c) /\ Ahead(c)' = Ahead(c)
        /\ \A c : Answered(c)' = Answered(c)
        /\ UNCHANGED <<socketData, created, tcb, arp, sender, calls, accepted, freed, nic, held,
                        delivered, sent, peer>>
    BY DEF vars, senderVars, nicVars, ReadOf, Answered, Ahead, InHand, Closing
  <1>2. TypeOK'
    BY <1>1 DEF TypeOK
  <1>3. ConnInv'
    BY <1>1 DEF ConnInv
  <1> QED
    BY <1>1, <1>2, <1>3 DEF SenderInv, SocketInv, NicInv

LEMMA NextIInv == IInv /\ [Next]_vars => IInv'
  <1> SUFFICES ASSUME IInv, [Next]_vars PROVE IInv'
    OBVIOUS
  <1>1. CASE Sender
    BY <1>1, SocketSendIInv, TcpSendIInv, SynSendIInv, DataSendIInv, SynCountIInv,
       DataCountIInv, SenderMovesIInv DEF Sender
  <1>2. CASE \E g \in ToKernel : Receive(g)
    <2>1. PICK g \in ToKernel : Receive(g)
      BY <1>2
    <2> QED
      BY <2>1, ReceiveFinIInv, ReceiveRstIInv, ReceiveSynAckIInv, ReceiveDataIInv,
         ReceiveOutOfOrderIInv DEF Receive
  <1>3. CASE GoesOn
    BY <1>3, ClearIInv, CloseIInv, AckStepsIInv, HearIInv DEF GoesOn
  <1>4. CASE ArpReply
    BY <1>4, ArpReplyIInv
  <1>5. CASE Peer
    BY <1>5, PeerIInv
  <1>6. CASE UNCHANGED vars
    BY <1>6, StutterIInv
  <1> QED
    BY <1>1, <1>2, <1>3, <1>4, <1>5, <1>6 DEF Next, Nic

-----------------------------------------------------------------------------
(* The theorems                                                             *)

(* The socket, its control blocks and both threads only ever hold values    *)
(* the code gives them; every sequence number stays inside its width.       *)
THEOREM TypeCorrect == Spec => []TypeOK
  <1>1. IInv => TypeOK
    BY DEF IInv
  <1> QED
    BY <1>1, InitIInv, NextIInv, PTL DEF Spec

(* A connection counts as established only when the peer has answered its   *)
(* own SYN, and both ends expect the same byte next.                        *)
THEOREM EstablishedMeansAgreed == Spec => []EstablishedAgreed
  <1>1. IInv => EstablishedAgreed
    BY DEF IInv, ConnInv, EstablishedAgreed
  <1> QED
    BY <1>1, InitIInv, NextIInv, PTL DEF Spec

(* How far a segment of a connection may acknowledge, and the connections   *)
(* whose data may acknowledge anything.                                     *)
Reach == [k \in Conns |-> IF InHand(k) THEN ReadOf(k) + 1 ELSE ReadOf(k)]
Gone == {k \in Conns : k \in freed \/ Closing(k)}

Honest(s, h, f) ==
  \/ s.kind \in {"syn", "finack"}
  \/ s.kind = "data" /\ s.conn \in f
  \/ \E n \in 0 .. h[s.conn] : s.ack = Number(Irs[s.conn], n + 1)

LEMMA ReachIs ==
  ASSUME TypeOK
  PROVE  \A k \in Conns : /\ ReadOf(k) \in Nat /\ Reach[k] \in Nat
                          /\ Reach[k] = IF InHand(k) THEN ReadOf(k) + 1 ELSE ReadOf(k)
  <1>1. \A k \in Conns : ReadOf(k) \in Nat
    BY DEF TypeOK, ReadOf
  <1> QED
    BY <1>1 DEF Reach

LEMMA ReachCounts == TypeOK => \A k \in Conns : Reach[k] \in Nat
  BY ReachIs

LEMMA AllHonest ==
  ASSUME TypeOK
  PROVE  AcksOnlyDelivered <=> \A s \in sent : Honest(s, Reach, Gone)
  <1> SUFFICES ASSUME NEW s \in sent PROVE AcksOnlyDelivered!(s) <=> Honest(s, Reach, Gone)
    BY DEF AcksOnlyDelivered
  <1> PICK k : k = s.conn
    OBVIOUS
  <1>1. k \in Conns
    BY DEF TypeOK, Segments
  <1>2. ReadOf(k) \in Nat /\ Reach[k] = IF InHand(k) THEN ReadOf(k) + 1 ELSE ReadOf(k)
    BY <1>1, ReachIs
  <1>3. (\E n \in 0 .. Reach[k] : s.ack = Number(Irs[k], n + 1))
          <=> \/ \E n \in 0 .. ReadOf(k) : s.ack = Number(Irs[k], n + 1)
              \/ InHand(k) /\ s.ack = Number(Irs[k], ReadOf(k) + 2)
    <2>1. 0 .. ReadOf(k) + 1 = 0 .. ReadOf(k) \union {ReadOf(k) + 1}
          /\ (ReadOf(k) + 1) + 1 = ReadOf(k) + 2
      BY <1>2
    <2>2. CASE InHand(k)
      BY <1>2, <2>1, <2>2
    <2>3. CASE ~InHand(k)
      BY <1>2, <2>3
    <2> QED
      BY <2>2, <2>3
  <1>4. k \in Gone <=> k \in freed \/ Closing(k)
    BY <1>1 DEF Gone
  <1> QED
    BY <1>3, <1>4 DEF Honest

LEMMA AllHonestNext ==
  ASSUME TypeOK', \A s \in sent' : Honest(s, Reach', Gone')
  PROVE  AcksOnlyDelivered'
  <1>1. (TypeOK /\ (\A s \in sent : Honest(s, Reach, Gone)) => AcksOnlyDelivered)'
    BY AllHonest, PTL
  <1> QED
    BY <1>1 DEF Honest

(* What is acknowledged stays heard: only new segments need a look.         *)
LEMMA AcksKeep ==
  ASSUME TypeOK, TypeOK', AcksOnlyDelivered, Gone \subseteq Gone',
         \A k \in Conns : Reach[k] <= Reach'[k],
         \A s \in sent' : s \in sent \/ Honest(s, Reach', Gone')
  PROVE  AcksOnlyDelivered'
  <1> SUFFICES ASSUME NEW s \in sent' PROVE Honest(s, Reach', Gone')
    BY AllHonestNext
  <1>1. CASE s \in sent
    <2>1. s.conn \in Conns
      BY DEF TypeOK, Segments
    <2>2. Reach[s.conn] \in Nat /\ Reach'[s.conn] \in Nat /\ Reach[s.conn] <= Reach'[s.conn]
      <3>1. \A k \in Conns : Reach'[k] \in Nat
        <4>1. (TypeOK => \A k \in Conns : Reach[k] \in Nat)'
          BY ReachCounts, PTL
        <4> QED
          BY <4>1
      <3> QED
        BY <2>1, <3>1, ReachIs
    <2>3. Honest(s, Reach, Gone)
      BY <1>1, AllHonest
    <2>4. CASE \E n \in 0 .. Reach[s.conn] : s.ack = Number(Irs[s.conn], n + 1)
      <3>1. PICK n \in 0 .. Reach[s.conn] : s.ack = Number(Irs[s.conn], n + 1)
        BY <2>4
      <3>2. n \in 0 .. Reach'[s.conn]
        BY <2>2
      <3> QED
        BY <3>1, <3>2 DEF Honest
    <2> QED
      BY <2>3, <2>4 DEF Honest
  <1>2. CASE s \notin sent
    BY <1>2
  <1> QED
    BY <1>1, <1>2

LEMMA IpSendAdds ==
  ASSUME NEW s, IpSend(s)
  PROVE  \A x \in sent' : x \in sent \/ x = s
  BY DEF IpSend

(* Steps that move neither limit.                                           *)
LEMMA LimitsStay ==
  ASSUME TypeOK, UNCHANGED <<delivered, freed, nic>>, UNCHANGED socketData \/ nic = "poll"
  PROVE  /\ Gone' = Gone
         /\ \A k \in Conns : Reach'[k] = Reach[k] /\ Reach[k] <= Reach'[k]
  <1>1. \A k : InHand(k)' = InHand(k) /\ Closing(k)' = Closing(k) /\ ReadOf(k)' = ReadOf(k)
    BY DEF InHand, Closing, ReadOf
  <1>2. Gone' = Gone
    BY <1>1 DEF Gone
  <1>3. Reach' = Reach
    BY <1>1 DEF Reach
  <1> QED
    BY <1>2, <1>3, ReachIs

(* A step of the nic thread that sends nothing.                             *)
LEMMA SilentAcks ==
  ASSUME TypeOK, TypeOK', AcksOnlyDelivered, UNCHANGED sent, Gone \subseteq Gone',
         \A k \in Conns : Reach[k] <= Reach'[k]
  PROVE  AcksOnlyDelivered'
  BY AcksKeep

(* An acknowledgement of what the listener has heard.                       *)
LEMMA AckKeeps ==
  ASSUME TypeOK, TypeOK', AcksOnlyDelivered, NEW t \in Conns,
         NEW kind \in {"ack", "finack"}, NEW a \in Numbers, Ack(t, kind, a),
         kind = "finack" \/ \E n \in 0 .. Reach'[t] : a = Number(Irs[t], n + 1),
         Gone \subseteq Gone', \A k \in Conns : Reach[k] <= Reach'[k]
  PROVE  AcksOnlyDelivered'
  <1>1. \A s \in sent' : s \in sent \/ (s.conn = t /\ s.kind = kind /\ s.ack = a)
    BY AckType
  <1>2. \A s \in sent' : s \in sent \/ Honest(s, Reach', Gone')
    BY <1>1 DEF Honest
  <1> QED
    BY <1>2, AcksKeep

LEMMA SynSendAcks == IInv /\ TypeOK' /\ AcksOnlyDelivered /\ SynSend => AcksOnlyDelivered'
  <1> SUFFICES ASSUME IInv, TypeOK', AcksOnlyDelivered, SynSend PROVE AcksOnlyDelivered'
    OBVIOUS
  <1> DEFINE s == Segment(sender.tcb, "syn", 0, 0)
  <1>1. UNCHANGED <<delivered, freed, nic, socketData>> /\ IpSend(s) /\ TypeOK
    BY DEF SynSend, nicVars, IInv
  <1>2. s.kind = "syn"
    BY DEF Segment
  <1> HIDE DEF s
  <1>3. \A x \in sent' : x \in sent \/ Honest(x, Reach', Gone')
    BY <1>1, <1>2, IpSendAdds DEF Honest
  <1> QED
    BY <1>1, <1>3, LimitsStay, AcksKeep

LEMMA DataSendAcks == IInv /\ TypeOK' /\ AcksOnlyDelivered /\ DataSend => AcksOnlyDelivered'
  <1> SUFFICES ASSUME IInv, TypeOK', AcksOnlyDelivered, DataSend PROVE AcksOnlyDelivered'
    OBVIOUS
  <1> PICK k : k = sender.tcb
    OBVIOUS
  <1> DEFINE s == Segment(k, "data", tcb[k].rcvNxt, sender.byte)
  <1>1. /\ UNCHANGED <<delivered, freed, nic, socketData>> /\ IpSend(s) /\ TypeOK
        /\ sender.pc = "data"
    BY DEF DataSend, nicVars, At, IInv
  <1>2. k \in 1 .. created /\ k \in Conns /\ tcb[k].state \in {"ESTABLISHED", "CLOSED"}
    BY <1>1, Bounds DEF IInv, SenderInv, TypeOK, Conns
  <1>3. k \in Gone \/ \E n \in 0 .. Reach[k] : tcb[k].rcvNxt = Number(Irs[k], n + 1)
    <2>1. CASE tcb[k].state = "CLOSED" \/ Closing(k)
      BY <1>2, <2>1 DEF IInv, ConnInv, Gone
    <2>2. CASE tcb[k].state = "ESTABLISHED" /\ ~Closing(k)
      <3>1. tcb[k].rcvNxt = Number(Irs[k], ReadOf(k) + 1 + Ahead(k))
        BY <1>2, <2>2 DEF IInv, ConnInv
      <3>2. Ahead(k) = IF InHand(k) THEN 1 ELSE 0
        BY <2>2 DEF Ahead
      <3>3. ReadOf(k) \in Nat /\ Reach[k] = IF InHand(k) THEN ReadOf(k) + 1 ELSE ReadOf(k)
        BY <1>1, <1>2, ReachIs
      <3>4. Reach[k] \in 0 .. Reach[k] /\ Reach[k] + 1 = ReadOf(k) + 1 + Ahead(k)
        BY <3>2, <3>3
      <3> QED
        BY <3>1, <3>4
    <2> QED
      BY <1>2, <2>1, <2>2
  <1>4. s.kind = "data" /\ s.conn = k /\ s.ack = tcb[k].rcvNxt
    BY DEF Segment
  <1> HIDE DEF s
  <1>5. Gone' = Gone /\ \A c \in Conns : Reach'[c] = Reach[c] /\ Reach[c] <= Reach'[c]
    BY <1>1, LimitsStay
  <1>6. Honest(s, Reach', Gone')
    BY <1>2, <1>3, <1>4, <1>5 DEF Honest
  <1>7. \A x \in sent' : x \in sent \/ Honest(x, Reach', Gone')
    BY <1>1, <1>6, IpSendAdds
  <1> QED
    BY <1>1, <1>5, <1>7, AcksKeep

(* Steps that send nothing and leave both limits alone, or move the nic     *)
(* thread on without taking back what it may acknowledge.                   *)
LEMMA QuietAcks ==
  ASSUME IInv, TypeOK', AcksOnlyDelivered,
         \/ SocketSend \/ TcpSend \/ SynCount \/ DataCount \/ Wait \/ TouchesDead
         \/ Clear \/ ArpReply \/ Peer \/ Close
         \/ \E g \in ToKernel : ReceiveFin(g) \/ ReceiveRst(g) \/ ReceiveData(g)
         \/ UNCHANGED vars
  PROVE  AcksOnlyDelivered'
  <1>0. TypeOK
    BY DEF IInv
  <1>1. CASE \/ SocketSend \/ TcpSend \/ SynCount \/ DataCount \/ Wait \/ TouchesDead
             \/ ArpReply \/ Peer \/ UNCHANGED vars
    <2>1. UNCHANGED <<delivered, freed, nic, sent>>
      <3>1. CASE Peer
        BY <1>0, <3>1, PeerIs
      <3>2. CASE \/ SocketSend \/ TcpSend \/ SynCount \/ DataCount \/ Wait \/ TouchesDead
                 \/ ArpReply \/ UNCHANGED vars
        BY <3>2 DEF SocketSend, TcpSend, SynCount, DataCount, Wait, TouchesDead, ArpReply,
                    vars, nicVars
      <3> QED
        BY <1>1, <3>1, <3>2
    <2>2. UNCHANGED socketData \/ nic = "poll"
      <3>1. CASE Peer
        BY <1>0, <3>1, PeerIs
      <3>2. CASE SocketSend
        BY <3>2 DEF SocketSend, IInv, NicInv
      <3>3. CASE \/ TcpSend \/ SynCount \/ DataCount \/ Wait \/ TouchesDead
                 \/ ArpReply \/ UNCHANGED vars
        BY <3>3 DEF TcpSend, SynCount, DataCount, Wait, TouchesDead, ArpReply, vars
      <3> QED
        BY <1>1, <3>1, <3>2, <3>3
    <2> QED
      BY <1>0, <2>1, <2>2, LimitsStay, SilentAcks
  <1>2. ASSUME UNCHANGED <<delivered, sent>>, freed \subseteq freed',
               \A k : InHand(k) => InHand(k)',
               \A k : Closing(k) => Closing(k)' \/ k \in freed'
        PROVE  AcksOnlyDelivered'
    <2>1. Gone \subseteq Gone'
      BY <1>2 DEF Gone
    <2>2. \A k \in Conns : Reach[k] <= Reach'[k]
      <3> SUFFICES ASSUME NEW k \in Conns PROVE Reach[k] <= Reach'[k]
        OBVIOUS
      <3>1. ReadOf(k)' = ReadOf(k) /\ ReadOf(k) \in Nat
        BY <1>0, <1>2, ReachIs DEF ReadOf
      <3>2. Reach'[k] = IF InHand(k)' THEN ReadOf(k)' + 1 ELSE ReadOf(k)'
        BY DEF Reach
      <3>3. Reach[k] = IF InHand(k) THEN ReadOf(k) + 1 ELSE ReadOf(k)
        BY DEF Reach
      <3> QED
        BY <1>2, <3>1, <3>2, <3>3
    <2> QED
      BY <1>0, <1>2, <2>1, <2>2, SilentAcks
  <1>3. CASE Clear
    BY <1>2, <1>3 DEF Clear, InHand, Closing
  <1>4. CASE Close
    BY <1>2, <1>4 DEF Close, Delete, InHand, Closing
  <1>5. ASSUME NEW g \in ToKernel, ReceiveFin(g) \/ ReceiveRst(g) \/ ReceiveData(g)
        PROVE  AcksOnlyDelivered'
    <2>1. UNCHANGED <<delivered, sent>> /\ freed \subseteq freed' /\ nic = "poll"
      BY <1>5 DEF ReceiveFin, ReceiveRst, ReceiveData, Carries, Arrives, Delete
    <2> QED
      BY <1>2, <2>1 DEF InHand, Closing
  <1> QED
    BY <1>1, <1>3, <1>4, <1>5

LEMMA HearAcks == IInv /\ TypeOK' /\ AcksOnlyDelivered /\ Hear => AcksOnlyDelivered'
  <1> SUFFICES ASSUME IInv, TypeOK', AcksOnlyDelivered, Hear PROVE AcksOnlyDelivered'
    OBVIOUS
  <1> PICK t : t = socketData
    OBVIOUS
  <1>1. TypeOK
    BY DEF IInv
  <1>2. /\ UNCHANGED <<socketData, sent, freed>> /\ nic = "hear" /\ nic' = "ack"
        /\ t \in Conns /\ ReadOf(t)' = ReadOf(t) + 1
        /\ \A c \in Conns : c # t => ReadOf(c)' = ReadOf(c)
    BY HearIs DEF Hear
  <1>3. \A k \in Conns : InHand(k) => k = t
    BY <1>2 DEF InHand
  <1>4. \A k \in Conns : Reach[k] <= Reach'[k]
    <2> SUFFICES ASSUME NEW k \in Conns PROVE Reach[k] <= Reach'[k]
      OBVIOUS
    <2>1. ReadOf(k) \in Nat /\ Reach[k] = IF InHand(k) THEN ReadOf(k) + 1 ELSE ReadOf(k)
      BY <1>1, ReachIs
    <2>2. Reach'[k] = ReadOf(k)'
      BY <1>2 DEF Reach, InHand
    <2> QED
      BY <1>2, <1>3, <2>1, <2>2
  <1>5. Gone \subseteq Gone'
    BY <1>2 DEF Gone, Closing
  <1> QED
    BY <1>1, <1>2, <1>4, <1>5, SilentAcks

(* The nic thread acknowledges an established block at what it has counted. *)
LEMMA AckSteps ==
  ASSUME IInv, TypeOK', AcksOnlyDelivered,
         AckFin \/ AckData \/ \E g \in ToKernel : ReceiveOutOfOrder(g)
  PROVE  AcksOnlyDelivered'
  <1> PICK t : t = socketData
    OBVIOUS
  <1> PICK a : a = tcb[t].rcvNxt
    OBVIOUS
  <1>1. TypeOK
    BY DEF IInv
  <1>2. CASE AckFin
    <2>1. t \in Conns /\ a \in Numbers
      BY <1>1, <1>2, NicAt DEF AckFin, TypeOK
    <2>2. /\ Ack(t, "finack", a) /\ UNCHANGED <<freed, delivered, socketData>>
          /\ nic = "finAck" /\ nic' = "close"
      BY <1>2 DEF AckFin
    <2>3. \A k : InHand(k)' = InHand(k) /\ Closing(k)' = Closing(k) /\ ReadOf(k)' = ReadOf(k)
      BY <2>2 DEF InHand, Closing, ReadOf
    <2>4. Gone' = Gone /\ Reach' = Reach
      BY <2>2, <2>3 DEF Gone, Reach
    <2>5. \A k \in Conns : Reach[k] <= Reach'[k]
      BY <1>1, <2>4, ReachIs
    <2> QED
      BY <1>1, <2>1, <2>2, <2>4, <2>5, AckKeeps
  <1>3. CASE AckData \/ \E g \in ToKernel : ReceiveOutOfOrder(g)
    <2>1. t \in Conns /\ tcb[t].state = "ESTABLISHED" /\ nic \in {"ack", "poll"}
      <3>1. CASE AckData
        BY <3>1, NicAt DEF AckData, IInv, NicInv
      <3>2. ASSUME NEW g \in ToKernel, ReceiveOutOfOrder(g)
            PROVE  t \in Conns /\ tcb[t].state = "ESTABLISHED" /\ nic \in {"ack", "poll"}
        BY <3>2, ArrivesAt DEF ReceiveOutOfOrder, Carries, Arrives, IInv
      <3> QED
        BY <1>3, <3>1, <3>2
    <2>2. /\ Ack(t, "ack", a) /\ UNCHANGED <<freed, delivered, socketData>>
          /\ nic' = "poll"
      BY <1>3, <2>1 DEF AckData, ReceiveOutOfOrder, Carries, Arrives, nicVars
    <2>3. \A k : ~InHand(k) /\ ~InHand(k)' /\ ~Closing(k) /\ ~Closing(k)' /\ ReadOf(k)' = ReadOf(k)
      BY <2>1, <2>2 DEF InHand, Closing, ReadOf
    <2>4. Gone' = Gone /\ Reach' = Reach
      BY <2>2, <2>3 DEF Gone, Reach
    <2>5. \A k \in Conns : Reach[k] <= Reach'[k] /\ Reach'[k] = ReadOf(k) /\ ReadOf(k) \in Nat
      BY <1>1, <2>3, <2>4, ReachIs
    <2>6. a = Number(Irs[t], ReadOf(t) + 1 + 0) /\ a \in Numbers
      BY <1>1, <2>1, <2>3 DEF IInv, ConnInv, Ahead, TypeOK
    <2>7. \E n \in 0 .. Reach'[t] : a = Number(Irs[t], n + 1)
      <3>1. ReadOf(t) \in 0 .. Reach'[t] /\ ReadOf(t) + 1 = ReadOf(t) + 1 + 0
        BY <2>1, <2>5
      <3> QED
        BY <2>6, <3>1
    <2> QED
      BY <1>1, <2>1, <2>2, <2>4, <2>5, <2>6, <2>7, AckKeeps
  <1> QED
    BY <1>2, <1>3

LEMMA SynAckAcks ==
  ASSUME IInv, IInv', AcksOnlyDelivered, NEW g \in ToKernel, ReceiveSynAck(g)
  PROVE  AcksOnlyDelivered'
  <1> PICK t : t = socketData
    OBVIOUS
  <1> PICK a : a = Number(g.seq, 1)
    OBVIOUS
  <1>1. TypeOK /\ TypeOK'
    BY DEF IInv
  <1>2. /\ t \in Conns /\ nic = "poll"
        /\ tcb' = [tcb EXCEPT ![t].rcvNxt = a, ![t].state = "ESTABLISHED"]
        /\ Ack(t, "ack", a) /\ UNCHANGED <<socketData, delivered, freed, nic>>
    BY ArrivesAt DEF ReceiveSynAck, Arrives, nicVars, IInv
  <1>3. tcb'[t].state = "ESTABLISHED" /\ tcb'[t].rcvNxt = a
    BY <1>1, <1>2 DEF TypeOK
  <1>4. /\ Gone' = Gone
        /\ \A k \in Conns : Reach'[k] = Reach[k] /\ Reach[k] <= Reach'[k]
    BY <1>1, <1>2, LimitsStay
  <1>5. ReadOf(t)' = ReadOf(t) /\ ReadOf(t) \in Nat /\ Reach'[t] = ReadOf(t) /\ Ahead(t)' = 0
    BY <1>1, <1>2, <1>4, ReachIs DEF ReadOf, Ahead, InHand, Closing
  <1>6. a = Number(Irs[t], ReadOf(t) + 1 + 0) /\ a \in Numbers
    <2>1. ConnInv!(t)'
      BY <1>2 DEF IInv, ConnInv
    <2>2. tcb'[t].rcvNxt \in Numbers
      BY <1>1, <1>2 DEF TypeOK
    <2> QED
      BY <1>3, <1>5, <2>1, <2>2
  <1>7. \E n \in 0 .. Reach'[t] : a = Number(Irs[t], n + 1)
    <2>1. ReadOf(t) \in 0 .. Reach'[t] /\ ReadOf(t) + 1 = ReadOf(t) + 1 + 0
      BY <1>5
    <2> QED
      BY <1>6, <2>1
  <1> QED
    BY <1>1, <1>2, <1>4, <1>6, <1>7, AckKeeps

LEMMA NextAcks == IInv /\ IInv' /\ AcksOnlyDelivered /\ [Next]_vars => AcksOnlyDelivered'
  <1> SUFFICES ASSUME IInv, IInv', AcksOnlyDelivered, [Next]_vars
               PROVE  AcksOnlyDelivered'
    OBVIOUS
  <1>1. TypeOK'
    BY DEF IInv
  <1>2. CASE Sender \/ ArpReply \/ Peer \/ UNCHANGED vars
    BY <1>1, <1>2, SynSendAcks, DataSendAcks, QuietAcks DEF Sender
  <1>3. CASE GoesOn
    BY <1>1, <1>3, QuietAcks, HearAcks, AckSteps DEF GoesOn
  <1>4. CASE \E g \in ToKernel : Receive(g)
    BY <1>1, <1>4, QuietAcks, AckSteps, SynAckAcks DEF Receive
  <1> QED
    BY <1>2, <1>3, <1>4 DEF Next, Nic

(* The kernel acknowledges no byte its listener has not heard, or is about  *)
(* to hear from the nic thread, so the peer forgets none too early; only a  *)
(* FIN is acknowledged whatever is missing.                                 *)
THEOREM AcksAreHonest == Spec => []AcksOnlyDelivered
  <1>1. Init => AcksOnlyDelivered
    BY DEF Init, AcksOnlyDelivered
  <1> QED
    BY <1>1, InitIInv, NextIInv, NextAcks, PTL DEF Spec

-----------------------------------------------------------------------------
(* What the kernel sends                                                    *)

(* Of block k: the numbered bytes on the wire, those of them counted, the   *)
(* one that is not, and the number the next one gets.                       *)
Bytes(k) == {<<s.seq, s.byte>> : s \in {x \in sent : x.conn = k /\ x.kind = "data"}}
Taken(k) == {<<Number(Iss[k], i), accepted[k][i]>> : i \in 1 .. Len(accepted[k])}
Loose(k) == Bytes(k) \ Taken(k)
NextNumber(k) == Number(Iss[k], Len(accepted[k]) + 1)
Fresh(k) == accepted[k] = << >> /\ Bytes(k) = {}

BlockInv ==
  \A k \in Conns :
    /\ Taken(k) \subseteq Bytes(k)
    /\ \A d, e \in Loose(k) : d = e /\ d[1] = NextNumber(k)
    /\ Loose(k) # {} => k \in freed \/ (At("dataCount") /\ sender.tcb = k)
    /\ tcb[k].state = "ESTABLISHED" => k \notin freed /\ tcb[k].sndNxt = NextNumber(k)
    /\ tcb[k].state \in {"OPENED", "SYN_SENT"} \/ k > created => Fresh(k)
    /\ Len(accepted[k]) <= calls
    /\ sender.pc \notin {"idle", "halted"} => Len(accepted[k]) < calls

(* The byte in the sender's hands is the one that is not counted.           *)
HeldInv ==
  LET k == sender.tcb
      byte == <<NextNumber(k), sender.byte>>
  IN  /\ sender.pc \in {"syn", "synCount"} => Fresh(k)
      /\ sender.pc \in {"data", "dataCount"} => tcb[k].sndNxt = NextNumber(k)
      /\ sender.pc = "data" => Loose(k) = {}
      /\ sender.pc = "dataCount" => byte \in Bytes(k) /\ Loose(k) \subseteq {byte}

(* The nic thread only works on a block that lives.                         *)
LiveInv == nic # "clear" /\ socketData # 0 => socketData \notin freed

SentInv == BlockInv /\ HeldInv /\ LiveInv

LEMMA InitSent == Init => SentInv
  <1> SUFFICES ASSUME Init PROVE SentInv
    OBVIOUS
  <1>1. \A k \in Conns : accepted[k] = << >> /\ Bytes(k) = {} /\ Taken(k) = {} /\ Loose(k) = {}
    BY DEF Init, Bytes, Taken, Loose
  <1>2. \A k \in Conns : Len(accepted[k]) = 0
    BY <1>1
  <1>3. BlockInv
    BY <1>1, <1>2 DEF Init, BlockInv, Fresh
  <1> QED
    BY <1>3 DEF Init, SentInv, HeldInv, LiveInv

LEMMA SentGivesOrder == SentInv => SentInOrder
  <1> SUFFICES ASSUME SentInv, NEW k \in Conns PROVE SentInOrder!(k)
    BY DEF SentInOrder
  <1> QED
    BY DEF SentInv, BlockInv, Bytes, Taken, Loose, NextNumber

(* Only a data segment puts a byte on the wire.                             *)
LEMMA NothingCarried ==
  ASSUME NEW s, IpSend(s), s.kind # "data"
  PROVE  \A k : Bytes(k)' = Bytes(k)
  BY DEF IpSend, Bytes

LEMMA NoByteInAck ==
  ASSUME TypeOK, NEW t \in Conns, NEW kind \in {"ack", "finack"}, NEW a \in Numbers,
         Ack(t, kind, a)
  PROVE  \A k : Bytes(k)' = Bytes(k)
  <1> DEFINE s == [Segment(t, "ack", a, 0) EXCEPT !.kind = kind]
  <1>1. s.kind # "data"
    BY DEF Segment
  <1>2. IpSend(s)
    BY DEF Ack
  <1> HIDE DEF s
  <1> QED
    BY <1>1, <1>2, NothingCarried

(* While nothing is sent or counted, what is on the wire stays in order.    *)
LEMMA Quiet ==
  ASSUME UNCHANGED accepted, \A k : Bytes(k)' = Bytes(k)
  PROVE  \A k : /\ Taken(k)' = Taken(k) /\ Loose(k)' = Loose(k)
                /\ NextNumber(k)' = NextNumber(k) /\ Fresh(k)' = Fresh(k)
                /\ accepted'[k] = accepted[k]
  BY DEF Taken, Loose, NextNumber, Fresh

LEMMA SocketSendSent == IInv /\ SentInv /\ SocketSend => SentInv'
  <1> SUFFICES ASSUME IInv, SentInv, SocketSend PROVE SentInv'
    OBVIOUS
  <1>0. TypeOK
    BY DEF IInv
  <1>1. /\ UNCHANGED <<accepted, freed, nic, held, sent>>
        /\ sender.pc = "idle" /\ sender'.pc \in {"connect", "wait"}
        /\ calls' = calls + 1
    BY <1>0 DEF SocketSend, nicVars, At, TypeOK
  <1>2. \A k : Bytes(k)' = Bytes(k)
    BY <1>1 DEF Bytes
  <1>3. \A k : /\ Taken(k)' = Taken(k) /\ Loose(k)' = Loose(k)
               /\ NextNumber(k)' = NextNumber(k) /\ Fresh(k)' = Fresh(k)
               /\ accepted'[k] = accepted[k]
    BY <1>1, <1>2, Quiet
  <1>4. \A k \in Conns : Len(accepted[k]) \in Nat /\ Len(accepted[k]) <= calls /\ calls \in Nat
    BY <1>0, Bounds DEF TypeOK, SentInv, BlockInv
  <1>5. /\ \A k \in Conns : \/ tcb'[k] = tcb[k]
                            \/ k > created /\ tcb'[k].state = "OPENED"
        /\ created' \in Nat /\ created' >= created /\ created \in Nat
        /\ socketData' = socketData \/ socketData' = created + 1
    <2>1. created \in 0 .. MaxConn
      BY <1>0 DEF TypeOK
    <2>2. CASE socketData = 0
      <3>1. /\ created' = created + 1 /\ socketData' = created'
            /\ tcb' = [tcb EXCEPT ![created'] = [state |-> "OPENED", sndNxt |-> Iss[created'], rcvNxt |-> 0]]
        BY <2>2 DEF SocketSend
      <3>2. created' \in Nat /\ created' > created /\ created \in Nat
        BY <2>1, <3>1, Bounds
      <3>3. \A k \in Conns : tcb'[k] = tcb[k] \/ (k = created' /\ tcb'[k].state = "OPENED")
        BY <1>0, <3>1 DEF TypeOK
      <3> QED
        BY <3>1, <3>2, <3>3
    <2>3. CASE socketData # 0
      <3>1. UNCHANGED <<tcb, created, socketData>>
        BY <2>3 DEF SocketSend
      <3> QED
        BY <2>1, <3>1, Bounds
    <2> QED
      BY <2>2, <2>3
  <1>6. BlockInv'
    <2> SUFFICES ASSUME NEW k \in Conns PROVE BlockInv!(k)'
      BY DEF BlockInv
    <2>1. k \in Nat
      BY Bounds DEF Conns
    <2>2. tcb'[k].state = "ESTABLISHED" => k \notin freed' /\ tcb'[k].sndNxt = NextNumber(k)'
      BY <1>1, <1>3, <1>5 DEF SentInv, BlockInv
    <2>3. tcb'[k].state \in {"OPENED", "SYN_SENT"} \/ k > created' => Fresh(k)'
      BY <1>3, <1>5, <2>1 DEF SentInv, BlockInv
    <2>4. Len(accepted'[k]) <= calls' /\ Len(accepted'[k]) < calls'
      BY <1>1, <1>3, <1>4
    <2> QED
      BY <1>1, <1>2, <1>3, <2>2, <2>3, <2>4 DEF SentInv, BlockInv, At
  <1>7. HeldInv'
    BY <1>1 DEF HeldInv
  <1>8. LiveInv'
    BY <1>0, <1>1, <1>5 DEF SentInv, LiveInv, TypeOK
  <1> QED
    BY <1>6, <1>7, <1>8 DEF SentInv

LEMMA TcpSendSent == IInv /\ SentInv /\ TcpSend => SentInv'
  <1> SUFFICES ASSUME IInv, SentInv, TcpSend PROVE SentInv'
    OBVIOUS
  <1>0. TypeOK
    BY DEF IInv
  <1>1. /\ UNCHANGED <<socketData, created, tcb, calls, accepted, freed, nic, held, sent>>
        /\ sender.pc \in {"connect", "send"}
        /\ sender'.tcb = socketData /\ sender'.pc \in {"idle", "syn", "data"}
        /\ sender'.pc = "syn" => socketData # 0 /\ tcb[socketData].state = "OPENED"
        /\ sender'.pc = "data" => socketData # 0 /\ tcb[socketData].state = "ESTABLISHED"
    BY <1>0 DEF TcpSend, nicVars, TypeOK
  <1>2. \A k : Bytes(k)' = Bytes(k)
    BY <1>1 DEF Bytes
  <1>3. \A k : /\ Taken(k)' = Taken(k) /\ Loose(k)' = Loose(k)
               /\ NextNumber(k)' = NextNumber(k) /\ Fresh(k)' = Fresh(k)
               /\ accepted'[k] = accepted[k]
    BY <1>1, <1>2, Quiet
  <1>4. BlockInv'
    BY <1>1, <1>2, <1>3 DEF SentInv, BlockInv, At
  <1>5. socketData # 0 => socketData \in Conns
    BY <1>0, Bounds DEF TypeOK, Conns
  <1>6. HeldInv'
    <2>1. CASE sender'.pc = "syn"
      BY <1>1, <1>3, <1>5, <2>1 DEF SentInv, BlockInv, HeldInv
    <2>2. CASE sender'.pc = "data"
      <3>1. /\ socketData \notin freed /\ tcb[socketData].sndNxt = NextNumber(socketData)
            /\ Loose(socketData) = {}
        BY <1>1, <1>5, <2>2 DEF SentInv, BlockInv, At
      <3> QED
        BY <1>1, <1>3, <2>2, <3>1 DEF HeldInv
    <2>3. CASE sender'.pc = "idle"
      BY <2>3 DEF HeldInv
    <2> QED
      BY <1>1, <2>1, <2>2, <2>3
  <1>7. LiveInv'
    BY <1>1 DEF SentInv, LiveInv
  <1> QED
    BY <1>4, <1>6, <1>7 DEF SentInv

LEMMA SynSendSent == IInv /\ SentInv /\ SynSend => SentInv'
  <1> SUFFICES ASSUME IInv, SentInv, SynSend PROVE SentInv'
    OBVIOUS
  <1>0. TypeOK
    BY DEF IInv
  <1> DEFINE b == sender.tcb
             s == Segment(b, "syn", 0, 0)
  <1>1. /\ UNCHANGED <<socketData, created, calls, accepted, freed, nic, held>>
        /\ tcb' = [tcb EXCEPT ![b].state = "SYN_SENT"]
        /\ sender.pc = "syn" /\ sender'.tcb = b
        /\ sender'.pc \in {"synCount", "idle"}
        /\ IpSend(s)
    BY <1>0 DEF SynSend, nicVars, At, Goto, TypeOK
  <1>2. s.kind # "data"
    BY DEF Segment
  <1> HIDE DEF s
  <1>3. \A k : Bytes(k)' = Bytes(k)
    BY <1>1, <1>2, NothingCarried
  <1>4. \A k : /\ Taken(k)' = Taken(k) /\ Loose(k)' = Loose(k)
               /\ NextNumber(k)' = NextNumber(k) /\ Fresh(k)' = Fresh(k)
               /\ accepted'[k] = accepted[k]
    BY <1>1, <1>3, Quiet
  <1>5. b \in Conns /\ Fresh(b)
    BY <1>0, <1>1, Bounds DEF IInv, SenderInv, TypeOK, Conns, SentInv, HeldInv
  <1>6. /\ tcb'[b].state = "SYN_SENT"
        /\ \A k \in Conns : k # b => tcb'[k] = tcb[k]
    BY <1>0, <1>1, <1>5 DEF TypeOK
  <1> HIDE DEF b
  <1>7. BlockInv'
    <2> SUFFICES ASSUME NEW k \in Conns PROVE BlockInv!(k)'
      BY DEF BlockInv
    <2>1. CASE k = b
      BY <1>1, <1>3, <1>4, <1>5, <1>6, <2>1 DEF SentInv, BlockInv, At
    <2>2. CASE k # b
      BY <1>1, <1>3, <1>4, <1>6, <2>2 DEF SentInv, BlockInv, At
    <2> QED
      BY <2>1, <2>2
  <1>8. HeldInv' /\ LiveInv'
    BY <1>1, <1>4, <1>5 DEF SentInv, HeldInv, LiveInv
  <1> QED
    BY <1>7, <1>8 DEF SentInv

LEMMA SynCountSent == IInv /\ SentInv /\ SynCount => SentInv'
  <1> SUFFICES ASSUME IInv, SentInv, SynCount PROVE SentInv'
    OBVIOUS
  <1>0. TypeOK
    BY DEF IInv
  <1> DEFINE b == sender.tcb
  <1>1. /\ UNCHANGED <<socketData, created, calls, accepted, freed, nic, held, sent>>
        /\ tcb' = Counted(b)
        /\ sender.pc = "synCount" /\ sender'.tcb = b /\ sender'.pc = "wait"
    BY <1>0 DEF SynCount, nicVars, At, Goto, TypeOK
  <1>2. \A k : Bytes(k)' = Bytes(k)
    BY <1>1 DEF Bytes
  <1>3. \A k : /\ Taken(k)' = Taken(k) /\ Loose(k)' = Loose(k)
               /\ NextNumber(k)' = NextNumber(k) /\ Fresh(k)' = Fresh(k)
               /\ accepted'[k] = accepted[k]
    BY <1>1, <1>2, Quiet
  <1>4. b \in Conns /\ tcb[b].state # "ESTABLISHED"
    BY <1>0, <1>1, Bounds DEF IInv, SenderInv, TypeOK, Conns
  <1>5. /\ tcb'[b].state = tcb[b].state
        /\ \A k \in Conns : k # b => tcb'[k] = tcb[k]
    BY <1>0, <1>1, <1>4, CountedIs
  <1> HIDE DEF b
  <1>6. BlockInv'
    <2> SUFFICES ASSUME NEW k \in Conns PROVE BlockInv!(k)'
      BY DEF BlockInv
    <2>1. CASE k = b
      BY <1>1, <1>2, <1>3, <1>4, <1>5, <2>1 DEF SentInv, BlockInv, At
    <2>2. CASE k # b
      BY <1>1, <1>2, <1>3, <1>5, <2>2 DEF SentInv, BlockInv, At
    <2> QED
      BY <2>1, <2>2
  <1>7. HeldInv' /\ LiveInv'
    BY <1>1 DEF SentInv, HeldInv, LiveInv
  <1> QED
    BY <1>6, <1>7 DEF SentInv

(* The byte goes out under the number its block is at, and is not counted.  *)
LEMMA DataSendSent == IInv /\ SentInv /\ DataSend => SentInv'
  <1> SUFFICES ASSUME IInv, SentInv, DataSend PROVE SentInv'
    OBVIOUS
  <1>0. TypeOK
    BY DEF IInv
  <1> PICK b : b = sender.tcb
    OBVIOUS
  <1> DEFINE s == Segment(b, "data", tcb[b].rcvNxt, sender.byte)
             byte == <<NextNumber(b), sender.byte>>
  <1>1. /\ UNCHANGED <<socketData, created, tcb, calls, accepted, freed, nic, held>>
        /\ sender.pc = "data" /\ sender'.tcb = b /\ sender'.byte = sender.byte
        /\ IpSend(s)
        /\ sender'.pc = IF arp = "known" THEN "dataCount" ELSE "idle"
    BY <1>0 DEF DataSend, nicVars, At, Goto, TypeOK
  <1>2. /\ b \in Conns /\ b <= created
        /\ tcb[b].state \in {"ESTABLISHED", "CLOSED"}
    BY <1>0, <1>1, Bounds DEF IInv, SenderInv, TypeOK, Conns
  <1>3. tcb[b].sndNxt = NextNumber(b) /\ Loose(b) = {}
    BY <1>1 DEF SentInv, HeldInv
  <1>4. s.conn = b /\ s.kind = "data" /\ <<s.seq, s.byte>> = byte
    BY <1>3 DEF Segment
  <1>5. \A k : /\ Taken(k)' = Taken(k) /\ NextNumber(k)' = NextNumber(k)
               /\ accepted'[k] = accepted[k]
    BY <1>1 DEF Taken, NextNumber
  <1> HIDE DEF s
  <1>6. CASE arp = "known"
    <2>1. sent' = sent \union {s}
      BY <1>1, <1>6 DEF IpSend
    <2>2. \A k : Bytes(k)' = IF k = b THEN Bytes(k) \union {byte} ELSE Bytes(k)
      BY <1>4, <2>1 DEF Bytes
    <2> HIDE DEF byte
    <2>3. \A k \in Conns : k # b => /\ Bytes(k)' = Bytes(k) /\ Loose(k)' = Loose(k)
                                    /\ Fresh(k)' = Fresh(k)
      BY <1>5, <2>2 DEF Loose, Fresh
    <2>4. Loose(b)' \subseteq {byte} /\ byte \in Bytes(b)' /\ Bytes(b) \subseteq Bytes(b)'
      BY <1>3, <1>5, <2>2 DEF Loose
    <2>5. byte = <<NextNumber(b)', sender'.byte>> /\ sender'.pc = "dataCount"
      BY <1>1, <1>5, <1>6 DEF byte
    <2>6. BlockInv'
      <3> SUFFICES ASSUME NEW k \in Conns PROVE BlockInv!(k)'
        BY DEF BlockInv
      <3>1. CASE k = b
        <4>1. Taken(b)' \subseteq Bytes(b)'
          BY <1>2, <1>5, <2>4 DEF SentInv, BlockInv
        <4>2. \A d, e \in Loose(b)' : d = e /\ d[1] = NextNumber(b)'
          BY <2>4, <2>5
        <4>3. ~(tcb'[b].state \in {"OPENED", "SYN_SENT"} \/ b > created')
          BY <1>0, <1>1, <1>2, Bounds DEF TypeOK, Conns
        <4> QED
          BY <1>1, <1>2, <1>5, <2>5, <3>1, <4>1, <4>2, <4>3 DEF SentInv, BlockInv, At
      <3>2. CASE k # b
        BY <1>1, <1>5, <2>3, <2>5, <3>2 DEF SentInv, BlockInv, At
      <3> QED
        BY <3>1, <3>2
    <2>7. HeldInv'
      BY <1>1, <1>3, <1>5, <2>4, <2>5 DEF HeldInv
    <2>8. LiveInv'
      BY <1>1 DEF SentInv, LiveInv
    <2> QED
      BY <2>6, <2>7, <2>8 DEF SentInv
  <1>7. CASE arp # "known"
    <2>1. \A k : Bytes(k)' = Bytes(k)
      BY <1>1, <1>7 DEF IpSend, Bytes
    <2>2. \A k : Loose(k)' = Loose(k) /\ Fresh(k)' = Fresh(k)
      BY <1>1, <2>1, Quiet
    <2>3. BlockInv'
      BY <1>1, <1>5, <1>7, <2>1, <2>2 DEF SentInv, BlockInv, At
    <2> QED
      BY <1>1, <1>7, <2>3 DEF SentInv, HeldInv, LiveInv
  <1> QED
    BY <1>6, <1>7

(* It is counted under the number it went out with.                         *)
LEMMA DataCountSent == IInv /\ SentInv /\ DataCount => SentInv'
  <1> SUFFICES ASSUME IInv, SentInv, DataCount PROVE SentInv'
    OBVIOUS
  <1>0. TypeOK
    BY DEF IInv
  <1> PICK b : b = sender.tcb
    OBVIOUS
  <1> DEFINE n == Len(accepted[b])
             byte == <<NextNumber(b), sender.byte>>
  <1>1. /\ UNCHANGED <<socketData, created, calls, freed, nic, held, sent>>
        /\ tcb' = Counted(b)
        /\ accepted' = [accepted EXCEPT ![b] = Append(@, sender.byte)]
        /\ sender.pc = "dataCount" /\ sender'.tcb = b /\ sender'.pc = "idle"
    BY <1>0 DEF DataCount, nicVars, At, Goto, TypeOK
  <1>2. /\ b \in Conns /\ b <= created
        /\ tcb[b].state \in {"ESTABLISHED", "CLOSED"}
    BY <1>0, <1>1, Bounds DEF IInv, SenderInv, TypeOK, Conns
  <1>3. /\ tcb[b].sndNxt = NextNumber(b)
        /\ byte \in Bytes(b) /\ Loose(b) \subseteq {byte}
    BY <1>1 DEF SentInv, HeldInv
  <1>4. \A k : Bytes(k)' = Bytes(k)
    BY <1>1 DEF Bytes
  <1>5. /\ accepted[b] \in Seq(0 .. MaxSend) /\ sender.byte \in 0 .. MaxSend
        /\ n \in Nat /\ n < calls /\ calls \in 0 .. MaxSend
    BY <1>0, <1>1, <1>2 DEF TypeOK, SentInv, BlockInv
  <1>6. /\ accepted'[b] = Append(accepted[b], sender.byte)
        /\ \A k \in Conns : k # b => accepted'[k] = accepted[k]
    BY <1>0, <1>1, <1>2 DEF TypeOK
  <1>7. /\ Len(accepted'[b]) = n + 1
        /\ accepted'[b][n + 1] = sender.byte
        /\ \A i \in 1 .. n : accepted'[b][i] = accepted[b][i]
    BY <1>5, <1>6
  <1>8. Taken(b)' = Taken(b) \union {byte}
    <2>1. 1 .. n + 1 = (1 .. n) \union {n + 1}
      BY <1>5
    <2>2. {<<Number(Iss[b], i), accepted'[b][i]>> : i \in 1 .. n + 1}
            = {<<Number(Iss[b], i), accepted[b][i]>> : i \in 1 .. n} \union {byte}
      BY <1>5, <1>7, <2>1 DEF NextNumber
    <2>3. Taken(b)' = {<<Number(Iss[b], i), accepted'[b][i]>> : i \in 1 .. n + 1}
      BY <1>1, <1>7 DEF Taken
    <2> QED
      BY <2>2, <2>3 DEF Taken
  <1>9. NextNumber(b)' = Number(NextNumber(b), 1)
    <2>1. n + 1 \in 0 .. Space - 1 /\ Iss[b] \in Numbers
      BY <1>2, <1>5, Bounds, InitialNumbers
    <2>2. Number(Number(Iss[b], n + 1), 1) = Number(Iss[b], n + 1 + 1)
      BY <2>1, NumberNext
    <2> QED
      BY <1>1, <1>7, <2>2 DEF NextNumber
  <1>10. /\ tcb'[b].state = tcb[b].state /\ tcb'[b].sndNxt = NextNumber(b)'
         /\ \A k \in Conns : k # b => tcb'[k] = tcb[k]
    BY <1>0, <1>1, <1>2, <1>3, <1>9, CountedIs
  <1>11. Loose(b)' = {}
    BY <1>3, <1>4, <1>8 DEF Loose
  <1>12. \A k \in Conns : k # b => /\ Taken(k)' = Taken(k) /\ Loose(k)' = Loose(k)
                                   /\ NextNumber(k)' = NextNumber(k) /\ Fresh(k)' = Fresh(k)
    BY <1>4, <1>6 DEF Taken, Loose, NextNumber, Fresh
  <1> HIDE DEF n, byte
  <1>13. BlockInv'
    <2> SUFFICES ASSUME NEW k \in Conns PROVE BlockInv!(k)'
      BY DEF BlockInv
    <2>1. CASE k = b
      <3>1. Taken(b)' \subseteq Bytes(b)'
        BY <1>2, <1>3, <1>4, <1>8 DEF SentInv, BlockInv
      <3>2. tcb'[b].state = "ESTABLISHED" => b \notin freed'
        BY <1>1, <1>2, <1>10 DEF SentInv, BlockInv
      <3>3. ~(tcb'[b].state \in {"OPENED", "SYN_SENT"} \/ b > created')
        BY <1>0, <1>1, <1>2, <1>10, Bounds DEF TypeOK, Conns
      <3>4. Len(accepted'[b]) <= calls'
        BY <1>1, <1>5, <1>7
      <3> QED
        BY <1>1, <1>10, <1>11, <2>1, <3>1, <3>2, <3>3, <3>4
    <2>2. CASE k # b
      BY <1>1, <1>4, <1>6, <1>10, <1>12, <2>2 DEF SentInv, BlockInv, At
    <2> QED
      BY <2>1, <2>2
  <1>14. HeldInv' /\ LiveInv'
    BY <1>1 DEF SentInv, HeldInv, LiveInv
  <1> QED
    BY <1>13, <1>14 DEF SentInv

(* A sender that finds its block dead leaves the byte behind in it.         *)
LEMMA SenderMovesSent == IInv /\ SentInv /\ (Wait \/ TouchesDead) => SentInv'
  <1> SUFFICES ASSUME IInv, SentInv, Wait \/ TouchesDead PROVE SentInv'
    OBVIOUS
  <1>0. TypeOK
    BY DEF IInv
  <1>1. /\ UNCHANGED <<socketData, created, tcb, calls, accepted, freed, nic, held, sent>>
        /\ sender.pc \notin {"idle", "halted"}
        /\ sender'.pc \in {"wait", "send", "idle", "halted"} /\ sender'.tcb = sender.tcb
        /\ sender.pc = "dataCount" => sender.tcb \in freed
    BY <1>0 DEF Wait, TouchesDead, Touched, nicVars, At, Goto, TypeOK
  <1>2. \A k : Bytes(k)' = Bytes(k)
    BY <1>1 DEF Bytes
  <1>3. \A k : /\ Taken(k)' = Taken(k) /\ Loose(k)' = Loose(k)
               /\ NextNumber(k)' = NextNumber(k) /\ Fresh(k)' = Fresh(k)
               /\ accepted'[k] = accepted[k]
    BY <1>1, <1>2, Quiet
  <1>4. BlockInv'
    BY <1>1, <1>2, <1>3 DEF SentInv, BlockInv, At
  <1>5. HeldInv' /\ LiveInv'
    BY <1>1 DEF SentInv, HeldInv, LiveInv
  <1> QED
    BY <1>4, <1>5 DEF SentInv

(* What the other actors do to a block leaves its numbers alone.            *)
LEMMA OthersSent ==
  ASSUME IInv, SentInv, LiveInv', freed \subseteq freed',
         UNCHANGED <<sender, calls, accepted, created>>,
         \A k : Bytes(k)' = Bytes(k),
         \A k \in Conns :
           /\ tcb'[k].sndNxt = tcb[k].sndNxt
           /\ tcb'[k].state = "ESTABLISHED" => k \notin freed' /\ tcb[k].sndNxt = NextNumber(k)
           /\ tcb'[k].state \in {"OPENED", "SYN_SENT"} => tcb'[k].state = tcb[k].state
  PROVE  SentInv'
  <1>1. \A k : /\ Taken(k)' = Taken(k) /\ Loose(k)' = Loose(k)
               /\ NextNumber(k)' = NextNumber(k) /\ Fresh(k)' = Fresh(k)
               /\ accepted'[k] = accepted[k]
    BY Quiet
  <1>2. BlockInv'
    <2> SUFFICES ASSUME NEW k \in Conns PROVE BlockInv!(k)'
      BY DEF BlockInv
    <2>1. Loose(k)' # {} => k \in freed' \/ (At("dataCount") /\ sender.tcb = k)'
      BY <1>1 DEF SentInv, BlockInv, At
    <2>2. tcb'[k].state = "ESTABLISHED" => k \notin freed' /\ tcb'[k].sndNxt = NextNumber(k)'
      BY <1>1
    <2>3. tcb'[k].state \in {"OPENED", "SYN_SENT"} \/ k > created' => Fresh(k)'
      BY <1>1 DEF SentInv, BlockInv
    <2> QED
      BY <1>1, <2>1, <2>2, <2>3 DEF SentInv, BlockInv
  <1>3. HeldInv'
    <2> PICK b : b = sender.tcb
      OBVIOUS
    <2>1. sender.pc \in {"data", "dataCount"} => b \in Conns
      BY Bounds DEF IInv, TypeOK, SenderInv, Conns
    <2> QED
      BY <1>1, <2>1 DEF SentInv, HeldInv
  <1> QED
    BY <1>2, <1>3 DEF SentInv

LEMMA DeleteSent ==
  ASSUME IInv, SentInv, Close \/ \E g \in ToKernel : ReceiveRst(g)
  PROVE  SentInv'
  <1>0. TypeOK
    BY DEF IInv
  <1> PICK t : t = socketData
    OBVIOUS
  <1>1. t \in Conns
    BY ArrivesAt, NicAt DEF Close, ReceiveRst, IInv
  <1>2. /\ tcb' = [tcb EXCEPT ![t].state = "CLOSED"]
        /\ freed' = freed \union {t} /\ nic' = "clear"
        /\ UNCHANGED <<sender, calls, accepted, created, sent>>
    BY DEF Close, ReceiveRst, Delete, senderVars
  <1>3. /\ tcb'[t].state = "CLOSED" /\ tcb'[t].sndNxt = tcb[t].sndNxt
        /\ \A k \in Conns : k # t => tcb'[k] = tcb[k]
    BY <1>0, <1>1, <1>2 DEF TypeOK
  <1>4. \A k : Bytes(k)' = Bytes(k)
    BY <1>2 DEF Bytes
  <1>5. \A k \in Conns :
           /\ tcb'[k].sndNxt = tcb[k].sndNxt
           /\ tcb'[k].state = "ESTABLISHED" => k \notin freed' /\ tcb[k].sndNxt = NextNumber(k)
           /\ tcb'[k].state \in {"OPENED", "SYN_SENT"} => tcb'[k].state = tcb[k].state
    BY <1>2, <1>3 DEF SentInv, BlockInv
  <1>6. LiveInv'
    BY <1>2 DEF LiveInv
  <1> QED
    BY <1>2, <1>4, <1>5, <1>6, OthersSent

(* The answer to the SYN finds the SYN counted and nothing sent after it.   *)
LEMMA ReceiveSynAckSent ==
  ASSUME IInv, SentInv, NEW g \in ToKernel, ReceiveSynAck(g)
  PROVE  SentInv'
  <1>0. TypeOK
    BY DEF IInv
  <1> PICK t : t = socketData
    OBVIOUS
  <1> DEFINE a == Number(g.seq, 1)
  <1>1. t \in Conns /\ nic = "poll" /\ t # 0
    BY ArrivesAt DEF ReceiveSynAck, Arrives, IInv
  <1>2. /\ tcb[t].state = "SYN_SENT" /\ g.kind = "synack" /\ g.ack = tcb[t].sndNxt
        /\ tcb' = [tcb EXCEPT ![t].rcvNxt = a, ![t].state = "ESTABLISHED"]
        /\ Ack(t, "ack", a)
        /\ UNCHANGED <<socketData, created, sender, calls, accepted, freed, nic, held>>
    BY DEF ReceiveSynAck, AnswersSyn, senderVars, nicVars
  <1>3. g.conn \in Conns /\ g.ack = Number(Iss[g.conn], 1) /\ g.seq = Irs[g.conn]
    BY <1>0, <1>2, Incoming
  <1>4. tcb[t].sndNxt \in {Number(Iss[t], 0), Number(Iss[t], 1)}
    BY <1>1, <1>2 DEF IInv, ConnInv
  <1>5. tcb[t].sndNxt = Number(Iss[t], 1)
    BY <1>1, <1>2, <1>3, <1>4, IssApart
  <1>6. accepted[t] = << >>
    BY <1>1, <1>2 DEF SentInv, BlockInv, Fresh
  <1>7. tcb[t].sndNxt = NextNumber(t)
    BY <1>5, <1>6 DEF NextNumber
  <1>8. a \in Numbers
    <2>1. Irs[g.conn] \in Numbers /\ 1 \in 0 .. Space
      BY <1>3, InitialNumbers, Bounds
    <2> QED
      BY <1>3, <2>1, Wrap
  <1> HIDE DEF a
  <1>9. \A k : Bytes(k)' = Bytes(k)
    BY <1>0, <1>1, <1>2, <1>8, NoByteInAck
  <1>10. /\ tcb'[t].state = "ESTABLISHED" /\ tcb'[t].sndNxt = tcb[t].sndNxt
         /\ \A k \in Conns : k # t => tcb'[k] = tcb[k]
    BY <1>0, <1>1, <1>2 DEF TypeOK
  <1>11. t \notin freed
    BY <1>1 DEF SentInv, LiveInv
  <1>12. \A k \in Conns :
           /\ tcb'[k].sndNxt = tcb[k].sndNxt
           /\ tcb'[k].state = "ESTABLISHED" => k \notin freed' /\ tcb[k].sndNxt = NextNumber(k)
           /\ tcb'[k].state \in {"OPENED", "SYN_SENT"} => tcb'[k].state = tcb[k].state
    BY <1>2, <1>7, <1>10, <1>11 DEF SentInv, BlockInv
  <1>13. LiveInv'
    BY <1>2 DEF SentInv, LiveInv
  <1> QED
    BY <1>2, <1>9, <1>12, <1>13, OthersSent

(* What the nic thread counts and acknowledges changes no number it sends.  *)
LEMMA ReceivesSent ==
  ASSUME IInv, SentInv,
         \/ \E g \in ToKernel : ReceiveFin(g) \/ ReceiveData(g) \/ ReceiveOutOfOrder(g)
         \/ AckFin \/ AckData
  PROVE  SentInv'
  <1>0. TypeOK
    BY DEF IInv
  <1> PICK t : t = socketData
    OBVIOUS
  <1>1. t \in Conns /\ tcb[t].rcvNxt \in Numbers
    <2>1. t \in Conns
      BY ArrivesAt, NicAt DEF ReceiveFin, ReceiveData, ReceiveOutOfOrder, Carries, AckFin,
                              AckData, IInv
    <2> QED
      BY <1>0, <2>1 DEF TypeOK
  <1>2. /\ \/ UNCHANGED sent
           \/ \E kind \in {"ack", "finack"} : Ack(t, kind, tcb[t].rcvNxt)
        /\ tcb' = tcb \/ tcb' = [tcb EXCEPT ![t].rcvNxt = Number(@, 1)]
        /\ UNCHANGED <<socketData, created, sender, calls, accepted, freed>>
        /\ nic # "clear" /\ nic' # "clear"
    BY DEF ReceiveFin, ReceiveData, ReceiveOutOfOrder, Carries, Arrives, AckFin, AckData,
           senderVars, nicVars
  <1>3. \A k \in Conns : tcb'[k].state = tcb[k].state /\ tcb'[k].sndNxt = tcb[k].sndNxt
    <2>1. tcb \in [Conns -> [state : States, sndNxt : Numbers, rcvNxt : Numbers]]
      BY <1>0 DEF TypeOK
    <2> DEFINE n == Number(tcb[t].rcvNxt, 1)
    <2>2. tcb' = tcb \/ tcb' = [tcb EXCEPT ![t].rcvNxt = n]
      BY <1>1, <1>2, <2>1
    <2> HIDE DEF n
    <2> QED
      BY ONLY <1>1, <2>1, <2>2
  <1>4. \A k : Bytes(k)' = Bytes(k)
    <2>1. CASE UNCHANGED sent
      BY <2>1 DEF Bytes
    <2>2. CASE \E kind \in {"ack", "finack"} : Ack(t, kind, tcb[t].rcvNxt)
      BY <1>0, <1>1, <2>2, NoByteInAck
    <2> QED
      BY <1>2, <2>1, <2>2
  <1>5. \A k \in Conns :
           /\ tcb'[k].sndNxt = tcb[k].sndNxt
           /\ tcb'[k].state = "ESTABLISHED" => k \notin freed' /\ tcb[k].sndNxt = NextNumber(k)
           /\ tcb'[k].state \in {"OPENED", "SYN_SENT"} => tcb'[k].state = tcb[k].state
    BY <1>2, <1>3 DEF SentInv, BlockInv
  <1>6. LiveInv'
    BY <1>2 DEF SentInv, LiveInv
  <1> QED
    BY <1>2, <1>4, <1>5, <1>6, OthersSent

LEMMA RestSent ==
  ASSUME IInv, SentInv, Clear \/ Hear \/ ArpReply \/ Peer \/ UNCHANGED vars
  PROVE  SentInv'
  <1>1. /\ UNCHANGED <<created, tcb, sender, calls, accepted, freed, sent>>
        /\ \/ socketData' = 0 \/ UNCHANGED <<socketData, nic>>
           \/ nic # "clear" /\ UNCHANGED socketData
    <2>1. CASE Peer
      BY <2>1, PeerIs DEF IInv, Peer, PeerAnswers, PeerEstablishes, PeerWrites, PeerCloses,
                          PeerAborts, PeerKeeps, nicVars
    <2>2. CASE Clear \/ Hear \/ ArpReply \/ UNCHANGED vars
      BY <2>2 DEF Clear, Hear, ArpReply, vars, senderVars, nicVars
    <2> QED
      BY <2>1, <2>2
  <1>2. \A k : Bytes(k)' = Bytes(k)
    BY <1>1 DEF Bytes
  <1>3. LiveInv'
    BY <1>1 DEF SentInv, LiveInv
  <1>4. \A k \in Conns :
           /\ tcb'[k].sndNxt = tcb[k].sndNxt
           /\ tcb'[k].state = "ESTABLISHED" => k \notin freed' /\ tcb[k].sndNxt = NextNumber(k)
           /\ tcb'[k].state \in {"OPENED", "SYN_SENT"} => tcb'[k].state = tcb[k].state
    BY <1>1 DEF SentInv, BlockInv
  <1> QED
    BY <1>1, <1>2, <1>3, <1>4, OthersSent

LEMMA NextSent == IInv /\ SentInv /\ [Next]_vars => SentInv'
  <1> SUFFICES ASSUME IInv, SentInv, [Next]_vars PROVE SentInv'
    OBVIOUS
  <1>1. CASE Sender
    BY <1>1, SocketSendSent, TcpSendSent, SynSendSent, SynCountSent, DataSendSent,
       DataCountSent, SenderMovesSent DEF Sender
  <1>2. CASE \E g \in ToKernel : Receive(g)
    <2>1. PICK g \in ToKernel : Receive(g)
      BY <1>2
    <2> QED
      BY <2>1, DeleteSent, ReceiveSynAckSent, ReceivesSent DEF Receive
  <1>3. CASE GoesOn \/ ArpReply \/ Peer \/ UNCHANGED vars
    BY <1>3, DeleteSent, ReceivesSent, RestSent DEF GoesOn
  <1> QED
    BY <1>1, <1>2, <1>3 DEF Next, Nic

(* Wherever the nic thread preempts the sender, and whether it acknowledges *)
(* or deletes the block there, the bytes of a connection go out under       *)
(* consecutive numbers, and the one not counted yet has the next.           *)
THEOREM BytesAreNumbered == Spec => []SentInOrder
  BY InitIInv, NextIInv, InitSent, NextSent, SentGivesOrder, PTL DEF Spec

-----------------------------------------------------------------------------
(* What the listener hears                                                  *)

LEMMA StreamInit == Init => Stream!Init
  <1> SUFFICES ASSUME Init PROVE Stream!Init
    OBVIOUS
  <1>1. \A k \in Conns : peer[k].written = 0
    BY DEF Init
  <1> QED
    BY <1>1 DEF Init, Stream!Init, Written, Conns, Stream!Conns

LEMMA StreamNext == IInv /\ [Next]_vars => [Stream!Next]_(Stream!vars)
  <1> SUFFICES ASSUME IInv, [Next]_vars PROVE [Stream!Next]_(Stream!vars)
    OBVIOUS
  <1> USE DEF IInv
  <1>1. CASE UNCHANGED <<delivered, peer>>
    BY <1>1 DEF Stream!vars, Written
  <1>2. CASE Hear
    <2> DEFINE t == socketData
    <2>1. /\ t \in Conns /\ t = created
          /\ ReadOf(t) < peer[t].written
          /\ delivered' = [delivered EXCEPT ![t] = Append(@, <<t, Len(@) + 1>>)]
      BY <1>2, HearIs
    <2>2. Written' = Written
      BY <1>2 DEF Hear, Written
    <2>3. Len(delivered[t]) < Written[t]
      BY <2>1 DEF ReadOf, Written
    <2>4. ASSUME NEW l \in Conns, l > t
          PROVE  delivered[l] = << >>
      <3>1. Len(delivered[l]) = 0 /\ delivered[l] \in Seq(Conns \X (1 .. PeerData))
        BY <2>1, <2>4 DEF ConnInv, ReadOf, TypeOK
      <3> QED
        BY <3>1
    <2>5. Stream!Read(t)
      BY <2>1, <2>2, <2>3, <2>4 DEF Stream!Read, Conns, Stream!Conns
    <2> QED
      BY <2>1, <2>5 DEF Stream!Next, Conns, Stream!Conns
  <1>3. ASSUME NEW k \in Conns, PeerWrites(k)
        PROVE  Stream!Next
    <2>1. /\ peer' = [peer EXCEPT ![k].written = @ + 1]
          /\ UNCHANGED delivered
      BY <1>3 DEF PeerWrites, PeerKeeps, nicVars
    <2>2. \A c \in Conns : peer'[c].written = IF c = k THEN peer[c].written + 1
                                             ELSE peer[c].written
      BY <2>1 DEF TypeOK
    <2>3. Written' = [Written EXCEPT ![k] = @ + 1]
      BY <2>2 DEF Written
    <2> QED
      BY <2>1, <2>3 DEF Stream!Next, Stream!Write, Conns, Stream!Conns
  <1>4. ASSUME NEW k \in Conns, PeerAnswers(k) \/ PeerEstablishes(k) \/ PeerCloses(k) \/ PeerAborts(k)
        PROVE  UNCHANGED <<Written, delivered>>
    <2>1. \E x : peer' = [peer EXCEPT ![k].state = x]
      BY <1>4 DEF PeerAnswers, PeerEstablishes, PeerCloses, PeerAborts, PeerGoes
    <2>2. \A c \in Conns : peer'[c].written = peer[c].written
      BY <2>1 DEF TypeOK
    <2>3. UNCHANGED delivered
      BY <1>4 DEF PeerAnswers, PeerEstablishes, PeerCloses, PeerAborts, PeerKeeps, nicVars
    <2> QED
      BY <2>2, <2>3 DEF Written
  <1>5. CASE Peer
    <2>1. PICK k \in Conns : PeerAnswers(k) \/ PeerEstablishes(k) \/ PeerWrites(k)
                             \/ PeerCloses(k) \/ PeerAborts(k)
      BY <1>5 DEF Peer
    <2> QED
      BY <1>3, <1>4, <2>1 DEF Stream!vars
  <1>6. CASE GoesOn \/ \E g \in ToKernel : Receive(g)
    <2>1. Hear \/ UNCHANGED <<delivered, peer>>
      BY <1>6 DEF GoesOn, AckFin, Close, Clear, AckData, Receive, ReceiveFin, ReceiveRst,
                  ReceiveSynAck, ReceiveData, ReceiveOutOfOrder, nicVars
    <2> QED
      BY <1>1, <1>2, <2>1
  <1>7. CASE Sender \/ ArpReply \/ UNCHANGED vars
    <2>1. UNCHANGED <<delivered, peer>>
      BY <1>7 DEF Sender, SocketSend, TcpSend, SynSend, SynCount, Wait, DataSend, DataCount,
                  TouchesDead, ArpReply, nicVars, vars
    <2> QED
      BY <1>1, <2>1
  <1> QED
    BY <1>5, <1>6, <1>7 DEF Next, Nic

(* Whatever the network loses, repeats or reorders, the listener hears a    *)
(* byte stream of every connection.                                         *)
THEOREM SocketIsByteStream == Spec => IsByteStream
  BY StreamInit, StreamNext, InitIInv, NextIInv, PTL DEF Spec, IsByteStream, Stream!Spec
=============================================================================
