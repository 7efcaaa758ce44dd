----------------------------- MODULE NetCodecs -----------------------------
(***************************************************************************)
(* The pure parts of the network stack, as operators on sequences of bytes: *)
(* host names in DNS packets (dns.cpp), the option area of DHCP packets     *)
(* (dhcp.cpp) and the Internet checksum (ip.cpp, icmp.cpp, udp.cpp).        *)
(* Offsets are the source's, counted from 0.                                *)
(***************************************************************************)
EXTENDS Integers, Sequences, SequencesExt

CONSTANTS
  MaxLabel,    \* 63
  MaxName,     \* DNS_MAX_NAME_LENGTH
  OptionSize,  \* sizeof(dhcp_packet_t::options)
  Word         \* 2^16, one more than a checksum holds

Dot == 46
Null == [name |-> <<-1>>, next |-> 0]
Byte(src, offset) == src[offset + 1]
Part(src, offset, n) == SubSeq(src, offset + 1, offset + n)

-----------------------------------------------------------------------------
(* dns_encode_hostname: the labels up to the first one that is empty, into  *)
(* a block of MaxName + 1 bytes.                                            *)

RECURSIVE Labels(_)
Labels(hostname) ==
  LET dots == {i \in DOMAIN hostname : hostname[i] = Dot}
      n == IF dots = {} THEN Len(hostname) ELSE (CHOOSE i \in dots : \A j \in dots : i <= j) - 1
  IN IF n = 0 THEN <<>>
     ELSE <<SubSeq(hostname, 1, n)>> \o Labels(SubSeq(hostname, n + 2, Len(hostname)))

Encode(hostname) ==
  LET labels == Labels(hostname)
  IN FlattenSeq([i \in DOMAIN labels |-> <<Len(labels[i])>> \o labels[i]]) \o <<0>>

(* What is written into the block: a long label ends it before its turn,    *)
(* the length of the whole is looked at only when everything is written,    *)
(* past the end of the block if need be.                                    *)
TooLong(labels) == {i \in DOMAIN labels : Len(labels[i]) > MaxLabel}
Stored(hostname) ==
  LET labels == Labels(hostname)
  IN IF TooLong(labels) = {} THEN Encode(hostname)
     ELSE FlattenSeq([i \in 1 .. Min(TooLong(labels)) - 1 |-> <<Len(labels[i])>> \o labels[i]])

Encodes(hostname) == TooLong(Labels(hostname)) = {} /\ Len(Stored(hostname)) <= MaxName

IsPointer(len) == len \div 64 = 3
Target(src, offset) == (Byte(src, offset) % 64) * 256 + Byte(src, offset + 1)

(* dns_packet_hostname_encoded_length: 0 when the name does not end.        *)
RECURSIVE LengthFrom(_, _, _)
LengthFrom(src, offset, loops) ==
  IF offset >= Len(src) \/ loops = 0 THEN 0
  ELSE LET len == Byte(src, offset)
       IN CASE len = 0 -> offset + 1
            [] IsPointer(len) ->
                 IF offset + 1 >= Len(src) \/ Target(src, offset) >= Len(src) THEN 0 ELSE offset + 2
            [] OTHER ->
                 IF len > MaxLabel \/ offset + 1 + len > Len(src) THEN 0
                 ELSE LengthFrom(src, offset + 1 + len, loops - 1)

EncodedLength(src) == LengthFrom(src, 0, MaxName)

(* dns_packet_decode_hostname.  `back` is where the caller goes on after a  *)
(* jump, the offset itself before the first one.                            *)
Joined(out, label) == IF out = <<>> THEN label ELSE out \o <<Dot>> \o label

(* Mutant: the caller goes on where the last jump led. *)
BackLost(back, offset) == offset

Back(back, offset) == IF back = 0 THEN offset ELSE back

RECURSIVE DecodeFrom(_, _, _, _, _, _)
DecodeFrom(src, offset, out, visited, back, loops) ==
  IF offset >= Len(src) /\ loops = 0 THEN Null
  ELSE IF offset >= Len(src) \/ loops = 0 THEN [name |-> out, next |-> Back(back, offset)]
  ELSE LET len == Byte(src, offset)
       IN CASE len = 0 ->
                 IF loops = 1 THEN Null ELSE [name |-> out, next |-> Back(back, offset + 1)]
            [] IsPointer(len) ->
                 IF \/ offset + 1 >= Len(src) \/ Target(src, offset) >= Len(src)
                    \/ Target(src, offset) \in visited
                 THEN Null
                 ELSE DecodeFrom(src, Target(src, offset), out,
                                 visited \union ({Target(src, offset)} \intersect 0 .. MaxName - 1),
                                 IF back = 0 THEN offset + 2 ELSE back, loops - 1)
            [] OTHER ->
                 IF \/ len > MaxLabel \/ offset + 1 + len > Len(src)
                    \/ Len(Joined(out, Part(src, offset + 1, len))) >= MaxName
                 THEN Null
                 ELSE DecodeFrom(src, offset + 1 + len, Joined(out, Part(src, offset + 1, len)),
                                 visited, back, loops - 1)

Decode(src, offset) ==
  IF offset >= Len(src) THEN Null ELSE DecodeFrom(src, offset, <<>>, {}, 0, MaxName)

-----------------------------------------------------------------------------
(* dhcp_options_writer_t: an option that does not fit is left out and the   *)
(* callers do not look.                                                     *)

Pad == 0
End == 255

AddOption(written, option) ==
  IF Len(written) + Len(option.data) + 2 > OptionSize THEN written
  ELSE written \o <<option.type, Len(option.data)>> \o option.data

Shutdown(written) == IF Len(written) >= OptionSize THEN written ELSE Append(written, End)

Written(options) == Shutdown(FoldLeft(AddOption, <<>>, options))

(* dhcp_option_get goes through the whole field of the packet, however much *)
(* of it was received: behind that it reads what the memory holds.          *)
NoOption == -1
Memory(received, stale) ==
  received \o [i \in 1 .. OptionSize + 2 - Len(received) |-> stale[(i % Len(stale)) + 1]]

InField(ptr) == ptr < OptionSize

RECURSIVE OptionFrom(_, _, _)
OptionFrom(memory, ptr, type) ==
  IF ~InField(ptr) \/ Byte(memory, ptr) = End THEN NoOption
  ELSE IF Byte(memory, ptr) = Pad THEN OptionFrom(memory, ptr + 1, type)
  ELSE IF ~InField(ptr + 1) THEN NoOption
  ELSE LET len == Byte(memory, ptr + 1)
       IN IF ptr + 2 + len > OptionSize THEN NoOption
          ELSE IF Byte(memory, ptr) = type THEN ptr
          ELSE OptionFrom(memory, ptr + 2 + len, type)

OptionGet(memory, type) == OptionFrom(memory, 0, type)
OptionData(memory, ptr) == Part(memory, ptr + 2, Byte(memory, ptr + 1))

-----------------------------------------------------------------------------
(* ip_checksum, icmp_checksum, udp_checksum                                 *)

RECURSIVE Carried(_)
Carried(sum) == IF sum < Word THEN sum ELSE Carried((sum % Word) + (sum \div Word))

Checksum(words) == Word - 1 - Carried(FoldLeft(LAMBDA a, b : a + b, 0, words))
UdpChecksum(words) == IF Checksum(words) = 0 THEN Word - 1 ELSE Checksum(words)

-----------------------------------------------------------------------------
(* What the operators promise one another                                   *)

WellFormed(hostname) ==
  /\ hostname # <<>> /\ hostname[1] # Dot /\ hostname[Len(hostname)] # Dot
  /\ \A i \in 1 .. Len(hostname) - 1 : hostname[i] # Dot \/ hostname[i + 1] # Dot

(* A name comes back as it was sent, alone and from behind a pointer, and   *)
(* the reader of a question and the reader of an answer step over it alike. *)
NameSurvives(n) ==
  WellFormed(n) /\ Encodes(n) =>
    LET once == Encode(n)
        twice == once \o <<192, 0>> \o <<0>>
    IN /\ Decode(once, 0) = [name |-> n, next |-> Len(once)] /\ EncodedLength(once) = Len(once)
       /\ Decode(twice, Len(once)) = [name |-> n, next |-> Len(once) + 2]

(* Whatever the bytes, reading ends inside the packet and the buffer.       *)
PacketIsRead(p) ==
  LET d == Decode(p, 0)
  IN /\ Len(d.name) < MaxName /\ d.next <= Len(p)
     /\ d # Null /\ EncodedLength(p) # 0 => d.next = EncodedLength(p)

(* Of the options that fit, the first of its type is found, and what lies   *)
(* behind the mark that ends them is never looked at.                       *)
OptionIsFound(options, stale) ==
  LET memory == Memory(Written(options), stale)
      Before(i) == FoldLeft(AddOption, <<>>, SubSeq(options, 1, i - 1))
      Fits(i) == AddOption(Before(i), options[i]) # Before(i)
      types == {options[i].type : i \in {j \in DOMAIN options : Fits(j)}}
  IN /\ \A i \in DOMAIN options :
          Fits(i) /\ (\A j \in 1 .. i - 1 : options[j].type # options[i].type)
            => OptionData(memory, OptionGet(memory, options[i].type)) = options[i].data
     /\ \A t \in (1 .. OptionSize) \ types : OptionGet(memory, t) = NoOption

(* Wherever a packet was cut off, an option that is found lies in the field *)
(* of the packet, though not always in what was received.                   *)
OptionIsInField(options, stale) ==
  \A cut \in 0 .. Len(Written(options)) :
    LET memory == Memory(SubSeq(Written(options), 1, cut), stale)
    IN \A i \in DOMAIN options :
         LET ptr == OptionGet(memory, options[i].type)
         IN ptr # NoOption => ptr + 2 + Len(OptionData(memory, ptr)) <= OptionSize

(* With its checksum in it a packet sums to all ones.                       *)
ChecksumVerifies(words) ==
  /\ Carried(FoldLeft(LAMBDA a, b : a + b, 0, words) + Checksum(words)) = Word - 1
  /\ UdpChecksum(words) # 0
=============================================================================
