------------------------------- MODULE Mouse -------------------------------
(***************************************************************************)
(* kernel/src/drivers/ps2/mouse.cpp: four bytes make a packet, a packet that *)
(* is not one moves the driver on to the next byte that could begin one, and *)
(* the states go to a thread through std::ring_buffer (an insert and a get   *)
(* are one step here: RingBuffer has their steps).                           *)
(*                                                                          *)
(* A byte carries the packet it belongs to and its place there, which the    *)
(* code cannot see; the properties are stated with them.                     *)
(***************************************************************************)
EXTENDS Integers, Sequences, FiniteSets

CONSTANTS
  Packets,     \* what the mouse may send: [head, dx, dy, dz], bytes
  MaxPackets,  \* bound: packets sent
  MaxLost,     \* bound: bytes lost on the wire
  StateSlots   \* entries of global_mouse_state_buffer

ASSUME MouseAssumption ==
  /\ Packets \subseteq [head : 0 .. 255, dx : 0 .. 255, dy : 0 .. 255, dz : 0 .. 255]
  /\ MaxPackets \in Nat /\ MaxLost \in Nat /\ StateSlots \in Nat \ {0, 1}

VARIABLES
  sent,          \* packets sent so far
  unsent,        \* bytes of the last one that are still to come
  lost,          \* bytes lost
  packetBuffer,  \* g_mouse_packet_buffer up to g_mouse_packet_index
  mouseStates,   \* global_mouse_state_buffer
  dropped,       \* states that found it full
  heard,         \* states the mouse thread has handed on
  calm           \* bytes since one was lost or could be taken for a status

mouseVars == <<sent, unsent, lost, packetBuffer, mouseStates, dropped, heard, calm>>

PacketSize == 4
Has(byte, bit) == (byte \div bit) % 2 = 1
ValidBit == 8
Buttons == {1, 2, 4}
Overflows == {64, 128}

-----------------------------------------------------------------------------
(* The mouse and its wire.                                                   *)
BytesOf(p) == <<p.head, p.dx, p.dy, p.dz>>
Begins(byte) == Has(byte, ValidBit)
Confusing(b) == b.at # 1 /\ Begins(b.byte)

(* The mouse sets the bit in every status byte: the driver goes by it.       *)
ASSUME StatusAssumption == \A p \in Packets : Begins(p.head)

MouseInit ==
  /\ sent = <<>> /\ unsent = <<>> /\ lost = 0
  /\ packetBuffer = <<>> /\ mouseStates = <<>> /\ dropped = 0 /\ heard = <<>>
  /\ calm = 0

SendPacket(p) ==
  /\ unsent = <<>> /\ Len(sent) < MaxPackets
  /\ sent' = Append(sent, p)
  /\ unsent' = [k \in 1 .. PacketSize |-> [byte |-> BytesOf(p)[k], of |-> Len(sent'), at |-> k]]
  /\ UNCHANGED <<lost, packetBuffer, mouseStates, dropped, heard, calm>>

LoseByte ==
  /\ unsent # <<>> /\ lost < MaxLost
  /\ unsent' = Tail(unsent) /\ lost' = lost + 1 /\ calm' = 0
  /\ UNCHANGED <<sent, packetBuffer, mouseStates, dropped, heard>>

-----------------------------------------------------------------------------
(* ps2_mouse_handle_interrupt.                                               *)

(* ps2_mouse_sync_packets: the packet begins at the first later byte that    *)
(* could begin one.                                                          *)
Later(buf) == {i \in 2 .. PacketSize : Begins(buf[i].byte)}

(* Mutant: one byte is given up, whatever the next one is. *)
SyncFromFirst(buf) ==
  IF Later(buf) = {} THEN <<>> ELSE SubSeq(buf, 2, PacketSize)

SyncPackets(buf) ==
  IF Later(buf) = {} THEN <<>>
  ELSE SubSeq(buf, CHOOSE i \in Later(buf) : \A j \in Later(buf) : i <= j, PacketSize)

IsValid(status) ==
  /\ Has(status, ValidBit)
  /\ ~((\E o \in Overflows : Has(status, o)) /\ \E b \in Buttons : Has(status, b))

Moved(raw, sign) == IF sign THEN raw - 256 ELSE raw
StateFrom(buf) ==
  LET status == buf[1].byte
  IN [dx |-> Moved(buf[2].byte, Has(status, 16)), dy |-> -Moved(buf[3].byte, Has(status, 32)),
      ds |-> Moved(buf[4].byte, buf[4].byte >= 128), left |-> Has(status, 1), right |-> Has(status, 2)]

Whole(buf) == \A i \in DOMAIN buf : buf[i].at = i /\ buf[i].of = buf[1].of

HandleByte ==
  LET buf == Append(packetBuffer, Head(unsent))
      full == Len(buf) = PacketSize
      takes == full /\ IsValid(buf[1].byte)
      room == Len(mouseStates) < StateSlots - 1
  IN /\ unsent # <<>>
     /\ unsent' = Tail(unsent)
     /\ packetBuffer' = IF ~full THEN buf ELSE IF takes THEN <<>> ELSE SyncPackets(buf)
     /\ mouseStates' = IF takes /\ room
                         THEN Append(mouseStates, [state |-> StateFrom(buf), of |-> buf[1].of, whole |-> Whole(buf)])
                         ELSE mouseStates
     /\ dropped' = IF takes /\ ~room THEN dropped + 1 ELSE dropped
     /\ calm' = IF Confusing(Head(unsent)) THEN 0 ELSE IF calm < 2 * PacketSize THEN calm + 1 ELSE calm
     /\ UNCHANGED <<sent, lost, heard>>

(* ps2_mouse_process_packet, on the mouse thread.                            *)
ProcessPacket ==
  /\ mouseStates # <<>>
  /\ heard' = Append(heard, Head(mouseStates))
  /\ mouseStates' = Tail(mouseStates)
  /\ UNCHANGED <<sent, unsent, lost, packetBuffer, dropped, calm>>

MouseNext ==
  \/ \E p \in Packets : SendPacket(p)
  \/ LoseByte
  \/ HandleByte
  \/ ProcessPacket

MouseSpec == MouseInit /\ [][MouseNext]_mouseVars

-----------------------------------------------------------------------------
(* What is in the driver's buffer is the beginning of one packet, and the    *)
(* rest of it is what comes next.                                            *)
InStep ==
  /\ Whole(packetBuffer)
  /\ Len(unsent) % PacketSize = (PacketSize - Len(packetBuffer)) % PacketSize
  /\ packetBuffer # <<>> => packetBuffer[1].of = Len(sent)

Reported == heard \o mouseStates
Asked(p) == StateFrom([k \in 1 .. PacketSize |-> [byte |-> BytesOf(p)[k]]])

(* After a byte was lost, or another could be taken for a status byte, the    *)
(* driver is back in step with the mouse once two packets' worth of bytes    *)
(* without either has passed (ps2_mouse_sync_packets); what it reports from  *)
(* the bytes of one packet is what that packet says, in the order sent, and  *)
(* while nothing went wrong a packet is missing only if it overflowed or     *)
(* found the buffer full.                                                    *)
MouseResyncs ==
  /\ calm >= 2 * PacketSize - 1 => InStep
  /\ \A i \in DOMAIN Reported :
       /\ Reported[i].whole => Reported[i].state = Asked(sent[Reported[i].of])
       /\ \A j \in 1 .. i - 1 : Reported[j].of <= Reported[i].of
                                /\ (Reported[i].whole => Reported[j].of < Reported[i].of)
  /\ (unsent = <<>> /\ lost = 0 /\ \A i \in DOMAIN sent : ~Begins(sent[i].dx) /\ ~Begins(sent[i].dy) /\ ~Begins(sent[i].dz))
       => Len(Reported) + dropped = Cardinality({i \in DOMAIN sent : IsValid(sent[i].head)})

=============================================================================
