----------------------------- MODULE NetConfig -----------------------------
(***************************************************************************)
(* How the machine gets its address and finds hosts by name:                *)
(* kernel/src/network/network_manager.cpp with dhcp.cpp and dns.cpp, and    *)
(* the layers a datagram of theirs crosses, socket.cpp, udp.cpp, ip.cpp,    *)
(* arp.cpp and icmp.cpp.                                                    *)
(*                                                                          *)
(* The boot thread configures the cards, the nic thread receives, and a     *)
(* terminal's thread asks for names.  What was sent stays in `sent` and may *)
(* be answered late, again, or never: a datagram that is lost is one that   *)
(* is not answered.  An address is a host of a network; a network is named  *)
(* by its DHCP server.  A second card that no server configures keeps the   *)
(* mask 0, which takes in every address.                                    *)
(*                                                                          *)
(* The interface is stored to without a lock, one field after the other,    *)
(* and senders read it meanwhile.  The ARP table and the cache are tables   *)
(* whose insertions and look-ups are one step each; the cache has a mutex,  *)
(* the ARP table has none.                                                  *)
(***************************************************************************)
EXTENDS Integers, Sequences

CONSTANTS
  DhcpServers,  \* each leases one address of its own network
  Hostnames,
  Lans,         \* what the cable may lead to: the servers there, the names in use
  Askers,       \* threads that call network_manager_dns_query
  Looks         \* bound: DNS_MAX_WAIT over the sleep between two looks

ASSUME NetConfigAssumption ==
  /\ Looks \in Nat /\ "none" \notin DhcpServers \union Hostnames
  /\ Lans \subseteq [servers : SUBSET DhcpServers, names : SUBSET Hostnames]

Address(host, net) == [host |-> host, net |-> net]
Zero == Address("zero", "none")
Broadcast == Address("all", "none")
DnsServer == Address("dns", "none")
Gateways == {Address("gateway", s) : s \in DhcpServers}
DhcpHosts == {Address("server", s) : s \in DhcpServers}
AtRest == [field |-> "none", server |-> "none"]
Leases == {Address(h, s) : h \in {"lease", "foreign"}, s \in DhcpServers}

VARIABLES
  lan,          \* never changes
  cards,        \* how many interfaces are registered
  session,      \* dhcp_client_t::session_t
  iface,        \* the first interface; the masks of all networks are alike
  storing,      \* the field the DHCP callback stores next, and whose ACK it read
  dhcpRemote,   \* dhcp_socket->remote_ip
  arpTable,     \* addresses in g_address_lookup_table
  cache,        \* cached_records, a linear_map
  asker,        \* per thread: where it is in its query and what it returned
  sent          \* what left through the first card

configVars == <<lan, cards, session, iface, storing, dhcpRemote>>
netVars == <<configVars, arpTable, cache, asker, sent>>

NetConfigInit ==
  /\ lan \in Lans
  /\ cards = 0
  /\ session = [ip |-> Zero, server |-> Zero]
  /\ iface = [ip |-> Zero, gateway |-> Zero, masked |-> FALSE, active |-> FALSE]
  /\ storing = AtRest
  /\ dhcpRemote = Broadcast
  /\ arpTable = {} /\ cache = <<>> /\ sent = {}
  /\ asker = [a \in Askers |-> [pc |-> "idle", name |-> "none", looks |-> 0,
                                moved |-> FALSE, result |-> "none"]]

-----------------------------------------------------------------------------
(* route_lookup, udp_send, ip_send                                          *)

IsLocal(dst) == iface.masked => iface.ip # Zero /\ dst.net = iface.ip.net
OnFirstCard(dst) == IsLocal(dst) \/ cards < 2
NextHop(dst) == IF IsLocal(dst) THEN dst ELSE iface.gateway

(* Mutant: the request for the unknown address is forgotten. *)
LeavesUnasked(dst, msg, known) ==
  IF dst = Broadcast \/ NextHop(dst) \in known THEN {msg} ELSE {}

(* An address that is not in the table costs the datagram and sends an ARP  *)
(* request; udp_send reports success all the same.                          *)
LeavesAs(dst, msg, known) ==
  IF dst = Broadcast \/ NextHop(dst) \in known THEN {msg}
  ELSE {[type |-> "arp", of |-> NextHop(dst)]}

(* Nobody answers a query from the zero address, a request for an address   *)
(* no host has, or one to another server: they need not be remembered.      *)
MayBeAnswered(m) ==
  CASE m.type = "query" -> m.from # Zero
    [] m.type = "request" -> m.heard
    [] m.type = "arp" -> m.of \in Gateways \union DhcpHosts
    [] OTHER -> TRUE

IpSend(dst, msg, known) ==
  sent' = sent \union {m \in LeavesAs(dst, msg, known) : MayBeAnswered(m)}

UdpSend(dst, msg, known) ==
  IF OnFirstCard(dst) THEN IpSend(dst, msg, known) ELSE UNCHANGED sent

Discover == [type |-> "discover"]
Request(server, to) ==
  [type |-> "request", server |-> server, heard |-> to \in {Broadcast, server}]
Query(n, from) == [type |-> "query", name |-> n, from |-> from]

-----------------------------------------------------------------------------
(* network_manager_configre_interface                                       *)

Configure ==
  /\ cards = 0 /\ cards' = 1
  /\ UdpSend(dhcpRemote, Discover, arpTable)
  /\ UNCHANGED <<lan, session, iface, storing, dhcpRemote, arpTable, cache, asker>>

(* The one session is taken: the second card stays as it is.                *)
RegisterSecond ==
  /\ cards = 1 /\ cards' = 2
  /\ UNCHANGED <<lan, session, iface, storing, dhcpRemote, arpTable, cache, asker, sent>>

-----------------------------------------------------------------------------
(* The nic thread: ip_receive and what it calls                             *)

Hears(to) == cards > 0 /\ storing = AtRest /\ to \in {iface.ip, Broadcast}
Learns(from) == arpTable' = arpTable \union {from}

(* Replies a client can see: to its own requests, as often and as late as   *)
(* the network likes, and those meant for other machines; some lack an      *)
(* option.                                                                  *)
Replies == [type : {"offer", "ack"}, server : DhcpServers, mine : BOOLEAN, whole : BOOLEAN]
YourIp(m) == Address(IF m.mine THEN "lease" ELSE "foreign", m.server)
IsSent(m) ==
  \/ ~m.mine
  \/ m.type = "offer" /\ Discover \in sent
  \/ m.type = "ack" /\ \E q \in sent : q.type = "request" /\ q.server = Address("server", m.server)

(* Mutant: the address of the ACK is not compared with the session's. *)
AckedAny(m) == m.mine /\ m.type = "ack" /\ m.whole

(* network_manager_dhcp_callback                                            *)
Offered(m) == m.mine /\ m.type = "offer" /\ m.whole
Acked(m) == m.mine /\ m.type = "ack" /\ m.whole /\ YourIp(m) = session.ip

ReceiveOffer(m) ==
  /\ Offered(m)
  /\ session' = [ip |-> YourIp(m), server |-> Address("server", m.server)]
  /\ UdpSend(dhcpRemote, Request(session'.server, dhcpRemote), arpTable')
  /\ UNCHANGED <<iface, storing, dhcpRemote>>

(* The mask is stored, and four more fields one after the other.            *)
ReceiveAck(m) ==
  /\ Acked(m)
  /\ iface' = [iface EXCEPT !.masked = TRUE]
  /\ storing' = [field |-> "gateway", server |-> m.server]
  /\ UNCHANGED <<session, dhcpRemote, sent>>

Stores(field, next) == storing.field = field /\ storing' = [storing EXCEPT !.field = next]

StoreGateway ==
  /\ Stores("gateway", "ip")
  /\ iface' = [iface EXCEPT !.gateway = Address("gateway", storing.server)]
  /\ UNCHANGED <<lan, cards, session, dhcpRemote, arpTable, cache, asker, sent>>

StoreIp ==
  /\ Stores("ip", "active")
  /\ iface' = [iface EXCEPT !.ip = session.ip]
  /\ UNCHANGED <<lan, cards, session, dhcpRemote, arpTable, cache, asker, sent>>

StoreActive ==
  /\ Stores("active", "remote")
  /\ iface' = [iface EXCEPT !.active = TRUE]
  /\ UNCHANGED <<lan, cards, session, dhcpRemote, arpTable, cache, asker, sent>>

StoreRemote ==
  /\ storing.field = "remote" /\ storing' = AtRest
  /\ dhcpRemote' = session.server
  /\ UNCHANGED <<lan, cards, session, iface, arpTable, cache, asker, sent>>

StoreNext == StoreGateway \/ StoreIp \/ StoreActive \/ StoreRemote

ReceiveOther(m) ==
  /\ ~Offered(m) /\ ~Acked(m)
  /\ UNCHANGED <<session, iface, storing, dhcpRemote, sent>>

ReceiveDhcp(m) ==
  /\ IsSent(m) /\ Hears(Broadcast) /\ Learns(Address("server", m.server))
  /\ ReceiveOffer(m) \/ ReceiveAck(m) \/ ReceiveOther(m)
  /\ UNCHANGED <<lan, cards, cache, asker>>

(* dns_client_add_record: the first record of a name stays.  The array has  *)
(* grown by two whenever it was full, and then everything in it moves.      *)
At(a, pc) == asker[a].pc = pc
Known(n) == \E i \in DOMAIN cache : cache[i].name = n
ArrayIsFull == Len(cache) % 2 = 0

(* Mutant: the record is filed under the name that was asked for last. *)
RecordAsked(n) == IF \E a \in Askers : asker[a].name # "none"
                    THEN (CHOOSE q \in {asker[a] : a \in Askers} : q.name # "none").name ELSE n

RecordName(n) == n

AddRecord(n, ip) ==
  IF Known(n)
    THEN UNCHANGED <<cache, asker>>
    ELSE /\ cache' = Append(cache, [name |-> n, ip |-> ip])
         /\ asker' = [a \in Askers |-> [asker[a] EXCEPT !.moved = @ \/ (ArrayIsFull /\ At(a, "found"))]]

(* network_manager_dns_callback: neither the id nor the question is         *)
(* compared with what was asked.  The address of n is called n.             *)
ReceiveAnswer(n) ==
  /\ Hears(iface.ip) /\ Query(n, iface.ip) \in sent
  /\ Learns(DnsServer)
  /\ AddRecord(RecordName(n), n)
  /\ UNCHANGED <<configVars, sent>>

(* arp_receive                                                              *)
ReceiveArpReply(a) ==
  /\ Hears(Broadcast) /\ [type |-> "arp", of |-> a] \in sent
  /\ Learns(a)
  /\ UNCHANGED <<configVars, cache, asker, sent>>

(* icmp_receive answers an echo request; of the answer only the ARP request *)
(* it may cost is kept.                                                     *)
ReceivePing(a) ==
  /\ Hears(iface.ip) /\ Learns(a)
  /\ sent' = sent \union (LeavesAs(a, Discover, arpTable') \ {Discover})
  /\ UNCHANGED <<configVars, cache, asker>>

Lan(addresses) == {a \in addresses : a.net \in lan.servers}

Receive ==
  \/ \E m \in Replies : m.server \in lan.servers /\ ReceiveDhcp(m)
  \/ \E n \in Hostnames : ReceiveAnswer(n)
  \/ \E a \in Lan(Gateways \union DhcpHosts) : ReceiveArpReply(a)
  \/ \E a \in Lan(Gateways) : ReceivePing(a)

-----------------------------------------------------------------------------
(* network_manager_dns_query                                                *)

Found(a) == asker' = [asker EXCEPT ![a].pc = "found", ![a].moved = FALSE, ![a].looks = 0]
Waits(a) == asker' = [asker EXCEPT ![a].pc = "wait", ![a].looks = Looks]

Ask(a, n) ==
  /\ cards > 0 /\ At(a, "idle")
  /\ asker' = [asker EXCEPT ![a] = [pc |-> IF Known(n) THEN "found" ELSE "route", name |-> n,
                                    looks |-> 0, moved |-> FALSE, result |-> "none"]]
  /\ UNCHANGED <<configVars, arpTable, cache, sent>>

(* The interface is chosen, and ip_send reads it again.                     *)
Route(a) ==
  /\ At(a, "route")
  /\ IF OnFirstCard(DnsServer) THEN asker' = [asker EXCEPT ![a].pc = "send"] ELSE Waits(a)
  /\ UNCHANGED <<configVars, arpTable, cache, sent>>

SendQuery(a) ==
  /\ At(a, "send")
  /\ Waits(a)
  /\ IpSend(DnsServer, Query(asker[a].name, iface.ip), arpTable)
  /\ UNCHANGED <<configVars, arpTable, cache>>

LookAgain(a) ==
  /\ At(a, "wait") /\ asker[a].looks > 0
  /\ IF Known(asker[a].name) THEN Found(a) ELSE asker' = [asker EXCEPT ![a].looks = @ - 1]
  /\ UNCHANGED <<configVars, arpTable, cache, sent>>

GiveUp(a) ==
  /\ At(a, "wait") /\ asker[a].looks = 0
  /\ asker' = [asker EXCEPT ![a].pc = "idle"]
  /\ UNCHANGED <<configVars, arpTable, cache, sent>>

(* The record is read without the lock it was found under: if the array has *)
(* moved the memory is somebody else's.                                     *)
ReadRecord(a) ==
  /\ At(a, "found")
  /\ \E r \in IF asker[a].moved THEN Hostnames \union {"none"}
              ELSE {cache[i].ip : i \in {j \in DOMAIN cache : cache[j].name = asker[a].name}} :
       asker' = [asker EXCEPT ![a].pc = "idle", ![a].result = r]
  /\ UNCHANGED <<configVars, arpTable, cache, sent>>

Asks(a) == Route(a) \/ SendQuery(a) \/ LookAgain(a) \/ GiveUp(a) \/ ReadRecord(a)

NetConfigNext ==
  \/ Configure \/ RegisterSecond \/ Receive \/ StoreNext
  \/ \E a \in Askers : Asks(a) \/ \E n \in lan.names : Ask(a, n)

(* A host that is asked keeps answering, whatever the nic thread is doing:  *)
(* its answers wait in the ring.  A thread runs.                            *)
NetConfigFairness ==
  /\ \A a \in Gateways : SF_netVars(a \in Lan(Gateways) /\ ReceiveArpReply(a))
  /\ \A n \in Hostnames : SF_netVars(ReceiveAnswer(n))
  /\ WF_netVars(StoreNext)
  /\ \A a \in Askers : WF_netVars(Asks(a))

NetConfigSpec == NetConfigInit /\ [][NetConfigNext]_netVars

-----------------------------------------------------------------------------
(* Properties                                                               *)

NetConfigTypeOK ==
  /\ lan \in Lans /\ cards \in 0 .. 2
  /\ session \in [ip : Leases \union {Zero}, server : DhcpHosts \union {Zero}]
  /\ iface \in [ip : Leases \union {Zero}, gateway : Gateways \union {Zero},
               masked : BOOLEAN, active : BOOLEAN]
  /\ storing \in [field : {"gateway", "ip", "active", "remote"}, server : DhcpServers]
                  \union {AtRest}
  /\ dhcpRemote \in DhcpHosts \union {Broadcast}
  /\ arpTable \subseteq Gateways \union DhcpHosts \union {DnsServer}
  /\ cache \in Seq([name : Hostnames, ip : Hostnames])
  /\ asker \in [Askers -> [pc : {"idle", "route", "send", "wait", "found"}, name : Hostnames \union {"none"},
                           looks : 0 .. Looks, moved : BOOLEAN,
                           result : Hostnames \union {"none"}]]

(* Offers and acknowledgements of several servers, for this machine and for *)
(* others, cross each other on the wire: the interface only ever carries an *)
(* address its server granted to this machine.  While an acknowledgement is *)
(* being stored a sender may see the new gateway with the old address, and  *)
(* then the new address with the old server; neither lasts, and an active   *)
(* interface has its mask and its address.                                  *)
Granted(ip) ==
  ip.host = "lease" /\ \E m \in sent : m.type = "request" /\ m.server.net = ip.net
ConfiguredAsAcked ==
  /\ iface.ip # Zero => Granted(iface.ip)
  /\ iface.active => iface.ip # Zero /\ iface.masked
  /\ iface.active =>
       /\ iface.gateway.net = IF storing.field = "ip" THEN storing.server ELSE iface.ip.net
       /\ dhcpRemote.net = iface.ip.net \/ storing.field \in {"active", "remote"}

(* Answers come late, twice and to the wrong asker: what a query returns is *)
(* the address of the name it asked for, unless the table moved between the *)
(* look-up and the read.                                                    *)
AnswerIsForTheName ==
  \A a \in Askers : asker[a].result \in {"none", asker[a].name} \/ asker[a].moved

(* The first query after the configuration is lost while the gateway is     *)
(* unknown, and nothing is sent again.  Who keeps asking gets an answer in  *)
(* the end, once the address stays, unless a second card takes the query.   *)
Settles == <>[](iface.active /\ cards = 1) /\ <>[][UNCHANGED iface]_netVars
SomebodyWaits == \E a \in Askers : At(a, "wait")
WhoAsksIsAnswered == Settles => <>[]~SomebodyWaits
=============================================================================
