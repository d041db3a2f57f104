------------------------------ MODULE NetStack ------------------------------
(***************************************************************************)
(* The path of a packet: the buffer pool (net/packet.c), Ethernet, ARP,    *)
(* IPv4, ICMP and UDP.  A handler runs to its end without a switch, so a   *)
(* call is a function of the handler's state h: the list of free buffers   *)
(* and the ARP cache.  pktbuf_free does not notice a buffer that is free   *)
(* already; the list then holds it twice.                                  *)
(***************************************************************************)
EXTENDS Routing, Firewall

CONSTANTS
    PoolSize,            \* PKT_POOL_SIZE
    ArpMax,              \* ARP_MAX_CACHE
    SocketMax,           \* UDP_MAX_SOCKETS
    NetBits,             \* the ones of local_netmask
    UdpPorts,            \* ports programs bind
    Frames,              \* what may arrive: ARP, IPv4 and other frames
    Hosts                \* the addresses programs send to

ASSUME StackAssumption == PoolSize \in Nat /\ SocketMax \in Nat /\ UdpPorts \subseteq Nat

VARIABLES
    free_list,           \* the free buffers, the next one first
    arp_cache,           \* [ip, mac], the one set longest ago first
    sockets,             \* UDP: [bound, port, rx]; rx: the datagram kept, by its port
    local_ip, local_gateway

netStackVars == <<free_list, arp_cache, sockets, local_ip, local_gateway>>

Broadcast == [i \in 1 .. Len(local_ip) |-> 1]
NoDatagram == 0

Handler == [free |-> free_list, arp |-> arp_cache]

(* pktbuf_alloc takes the first buffer of h.free.                          *)
Taken(h) == [h EXCEPT !.free = Tail(@)]
pktbuf_free(h, b) == [h EXCEPT !.free = <<b>> \o @]

(* The frame leaves or the device refuses it; the buffer is free again.    *)
ethernet_tx(h, b) == pktbuf_free(h, b)

arp_cache_set(cache, ip, mac) ==
    LET others == SelectSeq(cache, LAMBDA e : e.ip # ip)
        kept == IF Len(others) = ArpMax THEN Tail(others) ELSE others
    IN  Append(kept, [ip |-> ip, mac |-> mac])

arp_cache_lookup(h, ip) == \E i \in DOMAIN h.arp : h.arp[i].ip = ip

(* A reply and a request are alike for the pool: a buffer, if there is     *)
(* one, is filled and sent.                                                *)
arp_send_reply(h) == IF h.free = <<>> THEN h ELSE ethernet_tx(Taken(h), Head(h.free))
arp_send_request(h) == arp_send_reply(h)

SameNet(a, b) == SubSeq(a, 1, NetBits) = SubSeq(b, 1, NetBits)

next_hop(dst) ==
    LET route == routing_lookup(dst)
    IN  IF SameNet(dst, local_ip) THEN dst
        ELSE IF route.gateway # NoGateway THEN route.gateway
        ELSE local_gateway

(* Mutant: the packet waits for the answer to the ARP request, but nobody  *)
(* has it any more.                                                        *)
Unresolved_KeepsPacket(h, b) == arp_send_request(h)

Unresolved(h, b) == pktbuf_free(arp_send_request(h), b)

ipv4_send(h, dst) ==
    IF h.free = <<>> THEN h
    ELSE LET b == Head(h.free)
             g == Taken(h)
             hop == next_hop(dst)
         IN  IF dst = Broadcast THEN ethernet_tx(g, b)
             ELSE IF hop = NoGateway THEN pktbuf_free(g, b)
             ELSE IF ~arp_cache_lookup(g, hop) THEN Unresolved(g, b)
             ELSE ethernet_tx(g, b)

arp_rx(h, b, f) ==
    LET learnt == [h EXCEPT !.arp = arp_cache_set(@, f.sender, f.mac)]
    IN  pktbuf_free(IF f.op = "request" /\ f.target = local_ip THEN arp_send_reply(learnt) ELSE learnt, b)

(* An echo request is answered from a copy; other messages are dropped.    *)
icmp_rx(h, b, f) ==
    pktbuf_free(IF f.what = "echo_request" THEN ipv4_send(h, f.src) ELSE h, b)

(* Which segments tcp_rx answers is the subject of Tcp.                    *)
tcp_rx(h, b, f) ==
    pktbuf_free(IF f.what = "answered" THEN ipv4_send(h, f.src) ELSE h, b)

PacketOf(f) == [src |-> f.src, dst |-> f.dst, sport |-> f.sport, dport |-> f.dport, proto |-> f.proto]

(* To us, to everybody, or with host bits that are all ones.               *)
ForUs(f) ==
    \/ f.dst \in {local_ip, Broadcast}
    \/ \A i \in NetBits + 1 .. Len(f.dst) : f.dst[i] = 1

Passes(f) == f.what # "damaged" /\ ForUs(f) /\ Verdict(PacketOf(f)) # "drop"

ipv4_rx(h, b, f) ==
    CASE Passes(f) /\ f.proto = 1 -> icmp_rx(h, b, f)
      [] Passes(f) /\ f.proto = 6 -> tcp_rx(h, b, f)
      [] OTHER -> pktbuf_free(h, b)

ethernet_rx(h, b, f) ==
    CASE f.type = "arp" -> arp_rx(h, b, f)
      [] f.type = "ipv4" -> ipv4_rx(h, b, f)
      [] OTHER -> pktbuf_free(h, b)

BoundTo(port) == {i \in DOMAIN sockets : sockets[i].bound /\ sockets[i].port = port}

(* The first socket of the port keeps the datagram, in place of one that   *)
(* was not read yet.                                                       *)
udp_rx(port) ==
    [i \in DOMAIN sockets |->
        IF i \in BoundTo(port) /\ \A j \in BoundTo(port) : i <= j
        THEN [sockets[i] EXCEPT !.rx = port] ELSE sockets[i]]

Handled(h) == free_list' = h.free /\ arp_cache' = h.arp
Configuration == <<local_ip, local_gateway, routingVars>>

(* One turn of the loop of network_poll; without a free buffer it ends.    *)
network_poll(f) ==
    /\ free_list # <<>>
    /\ Handled(ethernet_rx(Taken(Handler), Head(free_list), f))
    /\ IF f.type = "ipv4" /\ f.what # "damaged" /\ ForUs(f)
       THEN firewall_check(PacketOf(f))
       ELSE UNCHANGED firewallVars
    /\ sockets' = IF f.type = "ipv4" /\ Passes(f) /\ f.proto = 17 THEN udp_rx(f.dport) ELSE sockets
    /\ UNCHANGED Configuration

(* Mutant: a socket starts with what its slot held.                        *)
udp_bind_KeepsDatagram(i, port) ==
    /\ ~sockets[i].bound /\ \A j \in 1 .. i - 1 : sockets[j].bound
    /\ sockets' = [sockets EXCEPT ![i].bound = TRUE, ![i].port = port]
    /\ UNCHANGED <<free_list, arp_cache, firewallVars, Configuration>>

(* The first free socket; a port may be bound twice.                       *)
udp_bind(i, port) ==
    /\ ~sockets[i].bound /\ \A j \in 1 .. i - 1 : sockets[j].bound
    /\ sockets' = [sockets EXCEPT ![i] = [bound |-> TRUE, port |-> port, rx |-> NoDatagram]]
    /\ UNCHANGED <<free_list, arp_cache, firewallVars, Configuration>>

udp_unbind(i) ==
    /\ sockets[i].bound
    /\ sockets' = [sockets EXCEPT ![i].bound = FALSE]
    /\ UNCHANGED <<free_list, arp_cache, firewallVars, Configuration>>

udp_recv(i) ==
    /\ sockets[i].bound /\ sockets[i].rx # NoDatagram
    /\ sockets' = [sockets EXCEPT ![i].rx = NoDatagram]
    /\ UNCHANGED <<free_list, arp_cache, firewallVars, Configuration>>

(* A program's datagram, or an echo request of the console.                *)
udp_send(dst) ==
    /\ Handled(ipv4_send(Handler, dst))
    /\ UNCHANGED <<sockets, firewallVars, Configuration>>

NetStackBoot ==
    /\ free_list = [i \in 1 .. PoolSize |-> PoolSize + 1 - i]
    /\ arp_cache = <<>>
    /\ sockets = [i \in 1 .. SocketMax |-> [bound |-> FALSE, port |-> 0, rx |-> NoDatagram]]

NetStackNext ==
    \/ \E f \in Frames : network_poll(f)
    \/ \E i \in 1 .. SocketMax : udp_unbind(i) \/ udp_recv(i) \/ \E port \in UdpPorts : udp_bind(i, port)
    \/ \E dst \in Hosts : udp_send(dst)

NetStackSpec == NetStackBoot /\ [][NetStackNext]_<<netStackVars, routingVars, firewallVars>>

-----------------------------------------------------------------------------
(* Between two handlers every buffer of the pool is on the free list, and  *)
(* once: whatever a frame makes ethernet_rx and the layers above it do,    *)
(* also when the pool runs dry or an address is not resolved, each buffer  *)
(* taken is given back by exactly one of them.                             *)
PacketsReturn ==
    /\ IsInjective(free_list)
    /\ ToSet(free_list) = 1 .. PoolSize

(* What udp_recv hands out arrived for the port the socket is bound to     *)
(* now: a datagram an earlier owner of the slot left behind is not seen.   *)
DatagramsReachTheirPort ==
    \A i \in DOMAIN sockets :
        sockets[i].bound /\ sockets[i].rx # NoDatagram => sockets[i].rx = sockets[i].port
=============================================================================
