--------------------------- MODULE NetStackProofs ---------------------------
(***************************************************************************)
(* Proofs about the packet pool and the UDP sockets, for every size of     *)
(* either, every frame, every routing table and every set of rules.  The   *)
(* pool is a stack and each handler takes and gives in nested order, so a  *)
(* handler leaves it exactly as it was; that is stronger than what is      *)
(* wanted, and inductive.                                                  *)
(***************************************************************************)
EXTENDS NetStack, SequenceTheorems, TLAPS

Buffers == 1 .. PoolSize
At(free, arp) == [free |-> free, arp |-> arp]

FullPool == [i \in 1 .. PoolSize |-> PoolSize + 1 - i]

UdpSocket == [bound : BOOLEAN, port : Nat, rx : Nat]

NetStackInv ==
    /\ free_list = FullPool
    /\ sockets \in [1 .. SocketMax -> UdpSocket]
    /\ DatagramsReachTheirPort

-----------------------------------------------------------------------------
LEMMA HeadAndTail ==
    ASSUME NEW S, NEW s \in Seq(S), s # <<>>
    PROVE  Head(s) \in S /\ Tail(s) \in Seq(S) /\ <<Head(s)>> \o Tail(s) = s
<1>1. /\ Head(s) \in S /\ Tail(s) \in Seq(S) /\ Len(Tail(s)) = Len(s) - 1
      /\ \A i \in 1 .. Len(Tail(s)) : Tail(s)[i] = s[i + 1]
  BY HeadTailProperties
<1>2. Head(s) = s[1] /\ <<Head(s)>> \in Seq(S) /\ Len(<<Head(s)>>) = 1 /\ Len(s) \in Nat
  BY <1>1
<1> DEFINE t == <<Head(s)>> \o Tail(s)
<1>3. /\ t \in Seq(S) /\ Len(t) = Len(s)
      /\ \A i \in 1 .. Len(s) : t[i] = IF i <= 1 THEN <<Head(s)>>[i] ELSE Tail(s)[i - 1]
  BY <1>1, <1>2, ConcatProperties
<1> HIDE DEF t
<1>4. \A i \in 1 .. Len(s) : t[i] = s[i]
  BY <1>1, <1>2, <1>3
<1>5. t = s
  BY <1>3, <1>4, SeqEqual
<1> QED
  BY <1>1, <1>5 DEF t

(* pktbuf_alloc followed by pktbuf_free of the same buffer.                *)
LEMMA TakeAndGive ==
    ASSUME NEW free \in Seq(Buffers), free # <<>>, NEW arp
    PROVE  /\ Taken(At(free, arp)) = At(Tail(free), arp)
           /\ pktbuf_free(At(Tail(free), arp), Head(free)) = At(free, arp)
           /\ Tail(free) \in Seq(Buffers)
<1>1. Tail(free) \in Seq(Buffers) /\ <<Head(free)>> \o Tail(free) = free
  BY HeadAndTail
<1>2. Taken(At(free, arp)) = At(Tail(free), arp)
  <2>1. At(free, arp).free = free /\ \A x : [At(free, arp) EXCEPT !.free = x] = At(x, arp)
    BY DEF At
  <2> QED
    BY <2>1 DEF Taken
<1>3. pktbuf_free(At(Tail(free), arp), Head(free)) = At(<<Head(free)>> \o Tail(free), arp)
  BY DEF pktbuf_free, At
<1> QED
  BY <1>1, <1>2, <1>3

(* Sending an ARP message leaves the pool as it was.                       *)
LEMMA ArpSendKeeps ==
    ASSUME NEW free \in Seq(Buffers), NEW arp
    PROVE  arp_send_reply(At(free, arp)) = At(free, arp)
<1>1. At(free, arp).free = free
  BY DEF At
<1> QED
  BY <1>1, TakeAndGive DEF arp_send_reply, ethernet_tx

(* So does sending a packet, on each of its ways out.                      *)
LEMMA SendKeeps ==
    ASSUME NEW free \in Seq(Buffers), NEW arp, NEW dst
    PROVE  ipv4_send(At(free, arp), dst) = At(free, arp)
<1>1. At(free, arp).free = free
  BY DEF At
<1>2. CASE free = <<>>
  BY <1>1, <1>2 DEF ipv4_send
<1>3. CASE free # <<>>
  <2> DEFINE g == At(Tail(free), arp)
  <2>1. Taken(At(free, arp)) = g /\ pktbuf_free(g, Head(free)) = At(free, arp)
        /\ Tail(free) \in Seq(Buffers)
    BY <1>3, TakeAndGive
  <2>2. ethernet_tx(g, Head(free)) = At(free, arp)
    BY <2>1 DEF ethernet_tx
  <2>3. Unresolved(g, Head(free)) = At(free, arp)
    BY <2>1, ArpSendKeeps DEF Unresolved, arp_send_request
  <2> HIDE DEF g
  <2> QED
    BY <1>1, <1>3, <2>1, <2>2, <2>3 DEF ipv4_send
<1> QED
  BY <1>2, <1>3

(* A received buffer is given back last, by whichever layer ends with it.  *)
LEMMA ReceiveGives ==
    ASSUME NEW free \in Seq(Buffers), NEW arp, NEW b, NEW f
    PROVE  ethernet_rx(At(free, arp), b, f).free = <<b>> \o free
<1>1. \A cache : pktbuf_free(At(free, cache), b).free = <<b>> \o free
  BY DEF pktbuf_free, At
<1>2. arp_rx(At(free, arp), b, f).free = <<b>> \o free
  <2> DEFINE learnt == [At(free, arp) EXCEPT !.arp = arp_cache_set(@, f.sender, f.mac)]
             cache == arp_cache_set(arp, f.sender, f.mac)
  <2>1. learnt = At(free, cache)
    BY DEF At
  <2>2. arp_send_reply(learnt) = learnt
    BY <2>1, ArpSendKeeps
  <2>3. arp_rx(At(free, arp), b, f) = pktbuf_free(learnt, b)
    BY <2>2 DEF arp_rx
  <2> QED
    BY <1>1, <2>1, <2>3
<1>3. icmp_rx(At(free, arp), b, f).free = <<b>> \o free
  BY <1>1, SendKeeps DEF icmp_rx
<1>4. tcp_rx(At(free, arp), b, f).free = <<b>> \o free
  BY <1>1, SendKeeps DEF tcp_rx
<1>5. ipv4_rx(At(free, arp), b, f).free = <<b>> \o free
  BY <1>1, <1>3, <1>4 DEF ipv4_rx
<1> QED
  BY <1>1, <1>2, <1>5 DEF ethernet_rx

LEMMA FullPoolIsSeq == FullPool \in Seq(Buffers)
<1>1. FullPool \in [1 .. PoolSize -> Buffers]
  BY StackAssumption DEF FullPool, Buffers
<1> QED
  BY <1>1, StackAssumption, SeqDef

-----------------------------------------------------------------------------
LEMMA NetStackInvInit == NetStackBoot => NetStackInv
<1> SUFFICES ASSUME NetStackBoot PROVE NetStackInv
  OBVIOUS
<1>1. free_list = FullPool
  BY DEF NetStackBoot, FullPool
<1>2. sockets \in [1 .. SocketMax -> UdpSocket] /\ DatagramsReachTheirPort
  BY DEF NetStackBoot, UdpSocket, NoDatagram, DatagramsReachTheirPort
<1> QED
  BY <1>1, <1>2 DEF NetStackInv

LEMMA PollKeeps ==
    ASSUME NetStackInv, NEW f \in Frames, network_poll(f)
    PROVE  NetStackInv'
<1> USE FullPoolIsSeq
<1>1. free_list' = free_list
  <2>1. free_list # <<>> /\ free_list \in Seq(Buffers) /\ Handler = At(free_list, arp_cache)
    BY DEF network_poll, NetStackInv, Handler, At
  <2>2. Taken(Handler) = At(Tail(free_list), arp_cache) /\ Tail(free_list) \in Seq(Buffers)
    BY <2>1, TakeAndGive
  <2>3. ethernet_rx(Taken(Handler), Head(free_list), f).free = <<Head(free_list)>> \o Tail(free_list)
    BY <2>2, ReceiveGives
  <2>4. <<Head(free_list)>> \o Tail(free_list) = free_list
    BY <2>1, HeadAndTail
  <2> QED
    BY <2>3, <2>4 DEF network_poll, Handled
<1>2. sockets' \in [1 .. SocketMax -> UdpSocket] /\ DatagramsReachTheirPort'
  <2>1. CASE sockets' = sockets
    BY <2>1 DEF NetStackInv, DatagramsReachTheirPort
  <2>2. CASE sockets' = udp_rx(f.dport)
    <3>1. DOMAIN sockets = 1 .. SocketMax
      BY DEF NetStackInv
    <3>2. ASSUME NEW i \in 1 .. SocketMax
          PROVE  /\ sockets'[i] \in UdpSocket
                 /\ sockets'[i].bound /\ sockets'[i].rx # NoDatagram => sockets'[i].rx = sockets'[i].port
      <4>1. sockets[i] \in UdpSocket
            /\ (sockets[i].bound /\ sockets[i].rx # NoDatagram => sockets[i].rx = sockets[i].port)
        BY <3>1 DEF NetStackInv, DatagramsReachTheirPort
      <4>2. \/ sockets'[i] = sockets[i]
            \/ sockets[i].port = f.dport /\ sockets'[i] = [sockets[i] EXCEPT !.rx = f.dport]
        BY <2>2, <3>1 DEF udp_rx, BoundTo
      <4> QED
        BY <4>1, <4>2 DEF UdpSocket
    <3>3. sockets' = [i \in 1 .. SocketMax |-> sockets'[i]]
      BY <2>2, <3>1 DEF udp_rx
    <3> QED
      BY <3>2, <3>3 DEF DatagramsReachTheirPort
  <2> QED
    BY <2>1, <2>2 DEF network_poll
<1> QED
  BY <1>1, <1>2 DEF NetStackInv

LEMMA SocketKeeps ==
    ASSUME NetStackInv, NEW i \in 1 .. SocketMax, NEW s \in UdpSocket,
           s.bound /\ s.rx # NoDatagram => s.rx = s.port,
           sockets' = [sockets EXCEPT ![i] = s], free_list' = free_list
    PROVE  NetStackInv'
  BY DEF NetStackInv, DatagramsReachTheirPort

LEMMA BindKeeps ==
    ASSUME NetStackInv, NEW i \in 1 .. SocketMax,
           udp_unbind(i) \/ udp_recv(i) \/ \E port \in UdpPorts : udp_bind(i, port)
    PROVE  NetStackInv'
<1>1. sockets[i] \in UdpSocket
  BY DEF NetStackInv
<1>2. CASE udp_unbind(i)
  <2> DEFINE s == [sockets[i] EXCEPT !.bound = FALSE]
  <2>1. s \in UdpSocket /\ ~s.bound
    BY <1>1 DEF UdpSocket
  <2>2. sockets' = [sockets EXCEPT ![i] = s] /\ free_list' = free_list
    BY <1>2 DEF udp_unbind
  <2> HIDE DEF s
  <2> QED
    BY <2>1, <2>2, SocketKeeps
<1>3. CASE udp_recv(i)
  <2> DEFINE s == [sockets[i] EXCEPT !.rx = NoDatagram]
  <2>1. s \in UdpSocket /\ s.rx = NoDatagram
    BY <1>1 DEF UdpSocket, NoDatagram
  <2>2. sockets' = [sockets EXCEPT ![i] = s] /\ free_list' = free_list
    BY <1>3 DEF udp_recv
  <2> HIDE DEF s
  <2> QED
    BY <2>1, <2>2, SocketKeeps
<1>4. ASSUME NEW port \in UdpPorts, udp_bind(i, port) PROVE NetStackInv'
  <2> DEFINE s == [bound |-> TRUE, port |-> port, rx |-> NoDatagram]
  <2>1. s \in UdpSocket /\ s.rx = NoDatagram
    BY StackAssumption DEF UdpSocket, NoDatagram
  <2>2. sockets' = [sockets EXCEPT ![i] = s] /\ free_list' = free_list
    BY <1>4 DEF udp_bind
  <2> HIDE DEF s
  <2> QED
    BY <2>1, <2>2, SocketKeeps
<1> QED
  BY <1>2, <1>3, <1>4

LEMMA UdpSendKeeps ==
    ASSUME NetStackInv, NEW dst \in Hosts, udp_send(dst)
    PROVE  NetStackInv'
<1>1. free_list \in Seq(Buffers) /\ Handler = At(free_list, arp_cache)
  BY FullPoolIsSeq DEF NetStackInv, Handler, At
<1>2. ipv4_send(Handler, dst) = At(free_list, arp_cache)
  BY <1>1, SendKeeps
<1>3. free_list' = free_list /\ sockets' = sockets
  BY <1>2 DEF udp_send, Handled, At
<1> QED
  BY <1>3 DEF NetStackInv, DatagramsReachTheirPort

LEMMA NetStackInvStep ==
    NetStackInv /\ [NetStackNext]_<<netStackVars, routingVars, firewallVars>> => NetStackInv'
<1> SUFFICES ASSUME NetStackInv, [NetStackNext]_<<netStackVars, routingVars, firewallVars>>
             PROVE  NetStackInv'
  OBVIOUS
<1>1. CASE UNCHANGED <<netStackVars, routingVars, firewallVars>>
  BY <1>1 DEF netStackVars, NetStackInv, DatagramsReachTheirPort
<1>2. ASSUME NEW f \in Frames, network_poll(f) PROVE NetStackInv'
  BY <1>2, PollKeeps
<1>3. ASSUME NEW i \in 1 .. SocketMax,
             udp_unbind(i) \/ udp_recv(i) \/ \E port \in UdpPorts : udp_bind(i, port)
      PROVE  NetStackInv'
  BY <1>3, BindKeeps
<1>4. ASSUME NEW dst \in Hosts, udp_send(dst) PROVE NetStackInv'
  BY <1>4, UdpSendKeeps
<1> QED
  BY <1>1, <1>2, <1>3, <1>4 DEF NetStackNext

LEMMA NetStackInvReturns == NetStackInv => PacketsReturn
<1> SUFFICES ASSUME NetStackInv PROVE PacketsReturn
  OBVIOUS
<1>1. /\ DOMAIN free_list = 1 .. PoolSize
      /\ \A i \in 1 .. PoolSize : free_list[i] = PoolSize + 1 - i
  BY DEF NetStackInv, FullPool
<1>2. IsInjective(free_list)
  BY <1>1, StackAssumption DEF IsInjective
<1>3. ToSet(free_list) = 1 .. PoolSize
  <2>1. \A b \in 1 .. PoolSize : PoolSize + 1 - b \in 1 .. PoolSize /\ PoolSize + 1 - (PoolSize + 1 - b) = b
    BY StackAssumption
  <2> QED
    BY <1>1, <2>1 DEF ToSet
<1> QED
  BY <1>2, <1>3 DEF PacketsReturn

(* Whatever arrives and whatever is sent, every buffer pktbuf_alloc took   *)
(* is back on the free list, once, when the handler ends.                  *)
THEOREM BuffersReturn == NetStackSpec => []PacketsReturn
  BY NetStackInvInit, NetStackInvStep, NetStackInvReturns, PTL DEF NetStackSpec

(* The datagram udp_recv hands out came for the port the socket is bound   *)
(* to, however often its slot changed hands.                               *)
THEOREM DatagramsStayWithTheirPort == NetStackSpec => []DatagramsReachTheirPort
<1>1. NetStackInv => DatagramsReachTheirPort
  BY DEF NetStackInv
<1> QED
  BY <1>1, NetStackInvInit, NetStackInvStep, PTL DEF NetStackSpec
=============================================================================
