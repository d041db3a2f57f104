--------------------------------- MODULE Tcp ---------------------------------
(***************************************************************************)
(* net/tcp.c on several hosts.  segments is every segment ever given to    *)
(* the network: one may arrive at any time, several times or never.        *)
(*                                                                         *)
(* Byte k of what a process sends on a connection is the number k.         *)
(* tcp_send_segment() has moved snd_nxt when ipv4_send() fails (no route,  *)
(* ARP pending, no buffer, device timeout), so a segment that fails is one *)
(* that is lost; tcp_send_id() then stops, as if it had been given fewer   *)
(* bytes.  snd_una, the windows and the retransmission count are never     *)
(* read.                                                                   *)
(***************************************************************************)
EXTENDS Integers, Sequences

CONSTANTS
    Hosts,          \* hosts that run this stack
    NoHost,         \* remote_ip 0
    TcpMax,         \* TCP_MAX_CONNECTIONS
    RxSize,         \* sizeof rx_buf
    Mss,            \* TCP_MSS
    FirstPort,      \* 49152
    ListenIsn,      \* 1000
    ConnectIsn      \* 5000

ASSUME TcpAssumption ==
    /\ NoHost \notin Hosts
    /\ TcpMax \in Nat \ {0} /\ RxSize \in Nat \ {0} /\ Mss \in Nat \ {0}
    /\ FirstPort \in Nat /\ ListenIsn \in Nat /\ ConnectIsn \in Nat

VARIABLES
    conns,                  \* connections, per host
    next_ephemeral_port,    \* per host
    segments

tcpVars == <<conns, next_ephemeral_port, segments>>

Ids == 1..TcpMax
NoId == 0   \* transport_id -1

(* tcp_conn_t; sent, read and irs are history: bytes handed over by the     *)
(* local process, bytes it has received, first sequence number of the peer  *)
NewConn ==
    [active |-> FALSE, accepted |-> FALSE, state |-> "CLOSED", local_port |-> 0,
     remote_ip |-> NoHost, remote_port |-> 0, snd_nxt |-> 0, rcv_nxt |-> 0, rx_buf |-> <<>>,
     sent |-> 0, read |-> 0, irs |-> 0]

TcpInit ==
    /\ conns = [h \in Hosts |-> [i \in Ids |-> NewConn]]
    /\ next_ephemeral_port = [h \in Hosts |-> FirstPort]
    /\ segments = {}

-----------------------------------------------------------------------------
First(S) == CHOOSE i \in S : \A j \in S : i <= j

(* tcp_find_conn(): a connection, else a listener; a listener's remote      *)
(* address is whatever its slot held before                                 *)
Matching(h, ip, rport, lport) ==
    {i \in Ids : /\ conns[h][i].active /\ conns[h][i].local_port = lport
                 /\ conns[h][i].remote_ip = ip /\ conns[h][i].remote_port = rport}
Listening(h, lport) ==
    {i \in Ids : conns[h][i].active /\ conns[h][i].state = "LISTEN" /\ conns[h][i].local_port = lport}
FindConn(h, ip, rport, lport) ==
    LET own == Matching(h, ip, rport, lport)
        found == IF own # {} THEN own ELSE Listening(h, lport)
    IN  IF found = {} THEN NoId ELSE First(found)

(* tcp_alloc_conn(): the addresses of the slot's last use stay *)
FreeConns(h) == {i \in Ids : ~conns[h][i].active}
Allocated(c) ==
    [c EXCEPT !.active = TRUE, !.accepted = FALSE, !.rx_buf = <<>>, !.sent = 0, !.read = 0]

(* tcp_send_segment() *)
Segment(h, c, flags, data) ==
    [src |-> h, sport |-> c.local_port, dst |-> c.remote_ip, dport |-> c.remote_port,
     seq |-> c.snd_nxt, flags |-> flags, data |-> data]
Advanced(c, flags, data) ==
    [c EXCEPT !.snd_nxt = @ + Len(data) + (IF flags \cap {"SYN", "FIN"} # {} THEN 1 ELSE 0)]
SendSegment(h, i, c, flags) ==
    /\ conns' = [conns EXCEPT ![h][i] = Advanced(c, flags, <<>>)]
    /\ segments' = segments \cup {Segment(h, c, flags, <<>>)}

-----------------------------------------------------------------------------
(* tcp_rx() of a SYN by a listener *)
RxSyn(h, i, m) ==
    LET n == First(FreeConns(h))
    IN  /\ conns[h][i].state = "LISTEN" /\ "SYN" \in m.flags /\ FreeConns(h) # {}
        /\ SendSegment(h, n,
               [Allocated(conns[h][n]) EXCEPT
                    !.local_port = m.dport, !.remote_ip = m.src, !.remote_port = m.sport,
                    !.state = "SYN_RECEIVED", !.snd_nxt = ListenIsn,
                    !.rcv_nxt = m.seq + 1, !.irs = m.seq + 1],
               {"SYN", "ACK"})
        /\ UNCHANGED next_ephemeral_port

(* Mutant: later data is taken for the data that is due. *)
IsDue_OrLater(c, m) == m.data # <<>> /\ m.seq >= c.rcv_nxt

IsDue(c, m) == m.data # <<>> /\ m.seq = c.rcv_nxt

Room(c) == RxSize - Len(c.rx_buf)

Copied(c, m) == IF Len(m.data) < Room(c) THEN Len(m.data) ELSE Room(c)

(* Mutant: all of the segment is acknowledged. *)
Taken_AckAll(c, m) ==
    [c EXCEPT !.rx_buf = @ \o SubSeq(m.data, 1, Copied(c, m)), !.rcv_nxt = @ + Len(m.data)]

Taken(c, m) ==
    [c EXCEPT !.rx_buf = @ \o SubSeq(m.data, 1, Copied(c, m)), !.rcv_nxt = @ + Copied(c, m)]

(* The peer's SYN or FIN: what is expected next comes after it. *)
Past(c, m, state) == [c EXCEPT !.rcv_nxt = m.seq + 1, !.state = state]

(* tcp_rx() by a connection: its new value when it replies with an ACK ... *)
Replies(c, m) ==
    LET fin == "FIN" \in m.flags
        ack == "ACK" \in m.flags
    IN  CASE c.state = "SYN_SENT" /\ {"SYN", "ACK"} \subseteq m.flags ->
                {[Past(c, m, "ESTABLISHED") EXCEPT !.irs = m.seq + 1]}
          [] c.state = "ESTABLISHED" /\ fin -> {Past(c, m, "CLOSE_WAIT")}
          [] c.state = "ESTABLISHED" /\ ~fin /\ ack /\ IsDue(c, m) -> {Taken(c, m)}
          [] c.state = "FIN_WAIT_1" /\ fin -> {Past(c, m, IF ack THEN "TIME_WAIT" ELSE "CLOSING")}
          [] c.state = "FIN_WAIT_2" /\ fin -> {Past(c, m, "TIME_WAIT")}
          [] OTHER -> {}

(* ... and when it does not. *)
Quiet(c, m) ==
    LET ack == "ACK" \in m.flags
    IN  CASE c.state = "SYN_RECEIVED" /\ ack -> {[c EXCEPT !.state = "ESTABLISHED"]}
          [] c.state = "FIN_WAIT_1" /\ ack /\ "FIN" \notin m.flags -> {[c EXCEPT !.state = "FIN_WAIT_2"]}
          [] c.state = "LAST_ACK" /\ ack -> {[c EXCEPT !.state = "CLOSED", !.active = FALSE]}
          [] OTHER -> {}

RxConn(h, i, m) ==
    /\ \/ \E c \in Replies(conns[h][i], m) : SendSegment(h, i, c, {"ACK"})
       \/ \E c \in Quiet(conns[h][i], m) :
            /\ conns' = [conns EXCEPT ![h][i] = c]
            /\ UNCHANGED segments
    /\ UNCHANGED next_ephemeral_port

(* network_poll(), which every receiving system call runs, takes packets    *)
(* from the device until there is none.                                     *)
Rx(h, m) ==
    LET i == FindConn(h, m.src, m.sport, m.dport)
    IN  m.dst = h /\ i # NoId /\ (RxSyn(h, i, m) \/ RxConn(h, i, m))

-----------------------------------------------------------------------------
(* tcp_listen(), when there is a slot *)
TcpListen(h, i, port) ==
    /\ conns' = [conns EXCEPT ![h][i] = [Allocated(@) EXCEPT !.local_port = port, !.state = "LISTEN"]]
    /\ UNCHANGED <<segments, next_ephemeral_port>>

(* tcp_connect(), when there is a slot *)
TcpConnect(h, i, ip, port) ==
    /\ SendSegment(h, i,
           [Allocated(conns[h][i]) EXCEPT
                !.local_port = next_ephemeral_port[h], !.remote_ip = ip, !.remote_port = port,
                !.state = "SYN_SENT", !.snd_nxt = ConnectIsn],
           {"SYN"})
    /\ next_ephemeral_port' = [next_ephemeral_port EXCEPT ![h] = @ + 1]

(* Mutant: the connection may have been accepted before. *)
Acceptable_Again(h, l) ==
    {i \in Ids : /\ conns[h][i].active /\ conns[h][i].state = "ESTABLISHED"
                 /\ conns[h][i].local_port = conns[h][l].local_port /\ conns[h][i].remote_ip # NoHost}

(* The connections tcp_accept() may return for listener l *)
Acceptable(h, l) ==
    {i \in Ids : /\ conns[h][i].active /\ conns[h][i].state = "ESTABLISHED" /\ ~conns[h][i].accepted
                 /\ conns[h][i].local_port = conns[h][l].local_port /\ conns[h][i].remote_ip # NoHost}

(* tcp_send_id() of n bytes: a segment for each Mss of them *)
Chunk(h, c, n, o) ==
    Segment(h, [c EXCEPT !.snd_nxt = @ + o], {"ACK", "PSH"},
            [b \in 1..(IF n - o > Mss THEN Mss ELSE n - o) |-> c.sent + o + b])
TcpSend(h, i, n) ==
    LET c == conns[h][i]
    IN  /\ c.active /\ c.state = "ESTABLISHED"
        /\ segments' = segments \cup {Chunk(h, c, n, o) : o \in {x \in 0..(n - 1) : x % Mss = 0}}
        /\ conns' = [conns EXCEPT ![h][i].snd_nxt = @ + n, ![h][i].sent = @ + n]
        /\ UNCHANGED next_ephemeral_port

(* tcp_recv_id() of at most n bytes *)
TcpRecv(h, i, n) ==
    LET c == conns[h][i]
        k == IF Len(c.rx_buf) < n THEN Len(c.rx_buf) ELSE n
    IN  /\ c.active /\ c.state \in {"ESTABLISHED", "CLOSE_WAIT"} /\ c.rx_buf # <<>>
        /\ conns' = [conns EXCEPT ![h][i].rx_buf = SubSeq(@, k + 1, Len(@)), ![h][i].read = @ + k]
        /\ UNCHANGED <<segments, next_ephemeral_port>>

(* tcp_close_id() of a connection, and the FIN it sends *)
Closed(c) ==
    CASE c.state \in {"LISTEN", "CLOSED", "TIME_WAIT"} -> [c EXCEPT !.active = FALSE, !.state = "CLOSED"]
      [] c.state = "ESTABLISHED" -> [c EXCEPT !.state = "FIN_WAIT_1", !.snd_nxt = @ + 1]
      [] c.state = "CLOSE_WAIT" -> [c EXCEPT !.state = "LAST_ACK", !.snd_nxt = @ + 1]
      [] OTHER -> c
Fins(h, c) ==
    IF c.state \in {"ESTABLISHED", "CLOSE_WAIT"} THEN {Segment(h, c, {"FIN", "ACK"}, <<>>)} ELSE {}
=============================================================================
