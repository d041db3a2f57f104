------------------------------- MODULE Socket --------------------------------
(***************************************************************************)
(* The stream sockets of net/socket.c over Tcp, with one process on each   *)
(* host; lookup() lets a process use its own sockets only.  Each action is *)
(* a system call; calls that return an error and change nothing are left   *)
(* out.                                                                    *)
(***************************************************************************)
EXTENDS Tcp

CONSTANTS
    SocketMax,      \* AEGIS_SOCKET_MAX
    Servers,        \* hosts whose process listens
    Clients,        \* hosts whose process connects
    Port,           \* the port servers bind
    MaxConnects,    \* bound: calls of connect by a process
    MaxBytes,       \* bound: bytes the process of a host sends on a connection
    MaxCreates,     \* bound: calls of socket by the process of a host
    MaxListens      \* bound: calls of listen by a process

ASSUME SocketAssumption ==
    /\ SocketMax \in Nat \ {0} /\ Servers \subseteq Hosts /\ Clients \subseteq Hosts
    /\ Port \in Nat \ {0} /\ MaxConnects \in Nat /\ MaxBytes \in [Hosts -> Nat]
    /\ MaxCreates \in [Hosts -> Nat] /\ MaxListens \in Nat

VARIABLES
    sockets,        \* per host
    creates,        \* calls of socket, per host
    listens         \* calls of listen, per host

calls == <<creates, listens>>
vars == <<tcpVars, sockets, calls>>

Fds == 1..SocketMax
NoSocket == [used |-> FALSE, local_port |-> 0, transport_id |-> NoId, listening |-> FALSE]

Init ==
    /\ TcpInit
    /\ sockets = [h \in Hosts |-> [s \in Fds |-> NoSocket]]
    /\ creates = [h \in Hosts |-> 0]
    /\ listens = [h \in Hosts |-> 0]

FreeFds(h) == {s \in Fds : ~sockets[h][s].used}

(* net_socket_create() *)
Create(h) ==
    /\ FreeFds(h) # {} /\ creates[h] < MaxCreates[h]
    /\ sockets' = [sockets EXCEPT ![h][First(FreeFds(h))] = [NoSocket EXCEPT !.used = TRUE]]
    /\ creates' = [creates EXCEPT ![h] = @ + 1]
    /\ UNCHANGED <<tcpVars, listens>>

(* net_socket_bind() *)
Bind(h, s) ==
    /\ h \in Servers /\ sockets[h][s].used /\ sockets[h][s].local_port = 0
    /\ sockets' = [sockets EXCEPT ![h][s].local_port = Port]
    /\ UNCHANGED <<tcpVars, calls>>

(* net_socket_listen(); a socket may listen again *)
Listen(h, s) ==
    /\ sockets[h][s].used /\ sockets[h][s].local_port # 0 /\ listens[h] < MaxListens
    /\ FreeConns(h) # {}
    /\ TcpListen(h, First(FreeConns(h)), sockets[h][s].local_port)
    /\ sockets' = [sockets EXCEPT ![h][s].transport_id = First(FreeConns(h)), ![h][s].listening = TRUE]
    /\ listens' = [listens EXCEPT ![h] = @ + 1]
    /\ UNCHANGED creates

(* net_socket_listen() and net_socket_connect() with every slot in use *)
NoSlot(h, s) ==
    /\ sockets[h][s].used /\ FreeConns(h) = {}
    /\ sockets[h][s].local_port # 0 \/ h \in Clients
    /\ sockets' = [sockets EXCEPT ![h][s].transport_id = NoId]
    /\ UNCHANGED <<tcpVars, calls>>

(* net_socket_accept(): with no socket left the connection stays accepted   *)
Accept(h, s) ==
    LET l == sockets[h][s].transport_id
        i == First(Acceptable(h, l))
        child == [NoSocket EXCEPT !.used = TRUE, !.transport_id = i, !.local_port = sockets[h][s].local_port]
    IN  /\ sockets[h][s].listening /\ l # NoId
        /\ conns[h][l].active /\ conns[h][l].state = "LISTEN"
        /\ Acceptable(h, l) # {}
        /\ conns' = [conns EXCEPT ![h][i].accepted = TRUE]
        /\ sockets' = IF FreeFds(h) = {} THEN sockets
                      ELSE [sockets EXCEPT ![h][First(FreeFds(h))] = child]
        /\ UNCHANGED <<segments, next_ephemeral_port, calls>>

(* net_socket_connect(), on any socket *)
Connect(h, s, ip) ==
    /\ h \in Clients /\ ip # h /\ sockets[h][s].used
    /\ next_ephemeral_port[h] < FirstPort + MaxConnects
    /\ FreeConns(h) # {}
    /\ TcpConnect(h, First(FreeConns(h)), ip, Port)
    /\ sockets' = [sockets EXCEPT ![h][s].transport_id = First(FreeConns(h))]
    /\ UNCHANGED calls

(* net_socket_send() of n bytes *)
Send(h, s, n) ==
    /\ sockets[h][s].used /\ sockets[h][s].transport_id # NoId
    /\ conns[h][sockets[h][s].transport_id].sent + n <= MaxBytes[h]
    /\ TcpSend(h, sockets[h][s].transport_id, n)
    /\ UNCHANGED <<sockets, calls>>

(* net_socket_recv() of at most n bytes *)
Recv(h, s, n) ==
    /\ sockets[h][s].used /\ sockets[h][s].transport_id # NoId
    /\ TcpRecv(h, sockets[h][s].transport_id, n)
    /\ UNCHANGED <<sockets, calls>>

(* net_socket_close() of the sockets S *)
Shut(h, S) ==
    LET ids == {i \in Ids : conns[h][i].active /\ \E s \in S : sockets[h][s].used /\ sockets[h][s].transport_id = i}
    IN  /\ conns' = [conns EXCEPT ![h] = [i \in Ids |-> IF i \in ids THEN Closed(@[i]) ELSE @[i]]]
        /\ segments' = segments \cup UNION {Fins(h, conns[h][i]) : i \in ids}
        /\ sockets' = [sockets EXCEPT ![h] = [s \in Fds |-> IF s \in S THEN NoSocket ELSE @[s]]]
        /\ UNCHANGED <<next_ephemeral_port, calls>>

(* net_socket_close() *)
Close(h, s) == sockets[h][s].used /\ Shut(h, {s})

(* net_socket_close_all(), when the process exits or is killed *)
CloseAll(h) == Fds \ FreeFds(h) # {} /\ Shut(h, Fds)

(* A frame arrives. *)
Deliver(h, m) == Rx(h, m) /\ UNCHANGED <<sockets, calls>>

Next ==
    \E h \in Hosts :
        \/ Create(h) \/ CloseAll(h)
        \/ \E m \in segments : Deliver(h, m)
        \/ \E s \in Fds :
            \/ Bind(h, s) \/ Listen(h, s) \/ NoSlot(h, s) \/ Accept(h, s) \/ Close(h, s)
            \/ \E ip \in Servers : Connect(h, s, ip)
            \/ \E n \in 1..(Mss + 1) : Send(h, s, n) \/ Recv(h, s, n)

Spec == Init /\ [][Next]_vars

-----------------------------------------------------------------------------
States ==
    {"CLOSED", "LISTEN", "SYN_SENT", "SYN_RECEIVED", "ESTABLISHED", "FIN_WAIT_1",
     "FIN_WAIT_2", "CLOSE_WAIT", "CLOSING", "LAST_ACK", "TIME_WAIT"}

(* Whatever the network loses, repeats or reorders, and whatever the buffer *)
(* has no room for, the bytes a process can read from a connection are the  *)
(* bytes the peer sent on it, from the first, in order and without a gap.   *)
BytesInOrder ==
    \A h \in Hosts, i \in Ids :
        LET c == conns[h][i] IN \A k \in DOMAIN c.rx_buf : c.rx_buf[k] = c.read + k

(* What an established connection acknowledges is exactly what it has taken *)
(* into its buffer.                                                         *)
AckedIsTaken ==
    \A h \in Hosts, i \in Ids :
        LET c == conns[h][i]
        IN  c.active /\ c.state = "ESTABLISHED" => c.rcv_nxt = c.irs + c.read + Len(c.rx_buf)

(* A connection belongs to one socket: no connection is accepted twice, and *)
(* no socket still refers to a slot that was freed and given to another.    *)
OneOwner ==
    \A h \in Hosts : \A s, r \in Fds :
        s # r /\ sockets[h][s].transport_id = sockets[h][r].transport_id
            => sockets[h][s].transport_id = NoId

(* A reader that has been told of the end of the stream has all of it:      *)
(* tcp.c's "reliable delivery".                                             *)
EndIsComplete ==
    \A h \in Hosts, i \in Ids :
        LET c == conns[h][i]
        IN  c.active /\ c.state = "CLOSE_WAIT" => c.rcv_nxt = c.irs + c.read + Len(c.rx_buf) + 1
=============================================================================
