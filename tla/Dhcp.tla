-------------------------------- MODULE Dhcp --------------------------------
(***************************************************************************)
(* The DHCP client (net/dhcp.c).  Messages the client ever sent may be     *)
(* answered at any later time, any number of times or never, by any server *)
(* they are addressed to; a server's name stands for every value it hands  *)
(* out.  Transaction numbers count up: the generator of the code does not  *)
(* repeat within a boot.                                                   *)
(***************************************************************************)
EXTENDS Integers, Sequences, FiniteSets

CONSTANTS
    Servers,             \* DHCP servers on the network
    SentBy,              \* server -> the options it sends, of Options
    XidMax               \* bound: discoveries of one boot

VARIABLES
    dhcp,                \* [state, xid, offered, server, option]: dhcp_ctx
    wire,                \* what the client sent: [type, xid, server]
    local_ip             \* ipv4.c's address, mask and gateway

dhcpVars == <<dhcp, wire, local_ip>>

Options == {"mask", "gateway", "dns"}
NoServer == "none"
NoAddress == [addr |-> NoServer, mask |-> NoServer, gateway |-> NoServer]

DhcpBoot ==
    /\ dhcp = [state |-> "init", xid |-> 0, offered |-> NoServer, server |-> NoServer,
               option |-> [o \in Options |-> NoServer]]
    /\ wire = {}
    /\ local_ip = NoAddress

Discovering(d) == [d EXCEPT !.xid = d.xid + 1, !.state = "selecting"]

Sent(type, d) == wire' = wire \union {[type |-> type, xid |-> d.xid, server |-> d.server]}

dhcp_discover ==
    /\ dhcp.xid < XidMax
    /\ dhcp' = Discovering(dhcp)
    /\ Sent("discover", dhcp')
    /\ UNCHANGED local_ip

(* What can arrive: an offer of any server for a discovery, an answer of   *)
(* the chosen server to a request.                                         *)
Answers ==
    {[type |-> "offer", xid |-> m.xid, server |-> s] :
        m \in {m \in wire : m.type = "discover"}, s \in Servers}
    \union {[type |-> t, xid |-> m.xid, server |-> m.server] :
        m \in {m \in wire : m.type = "request"}, t \in {"ack", "nak"}}

(* Mutant: the transaction of an answer is not compared.                   *)
Concerns_AnyXid(m) == TRUE

Concerns(m) == m.xid = dhcp.xid

(* The options of a message are taken over before its type matters.        *)
Parsed(m) ==
    [dhcp EXCEPT !.server = m.server,
                 !.option = [o \in Options |-> IF o \in SentBy[m.server] THEN m.server ELSE dhcp.option[o]]]

dhcp_handle_response(m) ==
    LET d == Parsed(m) IN
    CASE ~Concerns(m) -> UNCHANGED dhcpVars
      [] Concerns(m) /\ d.state = "selecting" /\ m.type = "offer" ->
            /\ dhcp' = [d EXCEPT !.offered = m.server, !.state = "requesting"]
            /\ Sent("request", dhcp') /\ UNCHANGED local_ip
      [] Concerns(m) /\ d.state = "requesting" /\ m.type = "ack" ->
            /\ dhcp' = [d EXCEPT !.state = "bound"]
            /\ local_ip' = [addr |-> d.offered, mask |-> d.option["mask"], gateway |-> d.option["gateway"]]
            /\ UNCHANGED wire
      [] Concerns(m) /\ d.state = "requesting" /\ m.type = "nak" ->
            /\ d.xid < XidMax
            /\ dhcp' = Discovering(d) /\ Sent("discover", dhcp') /\ UNCHANGED local_ip
      [] OTHER -> dhcp' = d /\ UNCHANGED <<wire, local_ip>>
=============================================================================
