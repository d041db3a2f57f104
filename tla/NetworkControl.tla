--------------------------- MODULE NetworkControl ---------------------------
(***************************************************************************)
(* The network bring-up (net/network_control.c): discover, wait for a      *)
(* lease, then configure address, route, filter and translation.  The loop *)
(* of the bring-up is a start, any number of rounds and an end.  Datagrams *)
(* that arrive within one poll overwrite each other in the one-datagram    *)
(* socket, so a poll hands at most one of them to the client.              *)
(***************************************************************************)
EXTENDS Dhcp, Routing, Firewall, Nat

VARIABLES
    netctl,              \* the control state's flags that are set
    link,                \* wan_link_state
    lease                \* [addr, option]: the values copied at binding

controlVars == <<netctl, link, lease>>
netVars == <<dhcpVars, routingVars, firewallVars, natVars, controlVars>>

NoLease == [addr |-> NoServer, option |-> [o \in Options |-> NoServer]]

NetBoot ==
    /\ DhcpBoot /\ RoutingBoot /\ FirewallBoot /\ NatBoot
    /\ netctl = {} /\ link = "down" /\ lease = NoLease

network_control_init ==
    /\ netctl' = {"initialised"} /\ link' = "down" /\ lease' = NoLease
    /\ UNCHANGED <<dhcpVars, routingVars, firewallVars, natVars>>

(* bringup_live up to its loop.  Without a link nothing is touched.        *)
bringup_start(link_ready) ==
    /\ "initialised" \in netctl
    /\ link_ready
    /\ netctl' = netctl \union {"hardware_io_ready", "ethernet_identity_ready"}
    /\ link' = "configuring"
    /\ routing_init
    /\ rule_storage' = <<>> /\ rule_head' = 0 /\ rule_next' = <<>> /\ conn_table' = {}
    /\ default_policy' = "drop" /\ fw_enabled' = FALSE
    /\ nat_init
    /\ UNCHANGED <<dhcpVars, lease>>

bringup_no_link(link_ready) ==
    /\ "initialised" \in netctl
    /\ ~link_ready
    /\ link' = "down"
    /\ UNCHANGED <<dhcpVars, routingVars, firewallVars, natVars, netctl, lease>>

(* The retry timer is due and the client is not bound; the driver may      *)
(* report that the frame was not sent in time.                             *)
bringup_retry(reported) ==
    /\ link = "configuring" /\ "dhcp_bound" \notin netctl
    /\ dhcp.state # "bound"
    /\ dhcp_discover
    /\ netctl' = IF reported THEN netctl \union {"dhcp_discover_prepared"} ELSE netctl
    /\ UNCHANGED <<routingVars, firewallVars, natVars, link, lease>>

(* network_control_poll with a datagram for the client.                    *)
network_control_poll(m) ==
    /\ link = "configuring" /\ "dhcp_bound" \notin netctl
    /\ dhcp.xid > 0
    /\ dhcp_handle_response(m)
    /\ lease' = IF dhcp'.state = "bound" THEN [addr |-> dhcp'.offered, option |-> dhcp'.option] ELSE lease
    /\ netctl' = netctl \union (CASE dhcp'.state = "requesting" -> {"dhcp_request_prepared"}
                                  [] dhcp'.state = "bound" -> {"dhcp_bound"}
                                  [] OTHER -> {})
    /\ UNCHANGED <<routingVars, firewallVars, natVars, link>>

FirewallPolicy ==
    LET rule(proto, sport, dport) ==
            [src |-> <<>>, dst |-> <<>>, proto |-> proto, sport |-> sport, dport |-> dport,
             action |-> "accept"]
    IN  <<rule("udp", 67, 68), rule("udp", 0, 53), rule("tcp", 0, 443), rule("tcp", 0, 8443)>>

finish_control_plane ==
    /\ link = "configuring" /\ "dhcp_bound" \in netctl
    /\ lease.option["gateway"] # NoServer
    /\ local_ip' = [addr |-> lease.addr, mask |-> lease.option["mask"], gateway |-> lease.option["gateway"]]
    /\ routing_set_default(lease.option["gateway"])
    /\ Appended(FirewallPolicy)
    /\ default_policy' = "drop" /\ fw_enabled' = TRUE
    /\ nat_enable
    /\ netctl' = netctl \union {"ipv4_configured", "route_table_ready", "firewall_policy_loaded",
                                "nat_enabled", "control_plane_ready"}
    /\ link' = "up"
    /\ UNCHANGED <<dhcp, wire, conn_table, lease>>

(* The lease names no gateway: the address is set and nothing else.        *)
finish_without_gateway ==
    /\ link = "configuring" /\ "dhcp_bound" \in netctl
    /\ lease.option["gateway"] = NoServer
    /\ local_ip' = [addr |-> lease.addr, mask |-> lease.option["mask"], gateway |-> NoServer]
    /\ netctl' = netctl \union {"ipv4_configured"}
    /\ UNCHANGED <<dhcp, wire, routingVars, firewallVars, natVars, link, lease>>

(* Mutant: the deadline is looked at only while no offer is taken.         *)
bringup_timeout_WhileSelecting ==
    /\ link = "configuring" /\ "dhcp_bound" \notin netctl
    /\ dhcp.state = "selecting"
    /\ netctl' = netctl \union {"dhcp_timed_out"} /\ link' = "failed"
    /\ UNCHANGED <<dhcpVars, routingVars, firewallVars, natVars, lease>>

(* The deadline has passed; the first round always comes before it.        *)
bringup_timeout ==
    /\ link = "configuring" /\ "dhcp_bound" \notin netctl
    /\ dhcp.xid > 0
    /\ netctl' = netctl \union {"dhcp_timed_out"} /\ link' = "failed"
    /\ UNCHANGED <<dhcpVars, routingVars, firewallVars, natVars, lease>>

network_control_ready == "control_plane_ready" \in netctl

network_control_selftest ==
    /\ {"hardware_io_ready", "ethernet_identity_ready", "dhcp_discover_prepared", "dhcp_request_prepared",
        "dhcp_bound", "ipv4_configured", "route_table_ready", "firewall_policy_loaded", "nat_enabled",
        "control_plane_ready"} \subseteq netctl
    /\ local_ip.addr = lease.addr
    /\ link = "up"
=============================================================================
