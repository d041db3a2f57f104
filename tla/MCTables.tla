------------------------------ MODULE MCTables ------------------------------
(***************************************************************************)
(* The tables behind the system calls and the network.  A handler runs     *)
(* without a switch and uses one of these parts, so that their behaviours  *)
(* do not depend on each other: a behaviour of this module is one of one   *)
(* part, the others rest.  Every table has a size at which it fills up and *)
(* wraps around.  Addresses have a network bit and two host bits.          *)
(***************************************************************************)
EXTENDS Ipc, NetStack, NetTables, Files, Configfs, Heap

CONSTANTS InitialRules, InitialRoutes, Address, Gateways

VARIABLE part
tablesVars == <<part, vars, netStackVars, ruleListVars, routingVars, natVars, fileVars, configVars, heapVars>>

Parts == {"channels", "packets", "rules", "routes", "nat", "files", "config", "heap"}

(* The packets part starts with the rules and routes the bring-up of the   *)
(* network leaves, and with or without a default gateway.                  *)
TablesInit ==
    /\ part \in Parts
    /\ Init /\ NatBoot /\ FilesBoot /\ ConfigInit /\ heap_init /\ NetStackBoot
    /\ local_ip = Address
    /\ conn_table = {} /\ fw_enabled = TRUE /\ default_policy = "drop"
    /\ IF part = "packets"
       THEN /\ local_gateway \in Gateways /\ routes \in InitialRoutes
            /\ rule_storage = InitialRules /\ rule_head = 1 /\ in_force = [i \in DOMAIN InitialRules |-> i]
            /\ rule_next = [i \in DOMAIN InitialRules |-> IF i = Len(InitialRules) THEN 0 ELSE i + 1]
       ELSE /\ local_gateway = NoGateway /\ routes = <<>>
            /\ rule_storage = <<>> /\ rule_head = 0 /\ rule_next = <<>> /\ in_force = <<>>
    /\ route_count = Len(routes)

ChannelsStep ==
    /\ part = "channels" /\ Next
    /\ UNCHANGED <<part, netStackVars, ruleListVars, routingVars, natVars, fileVars, configVars, heapVars>>

PacketsStep ==
    /\ part = "packets" /\ NetStackNext
    /\ UNCHANGED <<part, vars, in_force, natVars, fileVars, configVars, heapVars>>

RulesStep ==
    /\ part = "rules" /\ RuleListNext
    /\ UNCHANGED <<part, vars, netStackVars, routingVars, natVars, fileVars, configVars, heapVars>>

RoutesStep ==
    /\ part = "routes" /\ RouteNext
    /\ UNCHANGED <<part, vars, netStackVars, ruleListVars, natVars, fileVars, configVars, heapVars>>

NatStep ==
    /\ part = "nat" /\ NatNext
    /\ UNCHANGED <<part, vars, netStackVars, ruleListVars, routingVars, fileVars, configVars, heapVars>>

FilesStep ==
    /\ part = "files" /\ FilesNext
    /\ UNCHANGED <<part, vars, netStackVars, ruleListVars, routingVars, natVars, configVars, heapVars>>

ConfigStep ==
    /\ part = "config" /\ ConfigNext
    /\ UNCHANGED <<part, vars, netStackVars, ruleListVars, routingVars, natVars, fileVars, heapVars>>

HeapStep ==
    /\ part = "heap" /\ HeapNext
    /\ UNCHANGED <<part, vars, netStackVars, ruleListVars, routingVars, natVars, fileVars, configVars>>

TablesNext ==
    \/ ChannelsStep \/ PacketsStep \/ RulesStep \/ RoutesStep
    \/ NatStep \/ FilesStep \/ ConfigStep \/ HeapStep

TablesSpec == TablesInit /\ [][TablesNext]_tablesVars

-----------------------------------------------------------------------------
(* The instance.                                                           *)
CONSTANTS n1, n2, n3, a, k1, k2, k3, x, y, lan1, lan2, web, dns

MCNames == {n1, n2, n3}
MCValues == {a}

Us == <<0, 0, 1>>
Router == <<0, 1, 0>>
Peer == <<0, 0, 0>>
Outside == <<1, 0, 1>>
LanBroadcast == <<0, 1, 1>>
AllOnes == <<1, 1, 1>>

Rule(proto, sport, dport, action) ==
    [src |-> <<>>, dst |-> <<>>, proto |-> proto, sport |-> sport, dport |-> dport, action |-> action]

(* DHCP answers, HTTPS, a closed port and ping.                            *)
MCInitialRules ==
    <<Rule(17, 67, 68, "accept"), Rule(17, 0, 53, "accept"), Rule(6, 0, 443, "accept"), Rule(1, 0, 0, "accept")>>
MCRules == {Rule(6, 0, 443, "accept"), Rule(0, 0, 0, "drop")}

DefaultRoute == [network |-> <<>>, gateway |-> Router, metric |-> 100]
MCRoutes == {<<>>, <<DefaultRoute>>, <<[DefaultRoute EXCEPT !.gateway = NoGateway]>>}
Route(network, gateway, metric) == [network |-> network, gateway |-> gateway, metric |-> metric]
MCRouteChoices ==
    {Route(<<1>>, Router, 5), Route(<<1>>, Peer, 5), Route(<<1>>, Peer, 7), Route(<<1, 0>>, Peer, 9),
     Route(<<>>, Peer, 1), Route(<<>>, Peer, WorstMetric)}
MCDefaultGateways == {Router}
MCDestinations == {Outside, AllOnes, Peer}
MCGateways == {NoGateway, Router}

Arp(op, sender, mac, target) ==
    [type |-> "arp", op |-> op, sender |-> sender, mac |-> mac, target |-> target]
Ip(src, dst, proto, sport, dport, what) ==
    [type |-> "ipv4", src |-> src, dst |-> dst, proto |-> proto, sport |-> sport, dport |-> dport, what |-> what]

MCFrames ==
    { Arp("request", Peer, "m1", Us), Arp("reply", Router, "m2", Us), Arp("request", LanBroadcast, "m1", Peer),
      Ip(Peer, Us, 1, 0, 0, "echo_request"), Ip(Outside, Us, 1, 0, 0, "echo_request"),
      Ip(Peer, AllOnes, 1, 0, 0, "echo_reply"), Ip(Outside, Us, 6, 9, 443, "answered"),
      Ip(Outside, Us, 6, 9, 80, "answered"), Ip(Peer, Us, 6, 9, 443, "silent"),
      Ip(Router, LanBroadcast, 17, 67, 68, "datagram"), Ip(Outside, Us, 17, 9, 53, "datagram"),
      Ip(Outside, Us, 99, 0, 0, "other"), Ip(Peer, Router, 17, 67, 68, "datagram"),
      Ip(Peer, Us, 17, 67, 68, "damaged"), [type |-> "unknown"] }
MCHosts == {Peer, Outside, AllOnes}

MCPackets == {[src |-> Outside, dst |-> Us, sport |-> 9, dport |-> d, proto |-> 6] : d \in {443, 80}}

MCInside == {lan1, lan2}
MCRemote == {web, dns}

MCKeys == {k1, k2, k3}
MCSettings == {x, y}
(* Two keys meet in the last slot, whose walk goes on at the first.        *)
MCHashOf == (k1 :> 2) @@ (k2 :> 2) @@ (k3 :> 0)

MCPaths == {<<"sbin", "aegis-init">>}
=============================================================================
