----------------------------- MODULE NetTables ------------------------------
(***************************************************************************)
(* The tables of the network in use.  Routes are added, changed and        *)
(* deleted while packets are sent; a deleted route does not give its       *)
(* storage back.  Rules are added, deleted by number and flushed while     *)
(* packets are checked.  Packets leave from inside ends to remote ones     *)
(* while ports are forwarded and translation is switched.                  *)
(***************************************************************************)
EXTENDS Routing, Firewall, Nat

CONSTANTS
    RouteChoices,        \* routes that are added
    DefaultGateways,     \* gateways that are made the default
    Destinations         \* the addresses packets are sent to

RouteNext ==
    \/ \E r \in RouteChoices : routing_add(r)
    \/ \E r \in RouteChoices : routing_del(r.network)
    \/ \E gateway \in DefaultGateways : routing_set_default(gateway)
    \/ routing_init

(* routing_lookup chooses among all routes that cover the destination one  *)
(* with the longest prefix, and of those one with the smallest metric, in  *)
(* whatever order they were added, changed and deleted.  The search starts *)
(* from a default route of the worst metric, which one in the table would  *)
(* have to be better than.                                                 *)
LookupTakesTheBestRoute ==
    \A dst \in Destinations :
        LET Usable(r) == IsPrefix(r.network, dst) /\ (r.network # <<>> \/ r.metric < WorstMetric)
            usable == {r \in ToSet(routes) : Usable(r)}
            best == routing_lookup(dst)
        IN  IF usable = {} THEN best = NoRoute
            ELSE /\ best \in usable
                 /\ \A r \in usable :
                        \/ Len(r.network) < Len(best.network)
                        \/ Len(r.network) = Len(best.network) /\ r.metric >= best.metric

-----------------------------------------------------------------------------
CONSTANTS Rules, Packets

VARIABLE in_force        \* the numbers of the rules added and not deleted, oldest first

ruleListVars == <<firewallVars, in_force>>

RuleListNext ==
    \/ \E r \in Rules : firewall_add_rule(r) /\ in_force' = Append(in_force, Len(rule_storage) + 1)
    \/ \E id \in 1 .. RuleMax :
           firewall_del_rule(id) /\ in_force' = SelectSeq(in_force, LAMBDA i : i # id)
    \/ firewall_flush_rules /\ in_force' = <<>>
    \/ \E pkt \in Packets : firewall_check(pkt) /\ UNCHANGED in_force

(* firewall_check walks exactly the rules that were added and not deleted  *)
(* since, in the order firewall_add_rule was called, whatever was deleted  *)
(* twice, at the head, at the tail or before a flush gave its slot away.   *)
RulesInOrder == ListFrom = in_force

-----------------------------------------------------------------------------
CONSTANTS InsideEnds, RemoteEnds, Protocols, ForwardPorts

(* The table has 4096 entries and the range 50001 ports.                   *)
ASSUME NatAssumption ==
    /\ NatPortMin \in Nat /\ NatPortMax \in Nat /\ NatPortMin <= NatPortMax
    /\ NatMax \in Nat /\ NatMax <= NatPortMax - NatPortMin + 1
    /\ AnySource \notin RemoteEnds

NatNext ==
    \/ nat_init \/ nat_enable \/ nat_disable
    \/ \E inside \in InsideEnds, proto \in Protocols :
           \/ \E remote \in RemoteEnds : nat_translate_outbound(inside, remote, proto)
           \/ \E port \in ForwardPorts : nat_add_port_forward(port, inside, proto)

NatSpec == NatBoot /\ [][NatNext]_natVars

(* The answer to a packet nat_translate_outbound let out, which comes from *)
(* the remote end to the external port of the entry, is handed to the      *)
(* inside end that sent the packet: although alloc_nat_port wraps around   *)
(* without looking which ports are taken, no two entries share one.        *)
NatAnswersReachTheSender ==
    \A i \in DOMAIN nat_table :
        LET e == nat_table[i]
        IN  nat_enabled /\ e.remote # AnySource =>
                nat_translate_inbound(e.port, e.remote, e.proto) = e.inside
=============================================================================
