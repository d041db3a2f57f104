------------------------------ MODULE Routing -------------------------------
(***************************************************************************)
(* The routing table (net/routing.c): a list of routes linked through      *)
(* their storage.  A network is the prefix its mask leaves, a tuple, and   *)
(* an address a tuple of AddressBits elements.                             *)
(***************************************************************************)
EXTENDS Integers, Sequences, FiniteSets, SequencesExt

CONSTANTS
    RouteMax,            \* ROUTE_MAX_ENTRIES
    WorstMetric,         \* 0xFFFFFFFF
    NoGateway            \* 0.0.0.0

VARIABLES
    routes,              \* the linked routes, head first: [network, gateway, metric]
    route_count          \* slots of route_storage taken

routingVars == <<routes, route_count>>

RoutingBoot == routes = <<>> /\ route_count = 0

routing_init == routes' = <<>> /\ route_count' = 0

(* Mutant: the metric decides before the length of the mask.               *)
BetterRoute_MetricFirst(r, best) ==
    \/ r.metric < best.metric
    \/ r.metric = best.metric /\ Len(r.network) > Len(best.network)

(* One turn of the lookup's loop; the search starts from an empty mask and *)
(* the worst metric.                                                       *)
BetterRoute(r, best) ==
    \/ Len(r.network) > Len(best.network)
    \/ Len(r.network) = Len(best.network) /\ r.metric < best.metric

NoRoute == [network |-> <<>>, gateway |-> NoGateway, metric |-> WorstMetric]

routing_lookup(dst) ==
    FoldLeft(LAMBDA best, r : IF IsPrefix(r.network, dst) /\ BetterRoute(r, best) THEN r ELSE best,
             NoRoute, routes)

(* A route to the same network through the same gateway only changes its   *)
(* metric; a full storage refuses even that.                               *)
routing_add(r) ==
    /\ route_count < RouteMax
    /\ LET same == {i \in DOMAIN routes : routes[i].network = r.network /\ routes[i].gateway = r.gateway}
       IN  IF same # {}
           THEN /\ routes' = [routes EXCEPT ![CHOOSE i \in same : \A j \in same : i <= j].metric = r.metric]
                /\ UNCHANGED route_count
           ELSE routes' = <<r>> \o routes /\ route_count' = route_count + 1

(* The first route to the network is unlinked; its storage stays taken.    *)
routing_del(network) ==
    /\ \E i \in DOMAIN routes :
           /\ routes[i].network = network
           /\ \A j \in 1 .. i - 1 : routes[j].network # network
           /\ routes' = RemoveAt(routes, i)
    /\ UNCHANGED route_count

routing_set_default(gateway) ==
    routing_add([network |-> <<>>, gateway |-> gateway, metric |-> 100])
=============================================================================
