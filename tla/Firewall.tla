------------------------------ MODULE Firewall ------------------------------
(***************************************************************************)
(* The packet filter (net/firewall.c): rules in storage slots, linked in   *)
(* the order they are evaluated, and the flows that were accepted.  A      *)
(* packet is [src, dst, sport, dport, proto]; in a rule 0 stands for any,  *)
(* and addresses are prefixes as in Routing.                               *)
(***************************************************************************)
EXTENDS Integers, Sequences, FiniteSets, SequencesExt

CONSTANTS
    RuleMax,             \* FW_MAX_RULES
    ConnMax              \* FW_MAX_CONN_TRACK

VARIABLES
    rule_storage,        \* the rules added since the last flush
    rule_head,           \* slot of the first rule; 0: none
    rule_next,           \* slot -> slot of the next rule; 0: none
    conn_table,          \* the flows of accepted packets
    default_policy, fw_enabled

firewallVars == <<rule_storage, rule_head, rule_next, conn_table, default_policy, fw_enabled>>

FirewallBoot ==
    /\ rule_storage = <<>> /\ rule_head = 0 /\ rule_next = <<>> /\ conn_table = {}
    /\ default_policy = "drop" /\ fw_enabled = TRUE

firewall_init ==
    /\ rule_storage' = <<>> /\ rule_head' = 0 /\ rule_next' = <<>> /\ conn_table' = {}
    /\ default_policy' = "drop" /\ fw_enabled' = TRUE

(* The rules reached from the head, in order.                              *)
ListFrom ==
    LET walk[n \in 0 .. Len(rule_storage)] ==
            IF n = 0 THEN IF rule_head = 0 THEN <<>> ELSE <<rule_head>>
            ELSE LET w == walk[n - 1]
                 IN  IF w = <<>> \/ rule_next[Last(w)] = 0 THEN w ELSE Append(w, rule_next[Last(w)])
    IN  walk[Len(rule_storage)]

AnyOr(field, value) == field = 0 \/ field = value

RuleMatches(r, pkt) ==
    /\ IsPrefix(r.src, pkt.src) /\ IsPrefix(r.dst, pkt.dst)
    /\ AnyOr(r.proto, pkt.proto) /\ AnyOr(r.sport, pkt.sport) /\ AnyOr(r.dport, pkt.dport)

Reply(pkt) == [pkt EXCEPT !.src = pkt.dst, !.dst = pkt.src, !.sport = pkt.dport, !.dport = pkt.sport]

ct_lookup(pkt) == {pkt, Reply(pkt)} \intersect conn_table # {}

(* The verdict of the first rule that matches.                             *)
RuleVerdict(pkt) ==
    LET hits == SelectSeq(ListFrom, LAMBDA i : RuleMatches(rule_storage[i], pkt))
    IN  IF hits = <<>> THEN default_policy ELSE rule_storage[Head(hits)].action

Verdict(pkt) ==
    IF ~fw_enabled \/ ct_lookup(pkt) THEN "accept" ELSE RuleVerdict(pkt)

(* A packet a rule accepts opens its flow while the table has room; the    *)
(* default policy opens none.                                              *)
Tracked(pkt) ==
    IF /\ fw_enabled /\ ~ct_lookup(pkt)
       /\ \E i \in ToSet(ListFrom) : RuleMatches(rule_storage[i], pkt)
       /\ RuleVerdict(pkt) = "accept"
       /\ Cardinality(conn_table) < ConnMax
    THEN conn_table \union {pkt} ELSE conn_table

firewall_check(pkt) ==
    /\ conn_table' = Tracked(pkt)
    /\ UNCHANGED <<rule_storage, rule_head, rule_next, default_policy, fw_enabled>>

(* The rules appended to the list, one after the other.                    *)
Appended(new) ==
    LET n == Len(rule_storage)
    IN  /\ n + Len(new) <= RuleMax
        /\ rule_storage' = rule_storage \o new
        /\ rule_head' = IF rule_head = 0 THEN n + 1 ELSE rule_head
        /\ rule_next' = [i \in 1 .. n + Len(new) |->
                            IF i > n THEN IF i = n + Len(new) THEN 0 ELSE i + 1
                            ELSE IF rule_head # 0 /\ i = Last(ListFrom) THEN n + 1 ELSE rule_next[i]]

firewall_add_rule(r) ==
    Appended(<<r>>) /\ UNCHANGED <<conn_table, default_policy, fw_enabled>>

(* Mutant: a rule is taken off without joining its neighbours.             *)
Unlinked_Cut(id) ==
    [i \in DOMAIN rule_next |-> IF i = id \/ rule_next[i] = id THEN 0 ELSE rule_next[i]]

(* The rule before it, if there is one, is joined to the one after it.     *)
Unlinked(id) ==
    [i \in DOMAIN rule_next |->
        IF i = id THEN 0 ELSE IF rule_next[i] = id THEN rule_next[id] ELSE rule_next[i]]

firewall_del_rule(id) ==
    /\ id \in DOMAIN rule_storage
    /\ rule_head' = IF rule_head = id THEN rule_next[id] ELSE rule_head
    /\ rule_next' = Unlinked(id)
    /\ UNCHANGED <<rule_storage, conn_table, default_policy, fw_enabled>>

firewall_flush_rules ==
    /\ rule_storage' = <<>> /\ rule_head' = 0 /\ rule_next' = <<>>
    /\ UNCHANGED <<conn_table, default_policy, fw_enabled>>
=============================================================================
