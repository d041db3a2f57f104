-------------------------------- MODULE Nat ---------------------------------
(***************************************************************************)
(* Address translation (net/nat.c).  An end is an address with its port;   *)
(* an entry joins an inside end and a remote one through an external port. *)
(* nat_cleanup removes nothing: every use of an entry resets its age to 0  *)
(* and nothing ever raises it.                                             *)
(***************************************************************************)
EXTENDS Integers, Sequences, FiniteSets, SequencesExt

CONSTANTS
    NatMax,              \* NAT_MAX_ENTRIES
    NatPortMin, NatPortMax

VARIABLES
    nat_table,           \* active entries in slot order: [inside, port, remote, proto]
    next_nat_port, nat_enabled

natVars == <<nat_table, next_nat_port, nat_enabled>>

(* The remote end of a port forward: an address and a port that are 0.     *)
AnySource == "0:0"

NatBoot == nat_table = <<>> /\ next_nat_port = NatPortMin /\ nat_enabled = FALSE

nat_init == nat_table' = <<>> /\ nat_enabled' = FALSE /\ UNCHANGED next_nat_port

nat_enable == nat_enabled' = TRUE /\ UNCHANGED <<nat_table, next_nat_port>>

nat_disable == nat_enabled' = FALSE /\ UNCHANGED <<nat_table, next_nat_port>>

(* Mutant: the range is left one port early and wraps to the port in use.  *)
AfterPort_Stuck(port) == IF port + 1 > NatPortMax THEN NatPortMax ELSE port + 1

AfterPort(port) == IF port + 1 > NatPortMax THEN NatPortMin ELSE port + 1

nat_find_outbound(inside, remote, proto) ==
    SelectInSeq(nat_table, LAMBDA e : e.inside = inside /\ e.remote = remote /\ e.proto = proto)

nat_find_inbound(port, remote, proto) ==
    SelectInSeq(nat_table, LAMBDA e : e.port = port /\ e.remote = remote /\ e.proto = proto)

(* A packet leaves: it keeps its entry, or gets the next port while there  *)
(* is room.                                                                *)
nat_translate_outbound(inside, remote, proto) ==
    /\ nat_enabled
    /\ IF nat_find_outbound(inside, remote, proto) # 0 THEN UNCHANGED <<nat_table, next_nat_port>>
       ELSE /\ Len(nat_table) < NatMax
            /\ nat_table' = Append(nat_table, [inside |-> inside, port |-> next_nat_port,
                                               remote |-> remote, proto |-> proto])
            /\ next_nat_port' = AfterPort(next_nat_port)
    /\ UNCHANGED nat_enabled

(* The inside end an arriving packet is sent on to; "none": dropped.       *)
nat_translate_inbound(port, remote, proto) ==
    LET i == nat_find_inbound(port, remote, proto)
    IN  IF ~nat_enabled \/ i = 0 THEN "none" ELSE nat_table[i].inside

nat_add_port_forward(port, inside, proto) ==
    /\ Len(nat_table) < NatMax
    /\ nat_table' = Append(nat_table, [inside |-> inside, port |-> port, remote |-> AnySource,
                                       proto |-> proto])
    /\ UNCHANGED <<next_nat_port, nat_enabled>>
=============================================================================
