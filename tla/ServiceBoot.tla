---------------------------- MODULE ServiceBoot -----------------------------
(***************************************************************************)
(* The stages of a smoke boot that give the first processes mailboxes      *)
(* (kernel/ipc/service_ipc.c) and put them under the supervisor            *)
(* (kernel/core/service_supervisor.c), and the record of the releases the  *)
(* boot vouches for (developer_preview.c, release_polish.c,                *)
(* release_final.c).                                                       *)
(***************************************************************************)
EXTENDS PageIsolation

VARIABLES
    mailboxes,           \* sequence of [service, peer, state]
    ipc_flags,           \* the flags of ipc_state that are set
    supervised,          \* sequence of [name, id, state]
    sup_flags,           \* the supervisor's flags that are set
    release              \* stage -> the tables of its record

stageVars == <<mailboxes, ipc_flags, supervised, sup_flags, release>>

MailboxMax == 8
SupervisedMax == 16

StageBoot ==
    /\ mailboxes = <<>> /\ ipc_flags = {} /\ supervised = <<>> /\ sup_flags = {}
    /\ release = <<>>

(***************************************************************************)
(* Mailboxes.  The channels and queues below are emptied by the init, so   *)
(* there is one for each mailbox.                                          *)
(***************************************************************************)
service_ipc_init ==
    /\ mailboxes' = <<>> /\ ipc_flags' = {"initialised"}
    /\ UNCHANGED <<supervised, sup_flags, release>>

Routes == << <<"aegis-init", "aegisd">>, <<"aegisd", "routerd">>,
             <<"routerd", "rustmyadmin">>, <<"rustmyadmin", "aegisd">> >>

prepare_service_messaging ==
    /\ "initialised" \in ipc_flags
    /\ {"real_multiprocess_launch_ready", "syscall_expansion_ready"} \subseteq handoff
    /\ mailboxes = <<>>
    /\ \A i \in DOMAIN Routes : i <= MailboxMax /\ Range(Routes[i]) \subseteq DOMAIN features
    /\ mailboxes' = [i \in DOMAIN Routes |->
                        [service |-> Routes[i][1], peer |-> Routes[i][2], state |-> "channel-ready"]]
    /\ ipc_flags' = ipc_flags \union {"service_messaging_ready"}
    /\ UNCHANGED <<supervised, sup_flags, release>>

service_messaging_selftest ==
    /\ "service_messaging_ready" \in ipc_flags
    /\ {"aegis-init", "aegisd", "routerd", "rustmyadmin"} \subseteq {mb.service : mb \in ToSet(mailboxes)}
    /\ \A mb \in ToSet(mailboxes) : mb.state \in {"channel-ready", "roundtrip-proved"}

(* A message goes through the queue of the second mailbox and back.        *)
message_roundtrip ==
    /\ "service_messaging_ready" \in ipc_flags
    /\ Len(mailboxes) >= 2 /\ mailboxes[2].state = "channel-ready"
    /\ mailboxes' = [mailboxes EXCEPT ![2].state = "roundtrip-proved"]
    /\ ipc_flags' = ipc_flags \union {"message_roundtrip_ready"}
    /\ UNCHANGED <<supervised, sup_flags, release>>

(***************************************************************************)
(* The supervisor's proof that one process may fault and the rest go on.   *)
(***************************************************************************)
service_supervisor_init ==
    /\ supervised' = <<>> /\ sup_flags' = {"initialised"}
    /\ UNCHANGED <<mailboxes, ipc_flags, release>>

StateOf(name) ==
    LET found == {i \in DOMAIN supervised : supervised[i].name = name}
    IN  IF found = {} THEN "none" ELSE supervised[Min(found)].state

register_user_processes ==
    /\ "initialised" \in sup_flags
    /\ "real_multiprocess_launch_ready" \in handoff /\ "message_roundtrip_ready" \in ipc_flags
    /\ supervised = <<>>
    /\ Len(descriptors) \in 4 .. SupervisedMax
    /\ \A i, j \in DOMAIN descriptors : i # j => descriptors[i].name # descriptors[j].name
    /\ \A p \in ToSet(descriptors) : p.id # 0 /\ p.name \in DOMAIN features
    /\ supervised' = [i \in DOMAIN descriptors |->
                         [name |-> descriptors[i].name, id |-> descriptors[i].id, state |-> "registered"]]
    /\ sup_flags' = sup_flags \union {"registry_ready"}
    /\ UNCHANGED <<mailboxes, ipc_flags, release>>

start_registered ==
    /\ "registry_ready" \in sup_flags
    /\ \A s \in ToSet(supervised) : s.state = "registered"
    /\ supervised' = [i \in DOMAIN supervised |-> [supervised[i] EXCEPT !.state = "running"]]
    /\ sup_flags' = sup_flags \union {"services_running"}
    /\ UNCHANGED <<mailboxes, ipc_flags, release>>

(* record_fault, for a data abort of a lower exception level on a page.    *)
fault_proof(name) ==
    /\ "services_running" \in sup_flags
    /\ StateOf(name) = "running"
    /\ supervised' = [i \in DOMAIN supervised |->
                         IF supervised[i].name = name THEN [supervised[i] EXCEPT !.state = "faulted"]
                         ELSE supervised[i]]
    /\ sup_flags' = sup_flags \union {"fault_proof", "page_fault_proof", "handoff_preserved"}
    /\ UNCHANGED <<mailboxes, ipc_flags, release>>

service_supervisor_selftest ==
    /\ {"registry_ready", "services_running", "fault_proof", "page_fault_proof", "handoff_preserved"}
           \subseteq sup_flags
    /\ Cardinality({i \in DOMAIN supervised : supervised[i].state = "faulted"}) = 1
    /\ StateOf("routerd") = "faulted"
    /\ \A n \in {"aegis-init", "aegisd", "rustmyadmin"} : StateOf(n) = "running"

(***************************************************************************)
(* The release records.  A table is the set of its rows; each row is added *)
(* with every one of its marks set, which is what the self-tests ask for.  *)
(***************************************************************************)
Variants == {"Lite", "Pro", "Bastion", "Router"}
RouterCapable == Variants \ {"Lite"}
DefaultServices == {"aegis-init", "aegisd", "routerd", "netd", "firewalld", "natd", "storaged",
                    "rustmyadmin", "watchdogd"}
PolishGates == {"manifest-sha256", "flash-dry-run", "serial-console", "persistent-config",
                "service-defaults", "hardening-baseline", "docs-index"}
HardeningGates == {"deny-inbound-firewall", "supervised-services", "ttbr0-user-isolation",
                   "guard-pages-unmapped", "persistent-config-bounds", "checksum-sidecars",
                   "flash-device-confirmation", "known-limitations-published"}
DocGates == {"release-notes", "flash-guide", "qemu-guide", "known-limitations", "hardware-notes",
             "variant-matrix"}

Recorded(stage, tables) ==
    /\ release' = (stage :> tables) @@ release
    /\ UNCHANGED <<mailboxes, ipc_flags, supervised, sup_flags>>

(* An init function empties its record and nothing else.                   *)
release_init(stage) == Recorded(stage, <<>>)

Holds(stage, table, least) ==
    /\ stage \in DOMAIN release /\ table \in DOMAIN release[stage]
    /\ Cardinality(release[stage][table]) >= least

developer_preview_prepare ==
    /\ "preview" \in DOMAIN release /\ release["preview"] = <<>>
    /\ Recorded("preview", [variants |-> Variants])

developer_preview_selftest == Holds("preview", "variants", 4)

release_polish_prepare(network_ready) ==
    /\ "polish" \in DOMAIN release /\ release["polish"] = <<>>
    /\ Holds("preview", "variants", 4)
    /\ network_ready
    /\ Cardinality(RouterCapable) >= 3
    /\ Recorded("polish", [boards |-> Variants, presets |-> DefaultServices, gates |-> PolishGates])

release_polish_selftest ==
    Holds("polish", "boards", 4) /\ Holds("polish", "presets", 8) /\ Holds("polish", "gates", 7)

release_final_prepare ==
    /\ "final" \in DOMAIN release /\ release["final"] = <<>>
    /\ Holds("polish", "gates", 7)
    /\ Recorded("final", [variants |-> Variants, services |-> DefaultServices,
                          hardening |-> HardeningGates, docs |-> DocGates])

release_final_selftest ==
    /\ Holds("final", "variants", 4) /\ Holds("final", "services", 9)
    /\ Holds("final", "hardening", 8) /\ Holds("final", "docs", 6)
=============================================================================
