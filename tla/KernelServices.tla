--------------------------- MODULE KernelServices ---------------------------
(***************************************************************************)
(* The kernel's service manager (kernel/core/service_manager.c): a table   *)
(* of kernel services, registered in a fixed order with the services they  *)
(* depend on, and prepared in dependency order.                            *)
(***************************************************************************)
EXTENDS Integers, Sequences, FiniteSets, SequencesExt

VARIABLES
    services,          \* the table: [name, deps] records in registration order
    prepared,          \* the names whose state is AEGIS_SERVICE_PREPARED
    manager_prepared

servicesVars == <<services, prepared, manager_prepared>>

ServiceMax == 32
ServiceDepsMax == 4

Service(name, deps) == [name |-> name, deps |-> deps]

NamesOf(table) == {s.name : s \in ToSet(table)}

(* The registrations of service_manager_register_builtin_kernel_services.  *)
BuiltinServices == <<
    Service("vfs", {}), Service("initramfs", {"vfs"}),
    Service("devfs", {"vfs"}), Service("procfs", {"vfs"}),
    Service("capability", {}), Service("ipc", {"capability"}),
    Service("security", {"capability", "ipc"}),
    Service("network", {}), Service("firewall", {}),
    Service("router", {"network", "firewall", "security"}),
    Service("aegisd", {"vfs", "ipc", "security", "router"}) >>

ServicesInit ==
    /\ services = <<>> /\ prepared = {} /\ manager_prepared = FALSE

service_manager_init ==
    /\ services' = <<>> /\ prepared' = {} /\ manager_prepared' = FALSE

(* One registration is accepted: a free entry, a new name, and every       *)
(* dependency registered before.                                           *)
RegisterKernelOk(table, s) ==
    /\ Cardinality(s.deps) <= ServiceDepsMax
    /\ ~manager_prepared
    /\ Len(table) < ServiceMax
    /\ s.name \notin NamesOf(table)
    /\ s.deps \subseteq NamesOf(table)

(* Registrations end at the first one refused; the caller panics then.     *)
register_builtin_kernel_services ==
    /\ \A i \in DOMAIN BuiltinServices :
           RegisterKernelOk(services \o SubSeq(BuiltinServices, 1, i - 1), BuiltinServices[i])
    /\ services' = services \o BuiltinServices
    /\ UNCHANGED <<prepared, manager_prepared>>

(* A pass prepares what has its dependencies prepared; passes go on until  *)
(* one changes nothing.  An entry may also use what the same pass prepared *)
(* before it, which only makes the last passes idle.                       *)
Pass(ready) == ready \union {s.name : s \in {t \in ToSet(services) : t.deps \subseteq ready}}

AfterPasses ==
    LET after[n \in 0 .. Len(services)] == IF n = 0 THEN prepared
                                            ELSE UNION {Pass(ready) : ready \in {after[n - 1]}}
    IN  after[Len(services)]

(* Only services this call prepared are counted, so a table with one that  *)
(* already is prepared is refused.                                         *)
service_manager_prepare ==
    /\ services # <<>>
    /\ Cardinality(AfterPasses \ prepared) = Len(services)
    /\ prepared' = AfterPasses
    /\ manager_prepared' = TRUE
    /\ UNCHANGED services

service_manager_selftest ==
    /\ manager_prepared
    /\ Len(services) >= 10
    /\ Cardinality(prepared) = Len(services)
    /\ {"vfs", "initramfs", "aegisd", "router"} \subseteq NamesOf(services)
    /\ \A s \in ToSet(services) :
           /\ s.name = "initramfs" => s.deps = {"vfs"}
           /\ s.name = "router" => Cardinality(s.deps) = 3
           /\ s.name = "aegisd" => Cardinality(s.deps) = 4
=============================================================================
