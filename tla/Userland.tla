------------------------------ MODULE Userland ------------------------------
(***************************************************************************)
(* The userland handoff (kernel/core/userland.c): the catalogue of user    *)
(* programs, the process descriptors with their address space layouts, and *)
(* the flags that each stage of the boot sets for the next.  One action    *)
(* per exported function.  Regions are in pages, entry points in units of  *)
(* which a page has PageUnits, stack pointers in bytes below the stack's   *)
(* end.  An image path is named by the feature it belongs to.              *)
(***************************************************************************)
EXTENDS KernelCore, KernelServices, Vfs

CONSTANT PageUnits       \* entry point positions told apart within a page

VARIABLES
    features,            \* name -> [service, state, live_pid]
    descriptors,         \* user_processes[0 .. process_descriptor_count - 1]
    handoff,             \* the flags of the handoff record that are set
    next_process_id,
    last_spawn           \* last_spawn_pid; 0: no launch was requested

userlandVars == <<features, descriptors, handoff, next_process_id, last_spawn>>

FeatureMax == 24
DescriptorLimit == 8
PageBytes == 4096
BootstrapBytes == 512

(* name -> service, in userland_connect_builtin_features.  All of them are *)
(* processes.                                                              *)
BuiltinFeatures ==
    [f \in {"aegis-init", "service-manager", "aegisd", "rustmyadmin", "dashboard"} |-> "aegisd"]
    @@ [f \in {"routerd", "phoenix-feature-bridge"} |-> "router"]
    @@ ("securityd" :> "security" @@ "ipcd" :> "ipc" @@ "capability-broker" :> "capability"
        @@ "netd" :> "network" @@ "firewalld" :> "firewall"
        @@ "devmgr" :> "devfs" @@ "procd" :> "procfs")

Region(base, size, perms) == [base |-> base, size |-> size, perms |-> perms]

RegionsApart(a, b) == a.base + a.size <= b.base \/ b.base + b.size <= a.base

(* Mutant: the stacks of two processes are a stack's size apart, without   *)
(* the room for the guard.                                                 *)
StackTop_Packed(i) == 134213632 - i * 16

(* The layout of the process with a given index.                           *)
TextBase(i) == 1024 + i * 4096
HeapBase(i) == 65536 + i * 4096
IpcBase(i) == 131072 + i * 512
StackTop(i) == 134213632 - i * 32
SyscallGate == 134217712

Layout(i) ==
    [text |-> Region(TextBase(i), 512, {"read", "exec", "user"}),
     heap |-> Region(HeapBase(i), 4096, {"read", "write", "user"}),
     ipc |-> Region(IpcBase(i), 256, {"read", "write", "user"}),
     stack |-> Region(StackTop(i) - 16, 16, {"read", "write", "user"}),
     guard |-> Region(StackTop(i) - 17, 1, {"guard", "user"})]

assign_process_layout(l) ==
    /\ \A r \in {l.text, l.heap, l.ipc, l.stack, l.guard} : r.size > 0
    /\ l.guard.base + l.guard.size = l.stack.base
    /\ RegionsApart(l.text, l.heap) /\ RegionsApart(l.text, l.ipc) /\ RegionsApart(l.text, l.stack)
    /\ RegionsApart(l.heap, l.ipc) /\ RegionsApart(l.heap, l.stack) /\ RegionsApart(l.ipc, l.stack)

Descriptor(id, name, i, state) ==
    Layout(i) @@ [id |-> id, name |-> name, state |-> state, entry |-> TextBase(i) * PageUnits,
                  sp |-> 16, argc |-> 0]

EntryInside(entry, text) ==
    text.base * PageUnits <= entry /\ entry < (text.base + text.size) * PageUnits

SpInside(sp, stack) == 0 < sp /\ sp <= stack.size * PageBytes

(* argc + 1 and envc + 1 pointers of eight bytes above the stack pointer;  *)
(* argc = envc in every bootstrap.                                         *)
PointersFit(argc) == 16 * (argc + 1) < BootstrapBytes

Flagged(flags) == handoff' = handoff \union flags

UserlandBoot ==
    /\ features = <<>> /\ descriptors = <<>> /\ handoff = {}
    /\ next_process_id = 1 /\ last_spawn = 0

userland_handoff_init ==
    /\ features' = <<>> /\ descriptors' = <<>> /\ handoff' = {"initialised"}
    /\ next_process_id' = 1 /\ last_spawn' = 0

(* Every feature is registered, then bound to its kernel service.          *)
connect_builtin_features ==
    /\ "initialised" \in handoff
    /\ DOMAIN features \intersect DOMAIN BuiltinFeatures = {}
    /\ Cardinality(DOMAIN features \union DOMAIN BuiltinFeatures) <= FeatureMax
    /\ manager_prepared
    /\ \A f \in DOMAIN features : features[f].state = "registered"
    /\ {BuiltinFeatures[f] : f \in DOMAIN BuiltinFeatures} \subseteq prepared
    /\ features' = [f \in DOMAIN BuiltinFeatures |->
                        [service |-> BuiltinFeatures[f], state |-> "bound", live_pid |-> 0]]
    /\ Flagged({"feature_catalogue_ready", "services_bound"})
    /\ UNCHANGED <<descriptors, next_process_id, last_spawn>>

prepare_handoff ==
    /\ {"initialised", "feature_catalogue_ready", "services_bound"} \subseteq handoff
    /\ {<<>>, <<"dev">>, <<"proc">>} \subseteq MountPaths
    /\ SyscallSurface
    /\ \A f \in DOMAIN features : features[f].state = "bound"
    /\ features' = [f \in DOMAIN features |-> [features[f] EXCEPT !.state = "handoff-ready"]]
    /\ Flagged({"syscall_surface_ready", "handoff_ready"})
    /\ UNCHANGED <<descriptors, next_process_id, last_spawn>>

HandoffReady(f) == f \in DOMAIN features /\ features[f].state = "handoff-ready"

userland_selftest ==
    /\ {"feature_catalogue_ready", "services_bound", "syscall_surface_ready", "handoff_ready"}
           \subseteq handoff
    /\ Cardinality(DOMAIN features) >= 10
    /\ \A f \in {"aegis-init", "routerd", "rustmyadmin", "phoenix-feature-bridge"} : HandoffReady(f)

(* The first descriptor, its layout, and the answers of system calls with  *)
(* bad arguments.                                                          *)
prepare_pre_el0_contract ==
    /\ "handoff_ready" \in handoff
    /\ descriptors = <<>>
    /\ HandoffReady("aegis-init")
    /\ LET p == Descriptor(next_process_id, "aegis-init", 0, "syscall-abi-ready")
       IN  /\ assign_process_layout(p)
           /\ EntryInside(p.entry, p.text)
           /\ p.stack.base < SyscallGate
           /\ descriptors' = <<p>>
    /\ SyscallSurface
    /\ next_process_id' = next_process_id + 1
    /\ Flagged({"fake_process_descriptor_ready", "user_stack_layout_ready",
                "syscall_abi_kernel_safe_ready", "pre_el0_ready"})
    /\ UNCHANGED <<features, last_spawn>>

pre_el0_selftest ==
    /\ {"pre_el0_ready", "fake_process_descriptor_ready", "user_stack_layout_ready",
        "syscall_abi_kernel_safe_ready"} \subseteq handoff
    /\ Len(descriptors) = 1
    /\ LET p == descriptors[1]
       IN  /\ p.state = "syscall-abi-ready" /\ p.name = "aegis-init"
           /\ p.text.base = TextBase(0) /\ p.stack.size = 16
           /\ "exec" \in p.text.perms /\ "write" \in p.stack.perms /\ "guard" \in p.guard.perms

(* An image is bound to the first descriptor: entry and sizes in units,    *)
(* text_base in pages.  The file's bytes and the zeroed ones must fill the *)
(* mapped span exactly.                                                    *)
bind_first_process_to_loaded_elf(name, entry, text_base, text_size, copied, zeroed) ==
    /\ "pre_el0_ready" \in handoff
    /\ Len(descriptors) = 1
    /\ text_size > 0 /\ text_size % PageUnits = 0
    /\ 0 < copied /\ zeroed = text_size - copied
    /\ descriptors[1].state \in {"syscall-abi-ready", "elf-loaded"}
    /\ descriptors[1].name = name
    /\ LET text == Region(text_base, text_size \div PageUnits, {"read", "exec", "user", "mapped"})
       IN  /\ EntryInside(entry, text)
           /\ descriptors' = [descriptors EXCEPT ![1].entry = entry, ![1].text = text,
                                                ![1].state = "elf-loaded"]
    /\ Flagged({"elf_loader_ready", "user_kernel_page_permissions_ready"})
    /\ UNCHANGED <<features, next_process_id, last_spawn>>

first_process_elf_selftest ==
    /\ {"elf_loader_ready", "user_kernel_page_permissions_ready"} \subseteq handoff
    /\ LET p == descriptors[1]
       IN  /\ p.state = "elf-loaded"
           /\ EntryInside(p.entry, p.text)
           /\ p.text.perms = {"read", "exec", "user", "mapped"}
           /\ \A r \in {p.heap, p.stack} : "write" \in r.perms /\ "exec" \notin r.perms
           /\ "guard" \in p.guard.perms

prepare_user_stack_bootstrap ==
    /\ {"elf_loader_ready", "user_kernel_page_permissions_ready"} \subseteq handoff
    /\ descriptors # <<>>
    /\ descriptors[1].state = "elf-loaded" /\ descriptors[1].name = "aegis-init"
    /\ SpInside(BootstrapBytes, descriptors[1].stack) /\ PointersFit(3)
    /\ descriptors' = [descriptors EXCEPT ![1].argc = 3, ![1].sp = BootstrapBytes,
                                         ![1].state = "argv-envp-ready"]
    /\ Flagged({"user_stack_argv_envp_ready"})
    /\ UNCHANGED <<features, next_process_id, last_spawn>>

user_stack_bootstrap_selftest ==
    /\ "user_stack_argv_envp_ready" \in handoff
    /\ LET p == descriptors[1]
       IN p.state = "argv-envp-ready" /\ p.argc = 3 /\ SpInside(p.sp, p.stack)

SecondaryNames == <<"aegisd", "routerd", "rustmyadmin">>

create_multiple_process_descriptors ==
    /\ "user_stack_argv_envp_ready" \in handoff
    /\ Len(descriptors) = 1
    /\ \A i \in DOMAIN SecondaryNames :
           i < DescriptorLimit /\ HandoffReady(SecondaryNames[i]) /\ assign_process_layout(Layout(i))
    /\ descriptors' = descriptors \o
           [i \in DOMAIN SecondaryNames |->
               Descriptor(next_process_id + i - 1, SecondaryNames[i], i, "secondary-descriptor-ready")]
    /\ next_process_id' = next_process_id + Len(SecondaryNames)
    /\ Flagged({"multiple_process_descriptors_ready"})
    /\ UNCHANGED <<features, last_spawn>>

multiple_process_descriptors_selftest ==
    /\ "multiple_process_descriptors_ready" \in handoff
    /\ Len(descriptors) >= 4
    /\ descriptors[1].name = "aegis-init" /\ descriptors[1].state = "argv-envp-ready"
    /\ \A i \in 2 .. Len(descriptors) :
           /\ descriptors[i].state = "secondary-descriptor-ready"
           /\ descriptors[i].stack.perms \intersect {"write", "exec"} = {"write"}
           /\ \A j \in 1 .. i - 1 :
                  /\ descriptors[i].id # descriptors[j].id
                  /\ RegionsApart(descriptors[i].stack, descriptors[j].stack)
                  /\ RegionsApart(descriptors[i].text, descriptors[j].text)

(* Mutant: the secondary processes get no arguments.                       *)
LaunchReady_NoArguments(i, p) == [p EXCEPT !.sp = BootstrapBytes, !.state = "multiprocess-launch-ready"]

(* The first process keeps the stack it was given; the others get theirs.  *)
LaunchReady(i, p) ==
    IF i = 1 THEN [p EXCEPT !.state = "multiprocess-launch-ready"]
    ELSE [p EXCEPT !.argc = 2, !.sp = BootstrapBytes, !.state = "multiprocess-launch-ready"]

prepare_real_multiprocess_launch_path ==
    /\ "multiple_process_descriptors_ready" \in handoff
    /\ Len(descriptors) >= 4
    /\ \A i \in DOMAIN descriptors :
           LET p == descriptors[i] IN
           /\ "user" \in p.text.perms /\ p.stack.perms \intersect {"write", "exec"} = {"write"}
           /\ p.state \in {"multiprocess-launch-ready",
                           IF i = 1 THEN "argv-envp-ready" ELSE "secondary-descriptor-ready"}
           /\ i = 1 => p.argc # 0
           /\ SpInside(BootstrapBytes, p.stack) /\ PointersFit(2)
    /\ descriptors' = [i \in DOMAIN descriptors |-> LaunchReady(i, descriptors[i])]
    /\ Flagged({"real_multiprocess_launch_ready"})
    /\ UNCHANGED <<features, next_process_id, last_spawn>>

real_multiprocess_launch_selftest ==
    /\ "real_multiprocess_launch_ready" \in handoff
    /\ \A p \in ToSet(descriptors) :
           p.state = "multiprocess-launch-ready" /\ SpInside(p.sp, p.stack) /\ p.argc # 0
    /\ {"aegis-init", "aegisd", "routerd", "rustmyadmin"} \subseteq NamesOf(descriptors)

(* userland_request_process_launch_by_path: the process it would launch.   *)
CanLaunch(i) ==
    /\ "real_multiprocess_launch_ready" \in handoff
    /\ descriptors[i].state \in {"multiprocess-launch-ready", "first-launch-ready", "first-running"}

(* The expansion and its self-test, which asks for routerd to be launched. *)
prepare_syscall_expansion ==
    /\ "real_multiprocess_launch_ready" \in handoff
    /\ SyscallSurface
    /\ "routerd" \in DOMAIN features
    /\ \E i \in DOMAIN descriptors :
           /\ descriptors[i].name = "routerd" /\ CanLaunch(i)
           /\ descriptors[i].id > 1
           /\ last_spawn' = descriptors[i].id
    /\ Flagged({"syscall_expansion_ready"})
    /\ UNCHANGED <<features, descriptors, next_process_id>>

(* The first process of a smoke boot: its code is part of the kernel image *)
(* and its stack pointer the one the descriptor already has.               *)
prepare_first_tiny_user_process(entry) ==
    /\ {"pre_el0_ready", "syscall_abi_kernel_safe_ready"} \subseteq handoff
    /\ descriptors # <<>>
    /\ descriptors[1].state \in {"syscall-abi-ready", "elf-loaded", "argv-envp-ready",
                                "multiprocess-launch-ready", "el0-probe-ready", "el0-svc-trapped"}
    /\ descriptors[1].name = "aegis-init"
    /\ SpInside(descriptors[1].sp, descriptors[1].stack)
    /\ descriptors' = [descriptors EXCEPT ![1].entry = entry, ![1].state = "first-launch-ready"]
    /\ handoff' = (handoff \union {"first_launch_ready", "el0_transition_prepared"})
                  \ {"syscall_seen", "return_ready", "continued", "exited", "post_exit"}
    /\ UNCHANGED <<features, next_process_id, last_spawn>>

(* syscall_handler (exception.c) with the first process running: its first *)
(* call is dispatched and returns; the second must be the exit, after      *)
(* which the handler waits for ever.                                       *)
first_process_syscall ==
    /\ "first_launch_ready" \in handoff /\ "syscall_seen" \notin handoff
    /\ descriptors' = [descriptors EXCEPT ![1].state = "first-syscall-return-ready"]
    /\ handoff' = (handoff \union {"syscall_seen", "return_ready"}) \ {"first_launch_ready"}
    /\ UNCHANGED <<features, next_process_id, last_spawn>>

first_process_exit ==
    /\ "return_ready" \in handoff /\ "continued" \notin handoff
    /\ descriptors' = [descriptors EXCEPT ![1].state = "first-exited"]
    /\ Flagged({"continued", "exited", "post_exit"})
    /\ UNCHANGED <<features, next_process_id, last_spawn>>

no_runnable_user_processes ==
    /\ "post_exit" \in handoff
    /\ \A p \in ToSet(descriptors) :
           p.state \notin {"first-launch-ready", "first-running", "first-syscall-trapped",
                          "first-syscall-return-ready", "first-continued-after-syscall"}

(* A native process is published: its feature gets the pid, and the first  *)
(* descriptor with that pid or name is rewritten, or one is added.  The    *)
(* feature keeps the pid when there is no room; the caller panics then.    *)
Unset == [heap |-> Region(0, 0, {}), ipc |-> Region(0, 0, {}), guard |-> Region(0, 0, {}), argc |-> 0]

note_native_process_spawn(name, pid, entry, text, stack) ==
    /\ name \in DOMAIN features
    /\ features[name].live_pid \in {0, pid}
    /\ features' = [features EXCEPT ![name].live_pid = pid]
    /\ LET same == {i \in DOMAIN descriptors : descriptors[i].id = pid \/ descriptors[i].name = name}
           native == [text |-> text, stack |-> stack, id |-> pid, name |-> name, entry |-> entry,
                      sp |-> 0, state |-> "native-scheduled"]
       IN  /\ same # {} \/ Len(descriptors) < DescriptorLimit
           /\ descriptors' = IF same # {}
                             THEN [descriptors EXCEPT ![Min(same)] =
                                      [native EXCEPT !.name = descriptors[Min(same)].name] @@ @]
                             ELSE Append(descriptors, native @@ Unset)
    /\ UNCHANGED <<handoff, next_process_id, last_spawn>>
=============================================================================
