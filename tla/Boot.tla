-------------------------------- MODULE Boot --------------------------------
(***************************************************************************)
(* The boot of the kernel (kernel/core/kernel_main.c) from the entry of    *)
(* kernel_main to the first user process, for the two builds: the smoke    *)
(* build, which proves one stage after the other and runs a tiny process,  *)
(* and the native one, which starts /sbin/aegis-init as pid 1.  A build is *)
(* the script of the functions it calls.  A call that cannot succeed       *)
(* panics, unless the code goes on after its failure; what a failing call  *)
(* did before it failed is dropped when the caller panics.                 *)
(***************************************************************************)
EXTENDS ServiceBoot, BlockRegistry, NetworkControl

CONSTANTS Images,        \* what /sbin/aegis-init may be
          DeviceTrees    \* where the firmware may leave a device tree; 0: none

VARIABLES build, pc, env

bootVars == <<build, pc, env>>
vars == <<bootVars, coreVars, servicesVars, vfsVars, userlandVars, elfVars, isoVars, stageVars,
          blockVars, netVars>>

(* The disk: absent, too small for the layout, or with a file system that  *)
(* mounts or does not.                                                     *)
DiskBlocks == [small |-> 400000, good |-> 1048576, damaged |-> 1048576]

KernelMain == <<"platform", "memory", "core", "processes", "block_init", "disk", "layout",
                "service_manager", "tasks">>
InitTask == <<"vfs", "root", "userland_files", "rootfs", "dev", "proc", "persist", "vfs_selftest",
              "register_services", "prepare_services">>

Script ==
    [native |->
        KernelMain \o InitTask
        \o <<"net_init", "net_start", "net_loop",
             "native_handoff_init", "native_connect", "native_handoff", "native_pre_el0", "native_ipc",
             "native_supervisor", "native_elf_init", "native_load", "native_bind", "native_publish",
             "native_console", "end">>,
     smoke |->
        KernelMain \o InitTask
        \o <<"handoff_init", "connect", "handoff", "pre_el0", "elf_init", "load", "bind",
             "stack", "descriptors", "block_reinit", "flash_layout", "cleanup", "launch_path", "expansion",
             "ipc_init", "messaging", "roundtrip", "supervisor_init", "register", "start", "fault",
             "isolation_init", "isolate", "net_init", "net_start", "net_loop", "net_selftest",
             "preview_init", "preview", "polish_init", "polish", "final_init", "final",
             "first_process", "first_syscall", "first_exit", "end">>]

at == IF pc = 0 THEN "panic" ELSE Script[build][pc]

(* A call that returns; Skip passes over the next entry of the script.     *)
Step(name, A) == at = name /\ A /\ pc' = pc + 1 /\ UNCHANGED <<build, env>>
Skip(name, A) == at = name /\ A /\ pc' = pc + 2 /\ UNCHANGED <<build, env>>
Stay(name, A) == at = name /\ A /\ UNCHANGED bootVars

BootInit ==
    /\ build \in DOMAIN Script /\ pc = 1
    /\ env \in [disk : {"none"} \union DOMAIN DiskBlocks, link : BOOLEAN, image : Images]
    /\ online = {} /\ dtb \in DeviceTrees /\ reserved = {}
    /\ ServicesInit /\ VfsBoot /\ UserlandBoot /\ ElfBoot /\ IsolationBoot /\ StageBoot
    /\ BlockBoot /\ NetBoot

(* A call of one component leaves the others alone.                        *)
InCore(A) ==
    /\ UNCHANGED <<servicesVars, vfsVars, userlandVars, elfVars, isoVars, stageVars, blockVars, netVars>> /\ A
InServices(A) ==
    /\ UNCHANGED <<coreVars, vfsVars, userlandVars, elfVars, isoVars, stageVars, blockVars, netVars>> /\ A
InVfs(A) ==
    /\ UNCHANGED <<coreVars, servicesVars, userlandVars, elfVars, isoVars, stageVars, blockVars, netVars>> /\ A
InUserland(A) ==
    /\ UNCHANGED <<coreVars, servicesVars, vfsVars, elfVars, isoVars, stageVars, blockVars, netVars>> /\ A
InElf(A) ==
    /\ UNCHANGED <<coreVars, servicesVars, vfsVars, userlandVars, isoVars, stageVars, blockVars, netVars>> /\ A
InIsolation(A) ==
    /\ UNCHANGED <<coreVars, servicesVars, vfsVars, userlandVars, elfVars, stageVars, blockVars, netVars>> /\ A
InStages(A) ==
    /\ UNCHANGED <<coreVars, servicesVars, vfsVars, userlandVars, elfVars, isoVars, blockVars, netVars>> /\ A
InBlocks(A) ==
    /\ UNCHANGED <<coreVars, servicesVars, vfsVars, userlandVars, elfVars, isoVars, stageVars, netVars>> /\ A
InNetwork(A) ==
    /\ UNCHANGED <<coreVars, servicesVars, vfsVars, userlandVars, elfVars, isoVars, stageVars, blockVars>> /\ A

(***************************************************************************)
(* kernel_main.  A disk that is not found, and a layout that does not fit  *)
(* on it, only warn.                                                       *)
(***************************************************************************)
kernel_main_core ==
    \/ Step("platform", InCore(platform_init))
    \/ Step("memory", InCore(memory_bringup))
    \/ Step("core", InCore(core_init))
    \/ Step("processes", InCore(process_and_syscall_init))

kernel_main_devices ==
    \/ Step("block_init", InBlocks(block_storage_init))
    \/ Step("disk", env.disk # "none" /\ InBlocks(register_device(DiskBlocks[env.disk])))
    \/ Step("disk", env.disk = "none" /\ InBlocks(UNCHANGED blockVars))
    \/ Step("layout", devices # <<>> /\ InBlocks(register_v40_flash_layout))
    \/ Step("layout", devices # <<>> /\ InBlocks(flash_layout_refused))
    \/ Step("layout", devices = <<>> /\ InBlocks(UNCHANGED blockVars))

kernel_main_tasks ==
    \/ Step("service_manager", InServices(service_manager_init))
    \/ Step("tasks", InCore(tasks_start))

(***************************************************************************)
(* The init task of both builds.  With a disk, AegisFS must mount; the     *)
(* network may fail, which only the smoke build minds.                     *)
(***************************************************************************)
aegisbox_init_mount_vfs_or_panic ==
    \/ Step("vfs", InVfs(vfs_init))
    \/ Step("root", InVfs(mount_empty_root))
    \/ Step("userland_files", InVfs(install_builtin_userland))
    \/ Step("rootfs", InVfs(install_release_rootfs))
    \/ Step("dev", InVfs(vfs_mount(<<"dev">>, "devfs")))
    \/ Step("proc", InVfs(vfs_mount(<<"proc">>, "procfs")))
    \/ Step("persist", /\ "io_backend_ready" \in block_flags
                       /\ PartitionHasIo("AEGIS_CONFIG") /\ env.disk # "damaged"
                       /\ InVfs(vfs_mount(<<"persist">>, "aegisfs")))
    \/ Step("persist", "io_backend_ready" \notin block_flags /\ InVfs(UNCHANGED vfsVars))
    \/ Step("vfs_selftest", InVfs(UNCHANGED vfsVars /\ vfs_bootstrap_selftest))

aegisbox_init_register_services_or_panic ==
    \/ Step("register_services", InServices(register_builtin_kernel_services))
    \/ Step("prepare_services", InServices(service_manager_prepare /\ service_manager_selftest'))

network_bringup ==
    \/ Step("net_init", InNetwork(network_control_init))
    \/ Step("net_start", InNetwork(bringup_start(env.link)))
    \/ Skip("net_start", InNetwork(bringup_no_link(env.link)))
    \/ Stay("net_loop", InNetwork(\E reported \in BOOLEAN : bringup_retry(reported)))
    \/ Stay("net_loop", InNetwork(\E m \in Answers : network_control_poll(m)))
    \/ Step("net_loop", InNetwork(finish_control_plane))
    \/ Step("net_loop", InNetwork(finish_without_gateway))

Deadline == Step("net_loop", InNetwork(bringup_timeout))

(***************************************************************************)
(* The native build: pid 1.                                                *)
(***************************************************************************)
Loaded == runtime[builtin_slot]

(* The loader's slots are an array in the kernel image; each holds the     *)
(* image, a stack of 16 pages and the segment table.                       *)
RuntimeBacking(slot) == KernelImage.base + (slot - 1) * (ImageMax + 17)

bind_loaded ==
    /\ builtin_slot \in DOMAIN runtime
    /\ bind_first_process_to_loaded_elf("aegis-init", Loaded.entry, Loaded.text_vaddr \div PageUnits,
                                        Loaded.text_memsz, Loaded.copied, Loaded.zeroed)

publish_pid1 ==
    LET text == Region(RuntimeBacking(builtin_slot), Loaded.text_memsz \div PageUnits, {"read", "exec", "user"})
    IN  note_native_process_spawn("aegis-init", 1, text.base * PageUnits + Loaded.runtime_entry, text,
                                  Region(RuntimeBacking(builtin_slot) + ImageMax, 16, {"read", "write", "user"}))

aegisbox_init_launch_native_pid1_or_panic ==
    \/ Step("native_handoff_init", InUserland(userland_handoff_init))
    \/ Step("native_connect", InUserland(connect_builtin_features))
    \/ Step("native_handoff", InUserland(prepare_handoff))
    \/ Step("native_pre_el0", InUserland(prepare_pre_el0_contract))
    \/ Step("native_ipc", InStages(service_ipc_init))
    \/ Step("native_supervisor", InStages(service_supervisor_init))
    \/ Step("native_elf_init", InElf(elf_loader_init))
    \/ Step("native_load", InElf(load_vfs_aegis_init(env.image) /\ elf_loader_selftest' /\ pt_load_selftest'))
    \/ Step("native_bind", InUserland(bind_loaded))
    \/ Step("native_publish", InUserland(publish_pid1))
    \/ Step("native_console", InCore(Brought({"console_task"}) /\ UNCHANGED <<dtb, reserved>>))

(***************************************************************************)
(* The smoke build: one function of kernel_main.c per stage, each of which *)
(* prepares something and tests it.                                        *)
(***************************************************************************)
aegisbox_init_prepare_userland_or_panic ==
    \/ Step("handoff_init", InUserland(userland_handoff_init))
    \/ Step("connect", InUserland(connect_builtin_features))
    \/ Step("handoff", InUserland(prepare_handoff /\ userland_selftest'))

aegisbox_init_prepare_pre_el0_or_panic ==
    Step("pre_el0", InUserland(prepare_pre_el0_contract /\ pre_el0_selftest'))

aegisbox_init_load_first_elf_or_panic ==
    \/ Step("elf_init", InElf(elf_loader_init))
    \/ Step("load", InElf(load_vfs_aegis_init(env.image) /\ elf_loader_selftest' /\ pt_load_selftest'))
    \/ Step("bind", InUserland(bind_loaded /\ first_process_elf_selftest'))

aegisbox_init_prepare_v38_user_processes_or_panic ==
    \/ Step("stack", InUserland(prepare_user_stack_bootstrap /\ user_stack_bootstrap_selftest'))
    \/ Step("descriptors", InUserland(create_multiple_process_descriptors /\ multiple_process_descriptors_selftest'))

(* The registry is emptied: the layout goes on a made-up device.           *)
aegisbox_init_prepare_v41_storage_process_or_panic ==
    \/ Step("block_reinit", InBlocks(block_storage_init))
    \/ Step("flash_layout", InBlocks(register_v40_flash_layout /\ block_storage_selftest'))
    \/ Step("cleanup", InCore(process_table_cleanup))

aegisbox_init_prepare_v42_multiprocess_syscalls_or_panic ==
    \/ Step("launch_path", InUserland(prepare_real_multiprocess_launch_path /\ real_multiprocess_launch_selftest'))
    \/ Step("expansion", InUserland(prepare_syscall_expansion))

aegisbox_init_prepare_v43_ipc_service_messaging_or_panic ==
    \/ Step("ipc_init", InStages(service_ipc_init))
    \/ Step("messaging", InStages(prepare_service_messaging /\ service_messaging_selftest'))
    \/ Step("roundtrip", InStages(message_roundtrip))

aegisbox_init_prepare_v44_service_supervisor_or_panic ==
    \/ Step("supervisor_init", InStages(service_supervisor_init))
    \/ Step("register", InStages(register_user_processes))
    \/ Step("start", InStages(start_registered))
    \/ Step("fault", InStages(fault_proof("routerd") /\ service_supervisor_selftest'))

aegisbox_init_prepare_v45_page_isolation_or_panic ==
    \/ Step("isolation_init", InIsolation(page_isolation_init))
    \/ Step("isolate", InIsolation(/\ prepare_user_kernel_tables("handoff_preserved" \in sup_flags)
                                   /\ page_isolation_selftest'))

(* What is asked of the bring-up when it has returned.                     *)
aegisbox_init_prepare_v46_network_control_or_panic ==
    Step("net_selftest", InNetwork(network_control_ready /\ network_control_selftest /\ UNCHANGED netVars))

aegisbox_init_prepare_v47_developer_preview_or_panic ==
    \/ Step("preview_init", InStages(release_init("preview")))
    \/ Step("preview", InStages(developer_preview_prepare /\ developer_preview_selftest'))

aegisbox_init_prepare_v48_release_polish_or_panic ==
    \/ Step("polish_init", InStages(release_init("polish")))
    \/ Step("polish", InStages(release_polish_prepare(network_control_ready) /\ release_polish_selftest'))

aegisbox_init_prepare_v55_release_or_panic ==
    \/ Step("final_init", InStages(release_init("final")))
    \/ Step("final", InStages(release_final_prepare /\ release_final_selftest'))

aegisbox_init_first_tiny_user_process_or_panic ==
    Step("first_process", InUserland(prepare_first_tiny_user_process(KernelImage.base * PageUnits)))

(* syscall_handler: the two system calls of the tiny process.              *)
syscall_handler ==
    \/ Step("first_syscall", InUserland(first_process_syscall))
    \/ Step("first_exit", InUserland(first_process_exit))

BootStep ==
    \/ kernel_main_core
    \/ kernel_main_devices
    \/ kernel_main_tasks
    \/ aegisbox_init_mount_vfs_or_panic
    \/ aegisbox_init_register_services_or_panic
    \/ network_bringup
    \/ aegisbox_init_launch_native_pid1_or_panic
    \/ aegisbox_init_prepare_userland_or_panic
    \/ aegisbox_init_prepare_pre_el0_or_panic
    \/ aegisbox_init_load_first_elf_or_panic
    \/ aegisbox_init_prepare_v38_user_processes_or_panic
    \/ aegisbox_init_prepare_v41_storage_process_or_panic
    \/ aegisbox_init_prepare_v42_multiprocess_syscalls_or_panic
    \/ aegisbox_init_prepare_v43_ipc_service_messaging_or_panic
    \/ aegisbox_init_prepare_v44_service_supervisor_or_panic
    \/ aegisbox_init_prepare_v45_page_isolation_or_panic
    \/ aegisbox_init_prepare_v46_network_control_or_panic
    \/ aegisbox_init_prepare_v47_developer_preview_or_panic
    \/ aegisbox_init_prepare_v48_release_polish_or_panic
    \/ aegisbox_init_prepare_v55_release_or_panic
    \/ aegisbox_init_first_tiny_user_process_or_panic
    \/ syscall_handler

(* The call fails and the code does not go on.                             *)
Panic ==
    /\ at \notin {"panic", "end"}
    /\ ~ENABLED (BootStep \/ Deadline)
    /\ pc' = 0
    /\ UNCHANGED <<build, env, coreVars>> /\ InCore(TRUE)

BootNext == BootStep \/ Deadline \/ Panic

(* The kernel runs on, and its clock reaches the deadline of the bring-up. *)
BootSpec ==
    BootInit /\ [][BootNext]_vars /\ WF_vars(BootNext) /\ WF_vars(Deadline)

(***************************************************************************)
(* Properties.                                                             *)
(***************************************************************************)

(* What the build's linker script makes of a program: whole pages without  *)
(* gaps, the entry point at the start of the text, zeros only at the end.  *)
WellLinked(image) ==
    /\ image.header_ok /\ SpanPages(image) <= ImageMax
    /\ MapThenSumSet(LAMBDA s : s.mem, image.segments) = SpanPages(image) * PageUnits
    /\ \E text \in image.segments :
           text.vaddr = TextBase(0) * PageUnits /\ text.vaddr = image.entry /\ text.perms = {"read", "exec"}
    /\ \A s \in image.segments :
           /\ s.vaddr % PageUnits = 0 /\ s.mem % PageUnits = 0 /\ s.mem > 0 /\ s.file > 0
           /\ ~({"write", "exec"} \subseteq s.perms)
           /\ s.file <= s.mem
           /\ s.file < s.mem => EndPage(s) = LowPage(image) + SpanPages(image)

(* The boot panics only for a reason outside the kernel: a device tree     *)
(* outside the RAM, a disk that is there and cannot be used, an init       *)
(* program that is not well linked, or, in the smoke build, a network that *)
(* did not come up.  No order of the stages makes one refuse what an       *)
(* earlier one prepared, and the native build survives every outcome of    *)
(* network_control_bringup_live, as the comment at kernel_main.c:1329 says. *)
PanicHasCause ==
    at = "panic" =>
        \/ dtb # 0 /\ ~ReserveOk([base |-> dtb, size |-> DtbPages])
        \/ env.disk \in {"small", "damaged"}
        \/ ~WellLinked(env.image)
        \/ build = "smoke" /\ "initialised" \in netctl /\ ~network_control_selftest

(* Every boot ends, in a panic or with a user process running: the waits   *)
(* of the bring-up are bounded by its deadline, whatever the servers send. *)
BootEnds == <>(at \in {"panic", "end"})

RegionsOf(p) == {r \in {p.text, p.heap, p.ipc, p.stack, p.guard} : r.size > 0}

(* No region of a user process, its stack guard included, overlaps another *)
(* one of any process (assign_process_layout looks at one process, and the *)
(* self-test only at the stacks and texts of two).                         *)
DescriptorsDisjoint ==
    /\ \A i, j \in DOMAIN descriptors : i < j =>
           \A r \in RegionsOf(descriptors[i]), q \in RegionsOf(descriptors[j]) : RegionsApart(r, q)
    /\ \A p \in ToSet(descriptors) :
           \A r, q \in RegionsOf(p) : r = q \/ RegionsApart(r, q)

(* A booted system is whole.  Every feature is handed over and its kernel  *)
(* service prepared, no file is left open, and /persist is there exactly   *)
(* when the disk is sound.  In the native build aegis-init alone has a     *)
(* pid, its entry point is a byte copied from an executable segment, and   *)
(* /persist reaches a driver; in the smoke build nothing is left to run.   *)
LaunchedSystemIsWhole ==
    at = "end" =>
        /\ DOMAIN features = DOMAIN BuiltinFeatures
        /\ \A f \in DOMAIN features : HandoffReady(f) /\ features[f].service \in prepared
        /\ open_vnodes = <<>>
        /\ <<"persist">> \in MountPaths <=> env.disk = "good"
        /\ build = "native" =>
               /\ {f \in DOMAIN features : features[f].live_pid # 0} = {"aegis-init"}
               /\ descriptors[1].id = features["aegis-init"].live_pid
               /\ LET entry == descriptors[1].entry - descriptors[1].text.base * PageUnits
                  IN  \E s \in Loaded.segments :
                          "exec" \in s.perms /\ s.vaddr <= entry /\ entry < s.vaddr + s.file
               /\ <<"persist">> \in MountPaths => PartitionHasIo("AEGIS_CONFIG")
        /\ build = "smoke" => no_runnable_user_processes

(* The lease is one server's: the address, and every option that server    *)
(* sends, come from the server whose offer was requested and acknowledged  *)
(* (dhcp_handle_response takes options over before it looks at the type of *)
(* a message).  Once the control plane is up the route and the address are *)
(* the lease's, and translation never runs without the filter.             *)
LeaseFromOneServer ==
    /\ "dhcp_bound" \in netctl =>
           \A o \in SentBy[lease.addr] : lease.option[o] = lease.addr
    /\ network_control_ready =>
           /\ local_ip = [addr |-> lease.addr, mask |-> lease.option["mask"], gateway |-> lease.option["gateway"]]
           /\ ToSet(routes) = {[network |-> <<>>, gateway |-> lease.option["gateway"], metric |-> 100]}
    /\ nat_enabled => fw_enabled /\ default_policy = "drop" /\ Len(ListFrom) = 4
=============================================================================
