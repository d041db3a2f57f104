---------------------------- MODULE FilesProofs -----------------------------
(***************************************************************************)
(* Proof that open vnodes and descriptors match one to one, for any number *)
(* of processes, descriptors and vnodes.                                   *)
(***************************************************************************)
EXTENDS Files, TLAPS, WellFoundedInduction

(* VnodesHaveOneOwner in terms of rows, with what keeps it: indices stay   *)
(* within a row, and a process without a row has no descriptors.           *)
FilesInv ==
    /\ g_fd = [pid \in FdPids |-> g_fd[pid]]
    /\ running \subseteq FdPids
    /\ \A pid \in FdPids : DOMAIN g_fd[pid] \subseteq 1 .. FdMax
    /\ \A pid \in FdPids : ~HasRow(pid) => DOMAIN g_fd[pid] = {}
    /\ \A pid \in FdPids : DOMAIN g_fd[pid] # {} => pid \in running \union suicides
    /\ \A pid \in FdPids : \A i \in DOMAIN g_fd[pid] : g_fd[pid][i] \in DOMAIN open_vnodes
    /\ \A v \in DOMAIN open_vnodes : \E pid \in FdPids : \E i \in DOMAIN g_fd[pid] : g_fd[pid][i] = v
    /\ \A p, q \in FdPids : \A i \in DOMAIN g_fd[p], j \in DOMAIN g_fd[q] :
           g_fd[p][i] = g_fd[q][j] => p = q /\ i = j

-----------------------------------------------------------------------------
LEMMA NatWellFounded == IsWellFoundedOn({ss \in Nat \X Nat : ss[1] < ss[2]}, Nat)
  BY NatLessThanWellFounded DEF OpToRel

(* The least of a non-empty set of numbers exists.                         *)
LEMMA MinIsMember ==
    ASSUME NEW S \in SUBSET Nat, S # {}
    PROVE  Min(S) \in S
<1> DEFINE R == {ss \in Nat \X Nat : ss[1] < ss[2]}
<1>1. PICK x \in S : \A y \in S : ~(<<y, x>> \in R)
  BY NatWellFounded, WFMin
<1>2. \A y \in Nat, z \in Nat : y < z => <<y, z>> \in R
  OBVIOUS
<1> HIDE DEF R
<1>3. \A y \in S : ~(y < x)
  BY <1>1, <1>2
<1>4. \A y \in S : x <= y
  BY <1>3
<1> QED
  BY <1>4 DEF Min

(* vfs_open and fd_install take a slot that is free.                       *)
LEMMA FreeSlotIsFree ==
    ASSUME NEW table, NEW max \in Nat, FreeSlots(table, max) # {}
    PROVE  Min(FreeSlots(table, max)) \in 1 .. max /\ Min(FreeSlots(table, max)) \notin DOMAIN table
<1>1. FreeSlots(table, max) \in SUBSET Nat
  BY DEF FreeSlots
<1>2. Min(FreeSlots(table, max)) \in FreeSlots(table, max)
  BY <1>1, MinIsMember
<1> QED
  BY <1>2 DEF FreeSlots

LEMMA FilesInvInit == FilesBoot => FilesInv
<1> SUFFICES ASSUME FilesBoot PROVE FilesInv
  OBVIOUS
<1>1. DOMAIN NoEntries = {}
  BY DEF NoEntries
<1>2. /\ g_fd = [pid \in FdPids |-> NoEntries] /\ running = FdPids
      /\ DOMAIN open_vnodes = {}
  BY DEF FilesBoot
<1>3. \A pid \in FdPids : DOMAIN g_fd[pid] = {}
  BY <1>1, <1>2
<1> QED
  BY <1>2, <1>3 DEF FilesInv

(* sys_open puts a vnode that is new into an index that is new.            *)
LEMMA OpenKeeps ==
    ASSUME FilesInv, NEW pid \in FdPids, NEW path \in Paths, sys_open(pid, path)
    PROVE  FilesInv'
<1>1. CASE ~CanInstall(pid)
  <2>1. UNCHANGED <<open_vnodes, g_fd, running, suicides>>
    BY <1>1 DEF sys_open
  <2> QED
    BY <2>1 DEF FilesInv
<1>2. CASE CanInstall(pid)
  <2> DEFINE v == OpenSlot
             k == Min(FreeSlots(g_fd[pid], FdMax))
  <2>1. v \notin DOMAIN open_vnodes
    BY FreeSlotIsFree, FilesAssumption DEF sys_open, CanOpen, OpenSlot
  <2>2. k \in 1 .. FdMax /\ k \notin DOMAIN g_fd[pid] /\ HasRow(pid)
    BY <1>2, FreeSlotIsFree, FilesAssumption DEF CanInstall
  <2>3. /\ open_vnodes' = Filled(open_vnodes, v, Resolved(path))
        /\ g_fd' = [g_fd EXCEPT ![pid] = Filled(@, k, v)]
        /\ running' = running /\ suicides' = suicides /\ pid \in running
    BY <1>2 DEF sys_open, VnodeOpened
  <2> HIDE DEF v, k
  <2>4. DOMAIN open_vnodes' = DOMAIN open_vnodes \union {v}
    BY <2>3 DEF Filled
  <2>5. g_fd' = [q \in FdPids |-> IF q = pid THEN Filled(g_fd[pid], k, v) ELSE g_fd[q]]
    BY <2>3 DEF FilesInv
  <2>6. /\ DOMAIN g_fd'[pid] = DOMAIN g_fd[pid] \union {k}
        /\ g_fd'[pid][k] = v
        /\ \A i \in DOMAIN g_fd[pid] : g_fd'[pid][i] = g_fd[pid][i]
    BY <2>2, <2>5 DEF Filled
  <2>7. \A q \in FdPids : q # pid => g_fd'[q] = g_fd[q]
    BY <2>5
  <2>8. g_fd' = [q \in FdPids |-> g_fd'[q]] /\ running' \subseteq FdPids
    BY <2>3, <2>5 DEF FilesInv
  <2>9. \A q \in FdPids : /\ DOMAIN g_fd'[q] \subseteq 1 .. FdMax
                          /\ ~HasRow(q) => DOMAIN g_fd'[q] = {}
                          /\ DOMAIN g_fd'[q] # {} => q \in running' \union suicides'
    BY <2>2, <2>3, <2>6, <2>7 DEF FilesInv
  <2>10. \A q \in FdPids : \A i \in DOMAIN g_fd'[q] : g_fd'[q][i] \in DOMAIN open_vnodes'
    BY <2>4, <2>6, <2>7 DEF FilesInv
  <2>11. \A w \in DOMAIN open_vnodes' : \E q \in FdPids : \E i \in DOMAIN g_fd'[q] : g_fd'[q][i] = w
    BY <2>4, <2>6, <2>7 DEF FilesInv
  <2>12. \A p, q \in FdPids : \A i \in DOMAIN g_fd'[p], j \in DOMAIN g_fd'[q] :
             g_fd'[p][i] = g_fd'[q][j] => p = q /\ i = j
    BY <2>1, <2>6, <2>7 DEF FilesInv
  <2> QED
    BY <2>8, <2>9, <2>10, <2>11, <2>12 DEF FilesInv, HasRow
<1> QED
  BY <1>1, <1>2

(* fd_close and fd_close_all take indices out of a row and close exactly   *)
(* the vnodes that were behind them.                                       *)
LEMMA CloseKeeps ==
    ASSUME FilesInv, NEW pid \in FdPids, NEW gone, gone \subseteq DOMAIN g_fd[pid], NEW row,
           DOMAIN row = DOMAIN g_fd[pid] \ gone,
           \A i \in DOMAIN row : row[i] = g_fd[pid][i],
           open_vnodes' = VnodesClosed({g_fd[pid][i] : i \in gone}),
           g_fd' = [g_fd EXCEPT ![pid] = row],
           running' \subseteq FdPids,
           \A q \in FdPids : DOMAIN g_fd'[q] # {} => q \in running' \union suicides'
    PROVE  FilesInv'
<1>1. DOMAIN open_vnodes' = DOMAIN open_vnodes \ {g_fd[pid][i] : i \in gone}
  BY DEF VnodesClosed, Restrict
<1>2. g_fd' = [q \in FdPids |-> IF q = pid THEN row ELSE g_fd[q]]
  BY DEF FilesInv
<1>3. g_fd'[pid] = row /\ \A q \in FdPids : q # pid => g_fd'[q] = g_fd[q]
  BY <1>2
<1>4. \A q \in FdPids : /\ DOMAIN g_fd'[q] \subseteq DOMAIN g_fd[q]
                        /\ \A i \in DOMAIN g_fd'[q] : g_fd'[q][i] = g_fd[q][i]
  BY <1>3
<1>5. g_fd' = [q \in FdPids |-> g_fd'[q]]
  BY <1>2
<1>6. \A q \in FdPids : /\ DOMAIN g_fd'[q] \subseteq 1 .. FdMax
                        /\ ~HasRow(q) => DOMAIN g_fd'[q] = {}
  BY <1>4 DEF FilesInv
<1>7. \A q \in FdPids : \A i \in DOMAIN g_fd'[q] : g_fd'[q][i] \in DOMAIN open_vnodes'
  <2> SUFFICES ASSUME NEW q \in FdPids, NEW i \in DOMAIN g_fd'[q]
               PROVE  g_fd'[q][i] \in DOMAIN open_vnodes'
    OBVIOUS
  <2>1. i \in DOMAIN g_fd[q] /\ g_fd'[q][i] = g_fd[q][i] /\ g_fd[q][i] \in DOMAIN open_vnodes
    BY <1>4 DEF FilesInv
  <2>2. q = pid => i \notin gone
    BY <1>3
  <2>3. \A j \in gone : g_fd[pid][j] # g_fd[q][i]
    BY <2>1, <2>2 DEF FilesInv
  <2> QED
    BY <1>1, <2>1, <2>3
<1>8. \A w \in DOMAIN open_vnodes' : \E q \in FdPids : \E i \in DOMAIN g_fd'[q] : g_fd'[q][i] = w
  <2> SUFFICES ASSUME NEW w \in DOMAIN open_vnodes'
               PROVE  \E q \in FdPids : \E i \in DOMAIN g_fd'[q] : g_fd'[q][i] = w
    OBVIOUS
  <2>1. w \in DOMAIN open_vnodes /\ \A i \in gone : g_fd[pid][i] # w
    BY <1>1
  <2>2. PICK q \in FdPids : \E i \in DOMAIN g_fd[q] : g_fd[q][i] = w
    BY <2>1 DEF FilesInv
  <2>3. PICK i \in DOMAIN g_fd[q] : g_fd[q][i] = w
    BY <2>2
  <2>4. i \in DOMAIN g_fd'[q]
    BY <1>3, <2>1, <2>3
  <2> QED
    BY <1>4, <2>3, <2>4
<1>9. \A p, q \in FdPids : \A i \in DOMAIN g_fd'[p], j \in DOMAIN g_fd'[q] :
          g_fd'[p][i] = g_fd'[q][j] => p = q /\ i = j
  BY <1>4 DEF FilesInv
<1> QED
  BY <1>5, <1>6, <1>7, <1>8, <1>9 DEF FilesInv, HasRow

LEMMA CloseAllKeeps ==
    ASSUME FilesInv, NEW pid \in FdPids, fd_close_all(pid), running' \subseteq FdPids,
           running \ {pid} \subseteq running', suicides \subseteq suicides'
    PROVE  FilesInv'
<1>1. CASE HasRow(pid)
  <2>1. /\ open_vnodes' = VnodesClosed({g_fd[pid][i] : i \in DOMAIN g_fd[pid]})
        /\ g_fd' = [g_fd EXCEPT ![pid] = NoEntries]
    BY <1>1 DEF fd_close_all
  <2>2. DOMAIN NoEntries = {}
    BY DEF NoEntries
  <2>3. \A q \in FdPids : DOMAIN g_fd'[q] # {} => q # pid /\ g_fd'[q] = g_fd[q]
    BY <2>1, <2>2 DEF FilesInv
  <2>4. \A q \in FdPids : DOMAIN g_fd'[q] # {} => q \in running' \union suicides'
    BY <2>3 DEF FilesInv
  <2> QED
    BY <2>1, <2>2, <2>4, CloseKeeps
<1>2. CASE ~HasRow(pid)
  <2>1. open_vnodes' = open_vnodes /\ g_fd' = g_fd
    BY <1>2 DEF fd_close_all
  <2>2. DOMAIN g_fd[pid] = {}
    BY <1>2 DEF FilesInv
  <2>3. \A q \in FdPids : DOMAIN g_fd'[q] # {} => q \in running' \union suicides'
    BY <2>1, <2>2 DEF FilesInv
  <2> QED
    BY <2>1, <2>3 DEF FilesInv
<1> QED
  BY <1>1, <1>2

LEMMA FilesInvStep == FilesInv /\ [FilesNext]_fileVars => FilesInv'
<1> SUFFICES ASSUME FilesInv, [FilesNext]_fileVars PROVE FilesInv'
  OBVIOUS
<1>1. CASE UNCHANGED fileVars
  BY <1>1 DEF fileVars, vfsVars, FilesInv
<1>2. ASSUME NEW pid \in FdPids, NEW path \in Paths, sys_open(pid, path) PROVE FilesInv'
  BY <1>2, OpenKeeps
<1>3. ASSUME NEW pid \in FdPids, NEW i \in 1 .. FdMax, sys_close(pid, i) PROVE FilesInv'
  <2> DEFINE row == Without(g_fd[pid], i)
  <2>1. DOMAIN row = DOMAIN g_fd[pid] \ {i} /\ \A k \in DOMAIN row : row[k] = g_fd[pid][k]
    BY DEF Without
  <2>2. /\ i \in DOMAIN g_fd[pid] /\ open_vnodes' = VnodesClosed({g_fd[pid][i]})
        /\ g_fd' = [g_fd EXCEPT ![pid] = row] /\ running' = running /\ suicides' = suicides
    BY <1>3 DEF sys_close
  <2> HIDE DEF row
  <2>3. {g_fd[pid][i]} = {g_fd[pid][k] : k \in {i}}
    OBVIOUS
  <2>4. \A q \in FdPids : DOMAIN g_fd'[q] # {} => DOMAIN g_fd[q] # {}
    BY <2>1, <2>2 DEF FilesInv
  <2>5. running' \subseteq FdPids /\ \A q \in FdPids : DOMAIN g_fd'[q] # {} => q \in running' \union suicides'
    BY <2>2, <2>4 DEF FilesInv
  <2> QED
    BY <2>1, <2>2, <2>3, <2>5, CloseKeeps
<1>4. ASSUME NEW pid \in FdPids, process_exit(pid) PROVE FilesInv'
  <2>1. fd_close_all(pid) /\ running' = running \ {pid} /\ suicides' = suicides
    BY <1>4 DEF process_exit
  <2> QED
    BY <2>1, CloseAllKeeps DEF FilesInv
<1>5. ASSUME NEW pid \in FdPids, process_kill(pid) PROVE FilesInv'
  <2>1. fd_close_all(pid) /\ running' = running /\ suicides' = suicides \union {pid}
    BY <1>5 DEF process_kill
  <2> QED
    BY <2>1, CloseAllKeeps DEF FilesInv
<1>6. ASSUME NEW pid \in FdPids, scheduler_yield(pid) PROVE FilesInv'
  BY <1>6 DEF scheduler_yield, vfsVars, FilesInv
<1> QED
  BY <1>1, <1>2, <1>3, <1>4, <1>5, <1>6 DEF FilesNext

LEMMA FilesInvOwners == FilesInv => VnodesHaveOneOwner
<1> SUFFICES ASSUME FilesInv PROVE VnodesHaveOneOwner
  OBVIOUS
<1>1. \A e \in Entries : /\ e[1] \in FdPids /\ e[2] \in DOMAIN g_fd[e[1]] /\ e = <<e[1], e[2]>>
                         /\ VnodeOf(e) = g_fd[e[1]][e[2]]
  BY DEF Entries, VnodeOf
<1>2. \A pid \in FdPids : \A i \in DOMAIN g_fd[pid] :
          <<pid, i>> \in Entries /\ VnodeOf(<<pid, i>>) = g_fd[pid][i]
  BY DEF Entries, VnodeOf, FilesInv
<1>3. {VnodeOf(e) : e \in Entries} = DOMAIN open_vnodes
  <2>1. \A e \in Entries : VnodeOf(e) \in DOMAIN open_vnodes
    BY <1>1 DEF FilesInv
  <2>2. ASSUME NEW v \in DOMAIN open_vnodes PROVE \E e \in Entries : VnodeOf(e) = v
    <3>1. PICK pid \in FdPids : \E i \in DOMAIN g_fd[pid] : g_fd[pid][i] = v
      BY DEF FilesInv
    <3>2. PICK i \in DOMAIN g_fd[pid] : g_fd[pid][i] = v
      BY <3>1
    <3> QED
      BY <1>2, <3>2
  <2> QED
    BY <2>1, <2>2
<1>4. \A d, e \in Entries : VnodeOf(d) = VnodeOf(e) => d = e
  <2> SUFFICES ASSUME NEW d \in Entries, NEW e \in Entries, VnodeOf(d) = VnodeOf(e) PROVE d = e
    OBVIOUS
  <2>1. d[1] = e[1] /\ d[2] = e[2]
    BY <1>1 DEF FilesInv
  <2> QED
    BY <1>1, <2>1
<1>5. \A e \in Entries : e[1] \in running \union suicides
  BY <1>1 DEF FilesInv
<1> QED
  BY <1>3, <1>4, <1>5 DEF VnodesHaveOneOwner

(* However processes open and close files, exit, are killed or kill        *)
(* themselves, every vnode sys_open took has one descriptor, and no        *)
(* process that ended, other than by its own signal, has any.              *)
THEOREM OneOwnerOfEveryVnode == FilesSpec => []VnodesHaveOneOwner
  BY FilesInvInit, FilesInvStep, FilesInvOwners, PTL DEF FilesSpec
=============================================================================
