--------------------------- MODULE SchedulerProofs ---------------------------
(***************************************************************************)
(* Proofs about the scheduler for every set of task addresses, every boot  *)
(* list that contains idle and every number of task_create() calls.        *)
(***************************************************************************)
EXTENDS Scheduler, WellFoundedInduction, TLAPS

(* The inductive invariant: idle is never destroyed, so it is READY         *)
(* whenever it does not have the CPU itself.                                *)
SchedInv ==
    /\ TypeOK
    /\ ListMatchesMemory
    /\ OneRunningTask
    /\ NoDeadEndYield
    /\ task_state[Idle] \in {"READY", "RUNNING"}

-----------------------------------------------------------------------------
(* PositionOf() of a task that is in task_list is an index that holds it. *)
LEMMA PositionOfProperty ==
    ASSUME NEW t, InList(t)
    PROVE  PositionOf(t) \in 1..Len(task_list) /\ task_list[PositionOf(t)] = t
BY DEF InList, PositionOf

(* Every non-empty set of naturals has a least element. *)
LEMMA LeastNatural ==
    ASSUME NEW T, T \subseteq Nat, T # {}
    PROVE  \E x \in T : \A y \in T : x <= y
<1>1. PICK x \in T : \A y \in T : ~(<<y, x>> \in OpToRel(<, Nat))
  BY NatLessThanWellFounded, WFMin
<1>2. \A y \in T : x <= y
  <2>1. TAKE y \in T
  <2>2. x \in Nat /\ y \in Nat
    BY <2>1
  <2>3. <<y, x>> \notin OpToRel(<, Nat)
    BY <1>1
  <2> QED BY <2>2, <2>3 DEF OpToRel
<1> QED BY <1>2

(* The search of scheduler_yield() returns one of the tasks it looks for. *)
LEMMA NearestProperty ==
    ASSUME TypeOK, NEW prev, InList(prev), NEW S, S # {},
           \A t \in S : InList(t)
    PROVE  Nearest(prev, S) \in S
<1> DEFINE D == {Distance(prev, t) : t \in S}
<1>1. \A t \in S : Distance(prev, t) \in Nat
  <2>1. TAKE t \in S
  <2>2. /\ PositionOf(prev) \in 1..Len(task_list)
        /\ PositionOf(t) \in 1..Len(task_list)
    BY PositionOfProperty
  <2>3. Len(task_list) \in Nat
    BY DEF TypeOK
  <2> QED BY <2>2, <2>3 DEF Distance
<1>2. D \subseteq Nat /\ D # {}
  BY <1>1
<1>3. PICK d \in D : \A e \in D : d <= e
  BY <1>2, LeastNatural
<1>4. \E t \in S : \A u \in S : Distance(prev, t) <= Distance(prev, u)
  BY <1>3
<1> QED BY <1>4 DEF Nearest

(* Successor() is a READY task other than prev, and an ordinary one when    *)
(* there is any; it is NoTask only when idle is not READY.                  *)
LEMMA SuccessorProperty ==
    ASSUME TypeOK, NEW prev \in Tasks, InList(prev)
    PROVE  LET next == Successor(prev) IN
           /\ next \in (Ready \ {prev}) \cup {NoTask}
           /\ next = NoTask => Idle \notin Ready \ {prev}
           /\ next = Idle => Ready \ {prev} \subseteq {Idle}
<1> DEFINE ready == Ready \ {prev}
           ordinary == ready \ {Idle}
<1>0. ready \subseteq Tasks
  BY DEF Ready
<1>1. CASE ordinary # {}
  <2>1. \A t \in ordinary : InList(t)
    BY DEF Ready
  <2>2. Nearest(prev, ordinary) \in ordinary
    BY <1>1, <2>1, NearestProperty
  <2>3. Successor(prev) = Nearest(prev, ordinary)
    BY <1>1 DEF Successor
  <2>4. Successor(prev) # NoTask
    BY <1>0, <2>2, <2>3, TasksAssumption
  <2> QED BY <2>2, <2>3, <2>4
<1>2. CASE ordinary = {} /\ Idle \in ready
  <2>1. Successor(prev) = Idle
    BY <1>2 DEF Successor
  <2>2. Idle # NoTask
    BY TasksAssumption
  <2> QED BY <1>2, <2>1, <2>2
<1>3. CASE ordinary = {} /\ Idle \notin ready
  <2>1. Successor(prev) = NoTask
    BY <1>3 DEF Successor
  <2>2. Idle # NoTask
    BY TasksAssumption
  <2> QED BY <1>3, <2>1, <2>2
<1> QED BY <1>1, <1>2, <1>3

-----------------------------------------------------------------------------
(* scheduler_yield() preserves the invariant, from whatever states st that  *)
(* differ from task_state only in the caller being marked DEAD.             *)
LEMMA SwitchPreservesInv ==
    ASSUME SchedInv, current_task # NoTask, NEW st \in [Tasks -> TaskState],
           st = task_state \/ st = [task_state EXCEPT ![current_task] = "DEAD"],
           current_task = Idle => st = task_state,
           SwitchFrom(st), task_list' = task_list, created' = created
    PROVE  /\ SchedInv'
           /\ \A t \in Tasks : task_state[t] = "DEAD" => task_state'[t] = "DEAD"
           /\ (current_task # Idle /\ current_task' = Idle) => Ready \subseteq {Idle}
<1> DEFINE next == Successor(current_task)
<1>1. current_task \in Tasks /\ InList(current_task) /\ Idle \in Tasks
  BY TasksAssumption DEF SchedInv, TypeOK, OneRunningTask, ListMatchesMemory
<1>2. /\ next \in (Ready \ {current_task}) \cup {NoTask}
      /\ next = NoTask => Idle \notin Ready \ {current_task}
      /\ next = Idle => Ready \ {current_task} \subseteq {Idle}
  BY <1>1, SuccessorProperty DEF SchedInv
<1>3. current_task \notin Ready
  BY <1>1 DEF SchedInv, OneRunningTask, Ready
<1>4. Idle \in Ready \/ current_task = Idle
  BY <1>1 DEF SchedInv, OneRunningTask, ListMatchesMemory, Ready
<1>5. CASE next = NoTask
  <2>1. current_task = Idle /\ st = task_state
    BY <1>2, <1>4, <1>5
  <2>2. /\ task_state' = task_state
        /\ current_task' = current_task
        /\ panicked' = (panicked \/ task_state[current_task] = "DEAD")
    BY <1>5, <2>1 DEF SwitchFrom
  <2>3. panicked' = FALSE
    BY <2>1, <2>2 DEF SchedInv, NoDeadEndYield
  <2> QED BY <2>1, <2>2, <2>3
        DEF SchedInv, TypeOK, ListMatchesMemory, InList, OneRunningTask, NoDeadEndYield
<1>6. CASE next # NoTask
  <2>1. /\ next \in Ready /\ next # current_task /\ next \in Tasks
        /\ task_state[next] = "READY"
    BY <1>2, <1>6 DEF Ready
  <2>2. /\ task_state' = [st EXCEPT
                ![current_task] = IF @ = "RUNNING" THEN "READY" ELSE @,
                ![next] = "RUNNING"]
        /\ current_task' = next
        /\ panicked' = panicked
    BY <1>6 DEF SwitchFrom
  <2>3. /\ task_state'[next] = "RUNNING"
        /\ task_state'[current_task] \in {"READY", "DEAD"}
        /\ task_state[current_task] = "DEAD" => task_state'[current_task] = "DEAD"
        /\ current_task = Idle => task_state'[current_task] = "READY"
        /\ \A t \in Tasks \ {next, current_task} : task_state'[t] = task_state[t]
        /\ task_state' \in [Tasks -> TaskState]
    BY <1>1, <2>1, <2>2 DEF SchedInv, TypeOK, TaskState, OneRunningTask
  <2>4. TypeOK' /\ NoDeadEndYield'
    BY <2>1, <2>2, <2>3 DEF SchedInv, TypeOK, NoDeadEndYield
  <2>5. ListMatchesMemory'
    BY <1>1, <2>1, <2>3 DEF SchedInv, ListMatchesMemory, InList
  <2>6. OneRunningTask'
    BY <2>1, <2>2, <2>3 DEF SchedInv, OneRunningTask
  <2>7. task_state'[Idle] \in {"READY", "RUNNING"}
    BY <1>1, <2>1, <2>3 DEF SchedInv
  <2>8. \A t \in Tasks : task_state[t] = "DEAD" => task_state'[t] = "DEAD"
    BY <2>1, <2>3
  <2>9. current_task' = Idle => Ready \subseteq {Idle}
    BY <1>2, <1>3, <2>2
  <2> QED BY <2>4, <2>5, <2>6, <2>7, <2>8, <2>9 DEF SchedInv
<1> QED BY <1>5, <1>6

(* task_append(): a new task goes to the tail of the list. *)
LEMMA CreatePreservesInv ==
    ASSUME SchedInv, NEW t \in Tasks, TaskCreate(t)
    PROVE  SchedInv'
<1>1. /\ task_list \in Seq(Tasks) /\ Len(task_list) \in Nat
      /\ task_list' = Append(task_list, t)
      /\ task_state' = [task_state EXCEPT ![t] = "READY"]
      /\ task_state[t] = "FREE" /\ ~InList(t)
      /\ current_task' = current_task /\ panicked' = panicked
      /\ created' = created + 1 /\ created < MaxCreate
  BY DEF SchedInv, TypeOK, ListMatchesMemory, TaskCreate
<1>2. TypeOK'
  BY <1>1, TasksAssumption DEF SchedInv, TypeOK, TaskState
<1>3. /\ Len(task_list') = Len(task_list) + 1
      /\ \A i \in 1..Len(task_list) : task_list'[i] = task_list[i]
      /\ task_list'[Len(task_list) + 1] = t
  BY <1>1
<1>4. \A u \in Tasks : InList(u)' <=> (InList(u) \/ u = t)
  BY <1>1, <1>3 DEF InList
<1>5. \A i, j \in 1..Len(task_list') : task_list'[i] = task_list'[j] => i = j
  BY <1>1, <1>3 DEF SchedInv, ListMatchesMemory, InList
<1>6. ListMatchesMemory'
  BY <1>1, <1>4, <1>5 DEF SchedInv, TypeOK, ListMatchesMemory
<1>7. OneRunningTask' /\ NoDeadEndYield' /\ task_state'[Idle] \in {"READY", "RUNNING"}
  BY <1>1, TasksAssumption DEF SchedInv, TypeOK, OneRunningTask, NoDeadEndYield
<1> QED BY <1>2, <1>6, <1>7 DEF SchedInv

(* task_destroy() of another task unlinks exactly that task. *)
LEMMA DestroyPreservesInv ==
    ASSUME SchedInv, NEW t \in Tasks, TaskDestroyOther(t)
    PROVE  SchedInv'
<1> DEFINE p == PositionOf(t)
           n == Len(task_list)
<1>1. /\ task_list \in Seq(Tasks) /\ n \in Nat
      /\ task_list' = Unlinked(t)
      /\ task_state' = [task_state EXCEPT ![t] = "FREE"]
      /\ InList(t) /\ t # current_task /\ t \notin Resident
      /\ current_task' = current_task /\ panicked' = panicked /\ created' = created
  BY DEF SchedInv, TypeOK, TaskDestroyOther
<1>2. p \in 1..n /\ task_list[p] = t
  BY <1>1, PositionOfProperty
<1>3. task_list' = [i \in 1..(n - 1) |-> IF i < p THEN task_list[i] ELSE task_list[i + 1]]
  BY <1>1 DEF Unlinked
<1>4. /\ task_list' \in Seq(Tasks)
      /\ Len(task_list') = n - 1
      /\ \A i \in 1..(n - 1) :
            task_list'[i] = IF i < p THEN task_list[i] ELSE task_list[i + 1]
  <2>1. \A i \in 1..(n - 1) : (IF i < p THEN task_list[i] ELSE task_list[i + 1]) \in Tasks
    BY <1>1, <1>2
  <2> QED BY <1>1, <1>2, <1>3, <2>1
<1>5. \A i, j \in 1..(n - 1) : task_list'[i] = task_list'[j] => i = j
  BY <1>1, <1>2, <1>4 DEF SchedInv, ListMatchesMemory
<1>6. \A u \in Tasks : InList(u)' <=> (InList(u) /\ u # t)
  <2>1. TAKE u \in Tasks
  <2>2. ASSUME InList(u)' PROVE InList(u) /\ u # t
    <3>1. PICK i \in 1..(n - 1) : task_list'[i] = u
      BY <1>4, <2>2 DEF InList
    <3>2. CASE i < p
      BY <1>1, <1>2, <1>4, <3>1, <3>2 DEF SchedInv, ListMatchesMemory, InList
    <3>3. CASE ~(i < p)
      BY <1>1, <1>2, <1>4, <3>1, <3>3 DEF SchedInv, ListMatchesMemory, InList
    <3> QED BY <3>2, <3>3
  <2>3. ASSUME InList(u), u # t PROVE InList(u)'
    <3>1. PICK i \in 1..n : task_list[i] = u
      BY <2>3 DEF InList
    <3>2. i # p
      BY <1>2, <2>3, <3>1
    <3>3. CASE i < p
      <4>1. i \in 1..(n - 1) /\ task_list'[i] = u
        BY <1>1, <1>2, <1>4, <3>1, <3>3
      <4> QED BY <1>4, <4>1 DEF InList
    <3>4. CASE i > p
      <4>1. i - 1 \in 1..(n - 1) /\ task_list'[i - 1] = u
        BY <1>1, <1>2, <1>4, <3>1, <3>4
      <4> QED BY <1>4, <4>1 DEF InList
    <3> QED BY <1>1, <1>2, <3>1, <3>2, <3>3, <3>4
  <2> QED BY <2>2, <2>3
<1>7. ListMatchesMemory'
  BY <1>1, <1>4, <1>5, <1>6 DEF SchedInv, TypeOK, ListMatchesMemory
<1>8. TypeOK' /\ OneRunningTask' /\ NoDeadEndYield' /\ task_state'[Idle] \in {"READY", "RUNNING"}
  BY <1>1, <1>4, TasksAssumption
     DEF SchedInv, TypeOK, TaskState, OneRunningTask, NoDeadEndYield
<1> QED BY <1>7, <1>8 DEF SchedInv

-----------------------------------------------------------------------------
LEMMA InitEstablishesInv == Init => SchedInv
<1> SUFFICES ASSUME Init PROVE SchedInv
  OBVIOUS
<1>1. Idle \in Tasks /\ current_task = NoTask /\ task_list = BootTasks
  BY TasksAssumption DEF Init
<1>2. TypeOK
  <2>1. task_state \in [Tasks -> TaskState]
    BY DEF Init, TaskState
  <2>2. panicked \in BOOLEAN
    BY DEF Init
  <2>3. created \in 0..MaxCreate
    BY TasksAssumption DEF Init
  <2> QED BY <1>1, <2>1, <2>2, <2>3, BootAssumption DEF TypeOK
<1>3. ListMatchesMemory
  BY BootAssumption DEF Init, ListMatchesMemory, InList
<1>4. OneRunningTask /\ NoDeadEndYield /\ task_state[Idle] \in {"READY", "RUNNING"}
  BY <1>1, TasksAssumption, BootAssumption DEF Init, OneRunningTask, NoDeadEndYield
<1> QED BY <1>2, <1>3, <1>4 DEF SchedInv

LEMMA RunPreservesInv ==
    ASSUME SchedInv, SchedulerRun
    PROVE  SchedInv' /\ (\A u \in Tasks : task_state[u] = "DEAD" => task_state'[u] = "DEAD")
<1>1. PICK t \in Ready : /\ current_task = NoTask
                         /\ current_task' = t
                         /\ task_state' = [task_state EXCEPT ![t] = "RUNNING"]
                         /\ task_list' = task_list /\ panicked' = panicked
                         /\ created' = created
  BY DEF SchedulerRun
<1>2. t \in Tasks /\ task_state[t] = "READY"
  BY DEF Ready
<1>3. \A u \in Tasks : task_state[u] # "RUNNING"
  BY <1>1, TasksAssumption DEF SchedInv, OneRunningTask
<1> QED BY <1>1, <1>2, <1>3, TasksAssumption
        DEF SchedInv, TypeOK, TaskState, ListMatchesMemory, InList, OneRunningTask, NoDeadEndYield

LEMMA StepPreservesInv == SchedInv /\ [Next]_schedVars => SchedInv'
<1> SUFFICES ASSUME SchedInv, [Next]_schedVars PROVE SchedInv'
  OBVIOUS
<1>1. CASE SchedulerRun
  BY <1>1, RunPreservesInv
<1>2. CASE \E t \in Tasks : TaskCreate(t)
  BY <1>2, CreatePreservesInv
<1>3. CASE \E t \in Tasks : TaskDestroyOther(t)
  BY <1>3, DestroyPreservesInv
<1>4. CASE TaskDestroySelf
  <2>1. /\ current_task \in Tasks /\ current_task # Idle
        /\ task_state' = [task_state EXCEPT ![current_task] = "DEAD"]
        /\ task_list' = task_list /\ current_task' = current_task
        /\ panicked' = panicked /\ created' = created
        /\ task_state[current_task] = "RUNNING"
    BY <1>4, TasksAssumption DEF TaskDestroySelf, SchedInv, TypeOK
  <2> QED BY <2>1, TasksAssumption
          DEF SchedInv, TypeOK, TaskState, ListMatchesMemory, InList, OneRunningTask, NoDeadEndYield
<1>5. CASE SchedulerYield
  <2>1. /\ current_task # NoTask /\ SwitchFrom(task_state)
        /\ task_list' = task_list /\ created' = created
        /\ task_state \in [Tasks -> TaskState]
    BY <1>5 DEF SchedulerYield, SchedInv, TypeOK
  <2> QED BY <2>1, SwitchPreservesInv
<1>6. CASE ExitCurrent
  <2>1. /\ current_task \in Tasks /\ current_task # NoTask /\ current_task # Idle
        /\ SwitchFrom([task_state EXCEPT ![current_task] = "DEAD"])
        /\ task_list' = task_list /\ created' = created
        /\ [task_state EXCEPT ![current_task] = "DEAD"] \in [Tasks -> TaskState]
    BY <1>6, TasksAssumption DEF ExitCurrent, SchedInv, TypeOK, TaskState
  <2> QED BY <2>1, SwitchPreservesInv
<1>7. CASE UNCHANGED schedVars
  BY <1>7 DEF schedVars, SchedInv, TypeOK, ListMatchesMemory, InList, OneRunningTask, NoDeadEndYield
<1> QED BY <1>1, <1>2, <1>3, <1>4, <1>5, <1>6, <1>7 DEF Next

(* The inductive invariant holds of every behaviour of the scheduler. *)
THEOREM SchedulerInvariant == Spec => []SchedInv
<1> QED BY InitEstablishesInv, StepPreservesInv, PTL DEF Spec

(* One task has the CPU, current_task is allocated, and the task list is    *)
(* exactly the allocated tasks, for any number of creations, exits and      *)
(* destructions.                                                            *)
THEOREM CpuAndListAreConsistent == Spec => [](TypeOK /\ ListMatchesMemory /\ OneRunningTask)
<1>1. SchedInv => TypeOK /\ ListMatchesMemory /\ OneRunningTask
  BY DEF SchedInv
<1> QED BY <1>1, SchedulerInvariant, PTL

(* scheduler_yield() never reaches its PANIC: idle can always take over     *)
(* from a task that died.                                                   *)
THEOREM YieldNeverPanics == Spec => []NoDeadEndYield
<1>1. SchedInv => NoDeadEndYield
  BY DEF SchedInv
<1> QED BY <1>1, SchedulerInvariant, PTL

(* Idle gets the CPU from another task only when no other task is READY.    *)
THEOREM IdleOnlyWhenNothingReady == Spec => IdleIsLastResort
<1> DEFINE Step == (current_task \notin {Idle, NoTask} /\ current_task' = Idle)
                        => Ready \subseteq {Idle}
<1>1. SchedInv /\ [Next]_schedVars => [Step]_schedVars
  <2> SUFFICES ASSUME SchedInv, Next, current_task \notin {Idle, NoTask},
                      current_task' = Idle
               PROVE  Ready \subseteq {Idle}
    BY DEF schedVars
  <2>1. CASE SchedulerRun
    BY <2>1 DEF SchedulerRun
  <2>2. CASE \E t \in Tasks : TaskCreate(t) \/ TaskDestroyOther(t)
    BY <2>2 DEF TaskCreate, TaskDestroyOther
  <2>3. CASE TaskDestroySelf
    BY <2>3 DEF TaskDestroySelf
  <2>4. CASE SchedulerYield
    <3>1. /\ current_task # NoTask /\ SwitchFrom(task_state)
          /\ task_list' = task_list /\ created' = created
          /\ task_state \in [Tasks -> TaskState]
      BY <2>4 DEF SchedulerYield, SchedInv, TypeOK
    <3> QED BY <3>1, SwitchPreservesInv
  <2>5. CASE ExitCurrent
    <3>1. /\ current_task \in Tasks /\ current_task # NoTask
          /\ SwitchFrom([task_state EXCEPT ![current_task] = "DEAD"])
          /\ task_list' = task_list /\ created' = created
          /\ [task_state EXCEPT ![current_task] = "DEAD"] \in [Tasks -> TaskState]
      BY <2>5 DEF ExitCurrent, SchedInv, TypeOK, TaskState
    <3> QED BY <3>1, SwitchPreservesInv
  <2> QED BY <2>1, <2>2, <2>3, <2>4, <2>5 DEF Next
<1> QED BY <1>1, SchedulerInvariant, PTL DEF Spec, IdleIsLastResort

(* A task marked DEAD is never READY or RUNNING again.                      *)
THEOREM DeadTasksNeverRun == Spec => DeadStaysDead
<1> DEFINE Step == \A t \in Tasks : task_state[t] = "DEAD"
                        => task_state'[t] \in {"DEAD", "FREE"}
<1>1. SchedInv /\ [Next]_schedVars => [Step]_schedVars
  <2> SUFFICES ASSUME SchedInv, Next PROVE Step
    BY DEF schedVars
  <2>1. CASE SchedulerRun
    BY <2>1, RunPreservesInv
  <2>2. CASE \E t \in Tasks : TaskCreate(t) \/ TaskDestroyOther(t)
    BY <2>2 DEF TaskCreate, TaskDestroyOther, SchedInv, TypeOK
  <2>3. CASE TaskDestroySelf
    BY <2>3 DEF TaskDestroySelf, SchedInv, TypeOK
  <2>4. CASE SchedulerYield
    <3>1. /\ current_task # NoTask /\ SwitchFrom(task_state)
          /\ task_list' = task_list /\ created' = created
          /\ task_state \in [Tasks -> TaskState]
      BY <2>4 DEF SchedulerYield, SchedInv, TypeOK
    <3> QED BY <3>1, SwitchPreservesInv
  <2>5. CASE ExitCurrent
    <3>1. /\ current_task \in Tasks /\ current_task # NoTask /\ current_task # Idle
          /\ SwitchFrom([task_state EXCEPT ![current_task] = "DEAD"])
          /\ task_list' = task_list /\ created' = created
          /\ [task_state EXCEPT ![current_task] = "DEAD"] \in [Tasks -> TaskState]
      BY <2>5, TasksAssumption DEF ExitCurrent, SchedInv, TypeOK, TaskState
    <3> QED BY <3>1, SwitchPreservesInv
  <2> QED BY <2>1, <2>2, <2>3, <2>4, <2>5 DEF Next
<1> QED BY <1>1, SchedulerInvariant, PTL DEF Spec, DeadStaysDead

-----------------------------------------------------------------------------
(* A yield of the list scheduler is a switch of the abstract CPU. *)
LEMMA SwitchRefines ==
    ASSUME SchedInv, current_task \in Tasks, NEW st \in [Tasks -> TaskState],
           \A t \in Tasks \ {current_task} : st[t] = task_state[t],
           st[current_task] # "FREE", SwitchFrom(st)
    PROVE  CPU!Switch(st)
<1> DEFINE next == Successor(current_task)
           ready == Ready \ {current_task}
<1>1. InList(current_task)
  <2>1. task_state[current_task] # "FREE"
    BY TasksAssumption DEF SchedInv, OneRunningTask
  <2> QED BY <2>1 DEF SchedInv, ListMatchesMemory
<1>2. /\ next \in ready \cup {NoTask}
      /\ next = NoTask => Idle \notin ready
      /\ next = Idle => ready \subseteq {Idle}
  BY <1>1, SuccessorProperty DEF SchedInv
<1>3. ready = {t \in Tasks \ {current_task} : st[t] = "READY"}
  BY DEF Ready, SchedInv, ListMatchesMemory
<1>4. next = NoTask => ready = {}
  <2>1. SUFFICES ASSUME next = NoTask, ready # {} PROVE FALSE
    OBVIOUS
  <2>2. ready \ {Idle} # {}
    BY <1>2, <2>1
  <2>3. \A t \in ready \ {Idle} : InList(t)
    BY DEF Ready
  <2>4. next \in ready \ {Idle}
    BY <1>1, <2>2, <2>3, NearestProperty DEF Successor, SchedInv
  <2> QED BY <2>1, <2>4, TasksAssumption DEF Ready
<1>5. CASE next = NoTask
  <2>1. CPU!Candidates(st) = {}
    BY <1>3, <1>4, <1>5 DEF CPU!Candidates
  <2>2. task_state' = st /\ current_task' = current_task
    BY <1>5 DEF SwitchFrom
  <2> QED BY <2>1, <2>2 DEF CPU!Switch
<1>6. CASE next # NoTask
  <2>1. next \in ready /\ (next = Idle => ready \ {Idle} = {})
    BY <1>2, <1>6
  <2>2. next \in CPU!Candidates(st)
    BY <1>3, <2>1 DEF CPU!Candidates
  <2>3. /\ task_state' = [st EXCEPT
                ![current_task] = IF @ = "RUNNING" THEN "READY" ELSE @,
                ![next] = "RUNNING"]
        /\ current_task' = next
    BY <1>6 DEF SwitchFrom
  <2> QED BY <2>2, <2>3 DEF CPU!Switch
<1> QED BY <1>5, <1>6

(* Hiding task_list, next_tid and the panic flag, scheduler.c implements    *)
(* the abstract CPU: the process layer may be checked against the latter.   *)
THEOREM SchedulerImplementsCpu == Spec => ImplementsCpu
<1>1. Init => CPU!CpuInit
  <2> SUFFICES ASSUME Init PROVE CPU!CpuInit
    OBVIOUS
  <2>1. task_state \in [Tasks -> {"FREE", "READY"}] /\ current_task = NoTask
    BY DEF Init
  <2>2. task_state[Idle] = "READY"
    BY TasksAssumption, BootAssumption DEF Init
  <2> QED BY <2>1, <2>2 DEF CPU!CpuInit
<1>2. SchedInv /\ [Next]_schedVars => [CPU!CpuNext]_(CPU!cpuVars)
  <2> SUFFICES ASSUME SchedInv, [Next]_schedVars
               PROVE  CPU!CpuNext \/ UNCHANGED CPU!cpuVars
    OBVIOUS
  <2>0. /\ task_state \in [Tasks -> TaskState]
        /\ current_task # NoTask => current_task \in Tasks
                                    /\ task_state[current_task] # "FREE"
    BY DEF SchedInv, TypeOK, OneRunningTask
  <2>1. CASE SchedulerRun
    BY <2>1 DEF SchedulerRun, Ready, CPU!CpuNext, CPU!Run
  <2>2. CASE \E t \in Tasks : TaskCreate(t)
    BY <2>2 DEF TaskCreate, CPU!CpuNext, CPU!Create
  <2>3. CASE \E t \in Tasks : TaskDestroyOther(t)
    <3>1. PICK t \in Tasks : TaskDestroyOther(t)
      BY <2>3
    <3>2. task_state[t] # "FREE"
      BY <3>1 DEF TaskDestroyOther, SchedInv, ListMatchesMemory
    <3>3. CPU!Destroy(t)
      BY <3>1, <3>2 DEF TaskDestroyOther, CPU!Destroy, CPU!Destroyed
    <3> QED BY <3>3 DEF CPU!CpuNext
  <2>4. CASE TaskDestroySelf
    BY <2>0, <2>4 DEF TaskDestroySelf, CPU!CpuNext, CPU!Destroy, CPU!Destroyed
  <2>5. CASE SchedulerYield
    <3>1. CPU!Switch(task_state)
      BY <2>0, <2>5, SwitchRefines DEF SchedulerYield
    <3> QED BY <2>5, <3>1 DEF SchedulerYield, CPU!CpuNext, CPU!Yield
  <2>6. CASE ExitCurrent
    <3> DEFINE st == [task_state EXCEPT ![current_task] = "DEAD"]
    <3>1. current_task \in Tasks /\ SwitchFrom(st)
      BY <2>0, <2>6 DEF ExitCurrent
    <3>2. /\ st \in [Tasks -> TaskState]
          /\ \A t \in Tasks \ {current_task} : st[t] = task_state[t]
          /\ st[current_task] # "FREE"
      BY <2>0, <3>1 DEF TaskState
    <3> HIDE DEF st
    <3>3. CPU!Switch(st)
      BY <3>1, <3>2, SwitchRefines
    <3> QED BY <2>6, <3>3 DEF st, ExitCurrent, CPU!CpuNext, CPU!Exit
  <2>7. CASE UNCHANGED schedVars
    BY <2>7 DEF schedVars, CPU!cpuVars
  <2> QED BY <2>1, <2>2, <2>3, <2>4, <2>5, <2>6, <2>7 DEF Next
<1> QED BY <1>1, <1>2, SchedulerInvariant, PTL DEF Spec, ImplementsCpu, CPU!CpuSpec
=============================================================================
