-------------------------- MODULE SupervisorProofs --------------------------
(***************************************************************************)
(* For any number of services, any budget, window and backoff: the         *)
(* supervisor's counters are exact and its restart policy is respected.    *)
(***************************************************************************)
EXTENDS Supervisor, FiniteSetTheorems, TLAPS

Entry == [state : ServiceState, pid : Nat, failures : Nat,
          first : Nat, next : Nat, stopping : BOOLEAN]

Table == [svc : [Services -> Entry], running : Nat, faulted : Nat,
          permanent : Nat, shutdown : BOOLEAN]

Up == {"STARTING", "RUNNING", "RESTARTING"}

Down == {"FAULTED", "STOPPED"}

Count(svc, Q) == Cardinality({n \in Services : svc[n].state \in Q})

Counted(s) ==
    /\ s.running = Count(s.svc, {"RUNNING"})
    /\ s.faulted = Count(s.svc, Down)
    /\ s.permanent = Count(s.svc, {"STOPPED"})

Since(x, first) == {k \in DOMAIN x : x[k] >= first}

(* What ties a supervised entry e to its process p, the exits x recorded    *)
(* for it and the clock c.  The last two conjuncts carry the backoff from   *)
(* the exit, over a kill that leaves the entry up, to the next spawn.       *)
EntryInv(e, p, x, c) ==
    /\ p = "alive" => e.state \in Up
    /\ e.state = "STOPPED" <=> (MaxRestarts # 0 /\ e.failures > MaxRestarts)
    /\ x = <<>> => e.failures = 0 /\ e.first = 0 /\ e.state \notin Down
    /\ x # <<>> =>
        /\ e.state # "EMPTY"
        /\ \A k \in DOMAIN x : x[k] <= x[Len(x)]
        /\ x[Len(x)] <= c
        /\ \E k \in DOMAIN x : x[k] = e.first
        /\ e.failures = Cardinality(Since(x, e.first))
        /\ x[Len(x)] - e.first <= RestartWindow
        /\ e.state \in Down => e.next = x[Len(x)] + Backoff(e.failures)
        /\ e.state \in Up => c >= x[Len(x)] + Backoff(e.failures)

Types ==
    /\ sup \in Table
    /\ process \in [Services -> {"none", "alive", "zombie"}]
    /\ next_pid \in Nat
    /\ clock \in Nat \ {0}
    /\ exits \in [Services -> Seq(Nat \ {0})]

SupInv ==
    /\ Types
    /\ Counted(sup)
    /\ \A n \in Services : EntryInv(sup.svc[n], process[n], exits[n], clock)

-----------------------------------------------------------------------------
(* Types is TypeOK with the table written as one record set. *)
LEMMA TypesEquivalent == Types <=> TypeOK
  <1>1. sup \in Table <=>
            /\ sup.svc \in [Services -> Entry]
            /\ sup = TableOf(sup.svc, sup.running, sup.faulted, sup.permanent, sup.shutdown)
            /\ sup.running \in Nat /\ sup.faulted \in Nat
            /\ sup.permanent \in Nat /\ sup.shutdown \in BOOLEAN
    BY DEF Table, TableOf
  <1> QED  BY <1>1 DEF Types, TypeOK, Entry

(* A shift of at most 6 keeps next_restart_tick a natural number. *)
LEMMA BackoffNat ==
    ASSUME NEW f \in Nat \ {0} PROVE Backoff(f) \in Nat
  <1> DEFINE sh == IF f > 6 THEN 6 ELSE f - 1
  <1>1. sh \in {0, 1, 2, 3, 4, 5, 6}  OBVIOUS
  <1>2. 2^0 = 1 /\ 2^1 = 2 /\ 2^2 = 4 /\ 2^3 = 8 /\ 2^4 = 16 /\ 2^5 = 32 /\ 2^6 = 64
    OBVIOUS
  <1>3. 2^sh \in {1, 2, 4, 8, 16, 32, 64}  BY <1>1, <1>2
  <1>4. \A z \in {1, 2, 4, 8, 16, 32, 64} : BaseBackoff * z \in Nat
    BY SupervisorAssumption
  <1>5. BaseBackoff * 2^sh \in Nat
    <2> HIDE DEF sh
    <2> QED  BY <1>3, <1>4
  <1> QED  BY <1>5 DEF Backoff

(* Changing the entry of one service changes a count by at most one. *)
LEMMA CountChange ==
    ASSUME NEW svc \in [Services -> Entry], NEW n \in Services, NEW e \in Entry, NEW Q
    PROVE  LET b == IF svc[n].state \in Q THEN 1 ELSE 0
               a == IF e.state \in Q THEN 1 ELSE 0
           IN  /\ Count(svc, Q) \in Nat
               /\ Count(svc, Q) >= b
               /\ Count([svc EXCEPT ![n] = e], Q) = Count(svc, Q) - b + a
  <1> DEFINE S == {m \in Services \ {n} : svc[m].state \in Q}
             A == {m \in Services : svc[m].state \in Q}
             B == {m \in Services : [svc EXCEPT ![n] = e][m].state \in Q}
  <1>1. IsFiniteSet(S) /\ Cardinality(S) \in Nat
    BY SupervisorAssumption, FS_Subset, FS_CardinalityType
  <1>2. Cardinality(S \cup {n}) = Cardinality(S) + 1
    BY <1>1, FS_AddElement
  <1>3. A = IF svc[n].state \in Q THEN S \cup {n} ELSE S
    OBVIOUS
  <1>4. B = IF e.state \in Q THEN S \cup {n} ELSE S
    OBVIOUS
  <1>5. Count(svc, Q) = Cardinality(A) /\ Count([svc EXCEPT ![n] = e], Q) = Cardinality(B)
    BY DEF Count
  <1> HIDE DEF S, A, B
  <1> QED  BY <1>1, <1>2, <1>3, <1>4, <1>5

(* The exits of a streak can be counted. *)
LEMMA SinceFinite ==
    ASSUME NEW x \in Seq(Nat \ {0}), NEW f \in Nat
    PROVE  /\ Since(x, f) \subseteq 1..Len(x)
           /\ IsFiniteSet(Since(x, f))
           /\ Cardinality(Since(x, f)) \in Nat
  <1>1. IsFiniteSet(1..Len(x))
    BY FS_Interval
  <1>2. Since(x, f) \subseteq 1..Len(x)
    BY DEF Since
  <1> QED  BY <1>1, <1>2, FS_Subset, FS_CardinalityType

(* One more exit, at a tick no earlier than the streak, adds one to it. *)
LEMMA SinceAppend ==
    ASSUME NEW x \in Seq(Nat \ {0}), NEW c \in Nat \ {0}, NEW f \in Nat, c >= f
    PROVE  Cardinality(Since(Append(x, c), f)) = Cardinality(Since(x, f)) + 1
  <1>1. Since(Append(x, c), f) = Since(x, f) \cup {Len(x) + 1}
    BY DEF Since
  <1>2. Len(x) + 1 \notin Since(x, f)
    BY SinceFinite
  <1> QED  BY <1>1, <1>2, SinceFinite, FS_AddElement

(* A table whose counters moved with the one entry that changed is counted. *)
LEMMA CountedUpdate ==
    ASSUME NEW s \in Table, Counted(s), NEW n \in Services, NEW e \in Entry,
           NEW t, t.svc = [s.svc EXCEPT ![n] = e],
           LET One(v, Q) == IF v.state \in Q THEN 1 ELSE 0
           IN  /\ t.running = s.running - One(s.svc[n], {"RUNNING"}) + One(e, {"RUNNING"})
               /\ t.faulted = s.faulted - One(s.svc[n], Down) + One(e, Down)
               /\ t.permanent = s.permanent - One(s.svc[n], {"STOPPED"}) + One(e, {"STOPPED"})
    PROVE  Counted(t) /\ t.running \in Nat /\ t.faulted \in Nat /\ t.permanent \in Nat
  <1>1. s.svc \in [Services -> Entry]  BY DEF Table
  <1>2. /\ Count(s.svc, {"RUNNING"}) \in Nat
        /\ Count(s.svc, {"RUNNING"}) >= IF s.svc[n].state \in {"RUNNING"} THEN 1 ELSE 0
        /\ Count(t.svc, {"RUNNING"}) = Count(s.svc, {"RUNNING"})
                - (IF s.svc[n].state \in {"RUNNING"} THEN 1 ELSE 0)
                + (IF e.state \in {"RUNNING"} THEN 1 ELSE 0)
    BY <1>1, CountChange
  <1>3. /\ Count(s.svc, Down) \in Nat
        /\ Count(s.svc, Down) >= IF s.svc[n].state \in Down THEN 1 ELSE 0
        /\ Count(t.svc, Down) = Count(s.svc, Down)
                - (IF s.svc[n].state \in Down THEN 1 ELSE 0)
                + (IF e.state \in Down THEN 1 ELSE 0)
    BY <1>1, CountChange
  <1>4. /\ Count(s.svc, {"STOPPED"}) \in Nat
        /\ Count(s.svc, {"STOPPED"}) >= IF s.svc[n].state \in {"STOPPED"} THEN 1 ELSE 0
        /\ Count(t.svc, {"STOPPED"}) = Count(s.svc, {"STOPPED"})
                - (IF s.svc[n].state \in {"STOPPED"} THEN 1 ELSE 0)
                + (IF e.state \in {"STOPPED"} THEN 1 ELSE 0)
    BY <1>1, CountChange
  <1> QED  BY <1>2, <1>3, <1>4 DEF Counted

(* A counter that counts the entry's state is not zero: Less() subtracts.   *)
LEMMA CountedPositive ==
    ASSUME NEW s \in Table, Counted(s), NEW n \in Services
    PROVE  /\ s.svc[n].state = "RUNNING" => s.running > 0
           /\ s.svc[n].state \in Down => s.faulted > 0
  <1>1. s.svc \in [Services -> Entry] /\ s.svc[n] \in Entry  BY DEF Table
  <1>2. \A Q : /\ Count(s.svc, Q) \in Nat
               /\ Count(s.svc, Q) >= IF s.svc[n].state \in Q THEN 1 ELSE 0
    BY <1>1, CountChange
  <1> QED  BY <1>2 DEF Counted

(* What a registration does to the table. *)
Registered(s, n, p, t) ==
    /\ t \in Table
    /\ Counted(t)
    /\ \A m \in Services \ {n} : t.svc[m] = s.svc[m]
    /\ t.svc[n].state \in {"STARTING", "RESTARTING"}
    /\ t.svc[n].pid = p
    /\ s.svc[n].state # "EMPTY" =>
         /\ t.svc[n].failures = s.svc[n].failures
         /\ t.svc[n].first = s.svc[n].first
         /\ t.svc[n].stopping = s.svc[n].stopping
    /\ s.svc[n].state = "EMPTY" => t.svc[n].failures = 0 /\ t.svc[n].first = 0
    /\ t.shutdown = s.shutdown

(* service_supervisor_native_register_starting() of a service that is not   *)
(* permanently stopped keeps the counters exact.                            *)
LEMMA RegisterCounted ==
    ASSUME NEW s \in Table, Counted(s), NEW n \in Services, NEW p \in Nat,
           s.svc[n].state # "STOPPED"
    PROVE  Registered(s, n, p, RegisterStarting(s, n, p))
  <1> DEFINE t == RegisterStarting(s, n, p)
             was == s.svc[n]
             e == IF was.state = "EMPTY" THEN EntryOf("STARTING", p, 0, 0, 0, FALSE)
                  ELSE EntryOf(Restarted(was.state), p, was.failures, was.first,
                               was.next, was.stopping)
  <1>1. s.svc \in [Services -> Entry] /\ was \in Entry  BY DEF Table
  <1>2. /\ e \in Entry /\ e.state \in {"STARTING", "RESTARTING"} /\ e.pid = p
        /\ was.state # "EMPTY" => /\ e.failures = was.failures
                                  /\ e.first = was.first
                                  /\ e.stopping = was.stopping
        /\ was.state = "EMPTY" => e.failures = 0 /\ e.first = 0
    BY <1>1 DEF Entry, EntryOf, Restarted, ServiceState
  <1>3. /\ t.svc = [s.svc EXCEPT ![n] = e]
        /\ t.running = LessIf(was.state = "RUNNING", s.running)
        /\ t.faulted = LessIf(was.state = "FAULTED", s.faulted)
        /\ t.permanent = s.permanent
        /\ t.shutdown = s.shutdown
        /\ t = TableOf(t.svc, t.running, t.faulted, t.permanent, t.shutdown)
    BY DEF RegisterStarting, TableOf
  <1> HIDE DEF t, e
  <1>4. Counted(t) /\ t.running \in Nat /\ t.faulted \in Nat /\ t.permanent \in Nat
    <2>1. s.running \in Nat /\ s.faulted \in Nat /\ s.permanent \in Nat
      BY DEF Table
    <2>2. t.running = s.running - (IF was.state \in {"RUNNING"} THEN 1 ELSE 0)
                                + (IF e.state \in {"RUNNING"} THEN 1 ELSE 0)
      <3>1. was.state = "RUNNING" => s.running > 0
        BY CountedPositive
      <3>2. e.state \notin {"RUNNING"}
        BY <1>2
      <3> QED  BY <1>3, <2>1, <3>1, <3>2 DEF LessIf
    <2>3. t.faulted = s.faulted - (IF was.state \in Down THEN 1 ELSE 0)
                                + (IF e.state \in Down THEN 1 ELSE 0)
      <3>1. was.state \in Down => was.state = "FAULTED" /\ s.faulted > 0
        BY CountedPositive DEF Down
      <3>2. e.state \notin Down
        BY <1>2 DEF Down
      <3>3. was.state = "FAULTED" => was.state \in Down
        BY DEF Down
      <3> QED  BY <1>3, <2>1, <3>1, <3>2, <3>3 DEF LessIf
    <2>4. t.permanent = s.permanent - (IF was.state \in {"STOPPED"} THEN 1 ELSE 0)
                                    + (IF e.state \in {"STOPPED"} THEN 1 ELSE 0)
      BY <1>2, <1>3, <2>1
    <2>5. e \in Entry /\ t.svc = [s.svc EXCEPT ![n] = e]
      BY <1>2, <1>3
    <2> HIDE DEF was
    <2> QED  BY <2>2, <2>3, <2>4, <2>5, CountedUpdate DEF was
  <1>5. t \in Table
    BY <1>1, <1>2, <1>3, <1>4 DEF Table, TableOf
  <1>6. t.svc[n] = e /\ \A m \in Services \ {n} : t.svc[m] = s.svc[m]
    BY <1>1, <1>3
  <1> QED  BY <1>2, <1>3, <1>4, <1>5, <1>6 DEF t, Registered

(* What noting a restart does to the table. *)
Noted(s, n, p, t) ==
    /\ t \in Table
    /\ Counted(t)
    /\ \A m \in Services \ {n} : t.svc[m] = s.svc[m]
    /\ t.svc[n].state \in {"STARTING", "RESTARTING"}
    /\ t.svc[n].pid = p
    /\ t.svc[n].failures = s.svc[n].failures
    /\ t.svc[n].first = s.svc[n].first

(* service_supervisor_note_restart() after a registration that left the     *)
(* service STARTING or RESTARTING moves no counter.                         *)
LEMMA NoteCounted ==
    ASSUME NEW s \in Table, Counted(s), NEW n \in Services, NEW p \in Nat, NEW now \in Nat,
           s.svc[n].state \in {"STARTING", "RESTARTING"}, s.svc[n].pid = p
    PROVE  Noted(s, n, p, NoteRestart(s, n, p, now))
  <1> DEFINE t == NoteRestart(s, n, p, now)
             was == s.svc[n]
             e == EntryOf("RESTARTING", p, was.failures, was.first, now, was.stopping)
  <1>1. CASE ~Known(s, n) \/ s.shutdown \/ was.stopping
    BY <1>1 DEF NoteRestart, Noted
  <1>2. CASE ~(~Known(s, n) \/ s.shutdown \/ was.stopping)
    <2>1. s.svc \in [Services -> Entry] /\ was \in Entry  BY DEF Table
    <2>2. /\ e \in Entry /\ e.state = "RESTARTING" /\ e.pid = p
          /\ e.failures = was.failures /\ e.first = was.first
      BY <2>1 DEF Entry, EntryOf, ServiceState
    <2>3. /\ t.svc = [s.svc EXCEPT ![n] = e]
          /\ t.running = s.running
          /\ t.faulted = s.faulted
          /\ t.permanent = s.permanent
          /\ t.shutdown = s.shutdown
          /\ t = TableOf(t.svc, t.running, t.faulted, t.permanent, t.shutdown)
      BY <1>2 DEF NoteRestart, TableOf, LessIf
    <2> HIDE DEF t, e
    <2>4. Counted(t) /\ t.running \in Nat /\ t.faulted \in Nat /\ t.permanent \in Nat
      BY <2>1, <2>2, <2>3, CountedUpdate DEF Down, Table
    <2>5. t \in Table
      BY <2>1, <2>2, <2>3, <2>4 DEF Table, TableOf
    <2>6. t.svc[n] = e /\ \A m \in Services \ {n} : t.svc[m] = s.svc[m]
      BY <2>1, <2>3
    <2> QED  BY <2>2, <2>4, <2>5, <2>6 DEF t, Noted
  <1> QED  BY <1>1, <1>2

(* What a ready report does to the table. *)
Readied(s, n, t) ==
    /\ t \in Table
    /\ Counted(t)
    /\ \A m \in Services \ {n} : t.svc[m] = s.svc[m]
    /\ t.svc[n].state = "RUNNING"
    /\ t.svc[n].pid = s.svc[n].pid
    /\ t.svc[n].failures = s.svc[n].failures
    /\ t.svc[n].first = s.svc[n].first
    /\ t.svc[n].next = s.svc[n].next

(* service_supervisor_native_mark_running() of a service that is up counts  *)
(* it as running exactly once.                                              *)
LEMMA RunningCounted ==
    ASSUME NEW s \in Table, Counted(s), NEW n \in Services, s.svc[n].state \in Up
    PROVE  Readied(s, n, MarkRunning(s, n, s.svc[n].pid))
  <1> DEFINE was == s.svc[n]
             t == MarkRunning(s, n, was.pid)
             e == EntryOf("RUNNING", was.pid, was.failures, was.first, was.next, was.stopping)
  <1>1. s.svc \in [Services -> Entry] /\ was \in Entry  BY DEF Table
  <1>2. /\ e \in Entry /\ e.state = "RUNNING" /\ e.pid = was.pid
        /\ e.failures = was.failures /\ e.first = was.first /\ e.next = was.next
    BY <1>1 DEF Entry, EntryOf, ServiceState
  <1>3. /\ t.svc = [s.svc EXCEPT ![n] = e]
        /\ t.running = IF was.state # "RUNNING" THEN s.running + 1 ELSE s.running
        /\ t.faulted = s.faulted
        /\ t.permanent = s.permanent
        /\ t.shutdown = s.shutdown
        /\ t = TableOf(t.svc, t.running, t.faulted, t.permanent, t.shutdown)
    BY DEF MarkRunning, TableOf, LessIf, Up
  <1> HIDE DEF t, e
  <1>4. Counted(t) /\ t.running \in Nat /\ t.faulted \in Nat /\ t.permanent \in Nat
    BY <1>1, <1>2, <1>3, CountedUpdate DEF Down, Up, Table
  <1>5. t \in Table
    BY <1>1, <1>2, <1>3, <1>4 DEF Table, TableOf
  <1>6. t.svc[n] = e /\ \A m \in Services \ {n} : t.svc[m] = s.svc[m]
    BY <1>1, <1>3
  <1> QED  BY <1>2, <1>4, <1>5, <1>6 DEF t, Readied

(* The streak length service_supervisor_native_mark_exit() computes. *)
ExitFailures(e, now) ==
    IF e.first = 0 \/ now - e.first > RestartWindow THEN 1 ELSE e.failures + 1

(* What an exit at tick now does to the table. *)
Exited(s, n, now, t) ==
    LET f == ExitFailures(s.svc[n], now)
    IN  /\ t \in Table
        /\ Counted(t)
        /\ \A m \in Services \ {n} : t.svc[m] = s.svc[m]
        /\ t.svc[n].state = IF MaxRestarts # 0 /\ f > MaxRestarts
                            THEN "STOPPED" ELSE "FAULTED"
        /\ t.svc[n].pid = s.svc[n].pid
        /\ t.svc[n].failures = f
        /\ t.svc[n].first = IF s.svc[n].first = 0 \/ now - s.svc[n].first > RestartWindow
                            THEN now ELSE s.svc[n].first
        /\ t.svc[n].next = now + Backoff(f)

(* service_supervisor_native_mark_exit() of a service that is up counts it  *)
(* as faulted, and as permanently faulted when the budget is spent.         *)
LEMMA ExitCounted ==
    ASSUME NEW s \in Table, Counted(s), NEW n \in Services, s.svc[n].state \in Up,
           NEW now \in Nat \ {0}
    PROVE  Exited(s, n, now, MarkExit(s, n, s.svc[n].pid, now))
  <1> DEFINE was == s.svc[n]
             t == MarkExit(s, n, was.pid, now)
             f == ExitFailures(was, now)
             over == MaxRestarts # 0 /\ f > MaxRestarts
             first == IF was.first = 0 \/ now - was.first > RestartWindow
                      THEN now ELSE was.first
             e == EntryOf(IF over THEN "STOPPED" ELSE "FAULTED", was.pid, f, first,
                          now + Backoff(f), was.stopping)
  <1>1. s.svc \in [Services -> Entry] /\ was \in Entry  BY DEF Table
  <1>2. f \in Nat \ {0} /\ first \in Nat
    BY <1>1, SupervisorAssumption DEF Entry, ExitFailures
  <1>3. now + Backoff(f) \in Nat
    <2> HIDE DEF f
    <2> QED  BY <1>2, BackoffNat
  <1>4. /\ t.svc = [s.svc EXCEPT ![n] = e]
        /\ t.running = LessIf(was.state = "RUNNING", s.running)
        /\ t.faulted = s.faulted + 1
        /\ t.permanent = IF over THEN s.permanent + 1 ELSE s.permanent
        /\ t.shutdown = s.shutdown
        /\ t = TableOf(t.svc, t.running, t.faulted, t.permanent, t.shutdown)
    BY DEF MarkExit, TableOf, Up, ExitFailures
  <1> HIDE DEF t, f, first
  <1>5. /\ e \in Entry /\ e.pid = was.pid /\ e.failures = f /\ e.first = first
        /\ e.state = IF over THEN "STOPPED" ELSE "FAULTED"
        /\ e.next = now + Backoff(f)
    BY <1>1, <1>2, <1>3 DEF Entry, EntryOf, ServiceState
  <1> HIDE DEF e, over
  <1>6. Counted(t) /\ t.running \in Nat /\ t.faulted \in Nat /\ t.permanent \in Nat
    <2>1. s.running \in Nat /\ s.faulted \in Nat /\ s.permanent \in Nat
      BY DEF Table
    <2>2. t.running = s.running - (IF was.state \in {"RUNNING"} THEN 1 ELSE 0)
                                + (IF e.state \in {"RUNNING"} THEN 1 ELSE 0)
      <3>1. was.state = "RUNNING" => s.running > 0
        BY CountedPositive
      <3>2. e.state \notin {"RUNNING"}
        BY <1>5
      <3> QED  BY <1>4, <2>1, <3>1, <3>2 DEF LessIf
    <2>3. t.faulted = s.faulted - (IF was.state \in Down THEN 1 ELSE 0)
                                + (IF e.state \in Down THEN 1 ELSE 0)
      BY <1>4, <1>5, <2>1 DEF Down, Up
    <2>4. t.permanent = s.permanent - (IF was.state \in {"STOPPED"} THEN 1 ELSE 0)
                                    + (IF e.state \in {"STOPPED"} THEN 1 ELSE 0)
      BY <1>4, <1>5, <2>1 DEF Up
    <2>5. e \in Entry /\ t.svc = [s.svc EXCEPT ![n] = e]
      BY <1>4, <1>5
    <2> HIDE DEF was
    <2> QED  BY <2>2, <2>3, <2>4, <2>5, CountedUpdate DEF was
  <1>7. t \in Table
    BY <1>1, <1>4, <1>5, <1>6 DEF Table, TableOf
  <1>8. t.svc[n] = e /\ \A m \in Services \ {n} : t.svc[m] = s.svc[m]
    BY <1>1, <1>4
  <1> QED  BY <1>5, <1>6, <1>7, <1>8 DEF t, f, over, first, Exited

-----------------------------------------------------------------------------
(* An exit at tick c extends the streak or starts a new one. *)
LEMMA EntryExit ==
    ASSUME NEW e \in Entry, NEW x \in Seq(Nat \ {0}), NEW c \in Nat \ {0},
           EntryInv(e, "alive", x, c), NEW d \in Entry,
           d.state = IF MaxRestarts # 0 /\ d.failures > MaxRestarts
                     THEN "STOPPED" ELSE "FAULTED",
           d.failures = ExitFailures(e, c),
           d.first = IF e.first = 0 \/ c - e.first > RestartWindow THEN c ELSE e.first,
           d.next = c + Backoff(d.failures)
    PROVE  EntryInv(d, "zombie", Append(x, c), c)
  <1> DEFINE y == Append(x, c)
  <1>1. y \in Seq(Nat \ {0}) /\ y # <<>> /\ Len(y) = Len(x) + 1 /\ y[Len(y)] = c
    OBVIOUS
  <1>2. \A k \in DOMAIN x : x[k] <= c /\ x[k] \in Nat \ {0} /\ y[k] = x[k] /\ k \in DOMAIN y
    <2>1. CASE x = <<>>  BY <2>1
    <2>2. CASE x # <<>>
      <3>1. Len(x) \in DOMAIN x  BY <2>2
      <3> QED  BY <2>2, <3>1 DEF EntryInv
    <2> QED  BY <2>1, <2>2
  <1>3. \A k \in DOMAIN y : y[k] <= c
    BY <1>2
  <1>4. e.first \in Nat /\ e.failures \in Nat /\ RestartWindow \in Nat
    BY SupervisorAssumption DEF Entry
  <1>5. /\ d.failures = Cardinality(Since(y, d.first))
        /\ \E k \in DOMAIN y : y[k] = d.first
        /\ y[Len(y)] - d.first <= RestartWindow
    <2>1. CASE e.first = 0 \/ c - e.first > RestartWindow
      <3>1. d.first = c /\ d.failures = 1
        BY <2>1 DEF ExitFailures
      <3>2. \A k \in DOMAIN x : x[k] < c
        <4>1. CASE x = <<>>  BY <4>1
        <4>2. CASE x # <<>>
          <5>1. PICK j \in DOMAIN x : x[j] = e.first
            BY <4>2 DEF EntryInv
          <5>2. e.first # 0  BY <5>1
          <5>3. \A k \in DOMAIN x : x[k] <= x[Len(x)]
            BY <4>2 DEF EntryInv
          <5>4. x[Len(x)] - e.first <= RestartWindow /\ x[Len(x)] \in Nat
            BY <4>2 DEF EntryInv
          <5> QED  BY <1>2, <1>4, <2>1, <5>2, <5>3, <5>4
        <4> QED  BY <4>1, <4>2
      <3>3. Since(y, d.first) = {Len(x) + 1}
        BY <1>1, <3>1, <3>2 DEF Since
      <3>4. Cardinality(Since(y, d.first)) = 1
        BY <3>3, FS_Singleton
      <3>5. \E k \in DOMAIN y : y[k] = d.first
        BY <1>1, <3>1
      <3>6. y[Len(y)] - d.first <= RestartWindow
        BY <1>1, <1>4, <3>1
      <3> QED  BY <3>1, <3>4, <3>5, <3>6
    <2>2. CASE ~(e.first = 0 \/ c - e.first > RestartWindow)
      <3>1. d.first = e.first /\ d.failures = e.failures + 1 /\ e.first # 0
        BY <2>2 DEF ExitFailures
      <3>2. x # <<>>
        BY <3>1 DEF EntryInv
      <3>3. PICK j \in DOMAIN x : x[j] = e.first
        BY <3>2 DEF EntryInv
      <3>4. c >= e.first
        BY <1>2, <3>3
      <3>5. e.failures = Cardinality(Since(x, e.first))
        BY <3>2 DEF EntryInv
      <3>6. d.failures = Cardinality(Since(y, d.first))
        BY <1>4, <3>1, <3>4, <3>5, SinceAppend
      <3>7. \E k \in DOMAIN y : y[k] = d.first
        BY <1>2, <3>1, <3>3
      <3>8. y[Len(y)] - d.first <= RestartWindow
        BY <1>1, <1>4, <2>2, <3>1
      <3> QED  BY <3>6, <3>7, <3>8
    <2> QED  BY <2>1, <2>2
  <1> HIDE DEF y
  <1>6. d.state \in Down /\ d.state \notin Up /\ d.state # "EMPTY"
    BY DEF Down, Up
  <1>7. d.state = "STOPPED" <=> (MaxRestarts # 0 /\ d.failures > MaxRestarts)
    OBVIOUS
  <1>8. d.next = y[Len(y)] + Backoff(d.failures) /\ y[Len(y)] <= c
    BY <1>1
  <1>9. \A k \in DOMAIN y : y[k] <= y[Len(y)]
    BY <1>1, <1>3
  <1>10. EntryInv(d, "zombie", y, c)
    BY <1>1, <1>5, <1>6, <1>7, <1>8, <1>9, Zenon DEF EntryInv
  <1> QED  BY <1>10 DEF y

(* A spawn that the backoff allows brings the entry up. *)
LEMMA EntrySpawn ==
    ASSUME NEW e \in Entry, NEW x \in Seq(Nat \ {0}), NEW c \in Nat \ {0}, NEW p,
           EntryInv(e, p, x, c), e.state # "STOPPED",
           e.state # "EMPTY" => c >= e.next,
           NEW d \in Entry, d.state \in {"STARTING", "RESTARTING"},
           e.state # "EMPTY" => d.failures = e.failures /\ d.first = e.first,
           e.state = "EMPTY" => d.failures = 0 /\ d.first = 0
    PROVE  EntryInv(d, "alive", x, c)
  <1>1. MaxRestarts \in Nat /\ e.failures \in Nat
    BY SupervisorAssumption DEF Entry
  <1>2. CASE x = <<>>
    BY <1>1, <1>2 DEF EntryInv, Up, Down
  <1>3. CASE x # <<>>
    <2>1. e.state # "EMPTY" /\ d.failures = e.failures /\ d.first = e.first /\ c >= e.next
      BY <1>3 DEF EntryInv
    <2>2. c >= x[Len(x)] + Backoff(e.failures)
      BY <1>3, <2>1 DEF EntryInv, Up, Down, Entry, ServiceState
    <2> QED  BY <1>3, <2>1, <2>2 DEF EntryInv, Up, Down
  <1> QED  BY <1>2, <1>3

(* The clock may advance and the process may end without the entry. *)
LEMMA EntryLater ==
    ASSUME NEW e \in Entry, NEW x \in Seq(Nat \ {0}), NEW c \in Nat \ {0}, NEW p,
           EntryInv(e, p, x, c), NEW c2 \in Nat \ {0}, c2 >= c,
           NEW p2, p2 = "alive" => p = "alive"
    PROVE  EntryInv(e, p2, x, c2)
  <1>1. CASE x = <<>>
    BY <1>1 DEF EntryInv
  <1>2. CASE x # <<>>
    <2>1. x[Len(x)] \in Nat
      BY <1>2
    <2>2. e.failures # 0
      <3>1. PICK k \in DOMAIN x : x[k] = e.first
        BY <1>2 DEF EntryInv
      <3>2. k \in Since(x, e.first) /\ e.first \in Nat
        BY <3>1 DEF Since
      <3>3. IsFiniteSet(Since(x, e.first)) /\ Cardinality(Since(x, e.first)) \in Nat
        BY <3>2, SinceFinite
      <3>4. Cardinality(Since(x, e.first)) # 0
        BY <3>2, <3>3, FS_EmptySet
      <3> QED  BY <1>2, <3>4 DEF EntryInv
    <2>3. Backoff(e.failures) \in Nat
      BY <2>2, BackoffNat DEF Entry
    <2> QED  BY <1>2, <2>1, <2>3 DEF EntryInv
  <1> QED  BY <1>1, <1>2

-----------------------------------------------------------------------------
(* An empty table with no processes. *)
LEMMA InitEstablishesInv == Init => SupInv
  <1> SUFFICES ASSUME Init PROVE SupInv
    OBVIOUS
  <1> USE DEF Init, EmptyTable, NoService, TableOf, EntryOf
  <1>1. NoService \in Entry
    BY DEF Entry, ServiceState
  <1>2. sup \in Table /\ \A n \in Services : sup.svc[n] = NoService
    BY <1>1 DEF Table
  <1>3. \A Q : "EMPTY" \notin Q => Count(sup.svc, Q) = 0
    <2> TAKE Q
    <2> HAVE "EMPTY" \notin Q
    <2>1. {n \in Services : sup.svc[n].state \in Q} = {}
      BY <1>2
    <2> QED  BY <2>1, FS_EmptySet DEF Count
  <1>4. Counted(sup)
    BY <1>3 DEF Counted, Down
  <1>5. EntryInv(NoService, "none", <<>>, 1)
    BY SupervisorAssumption DEF EntryInv, Down
  <1>6. Types
    BY <1>2 DEF Types
  <1> QED  BY <1>2, <1>4, <1>5, <1>6 DEF SupInv

(* sys_spawn() *)
LEMMA SpawnPreservesInv ==
    ASSUME SupInv, NEW n \in Services, Spawn(n)
    PROVE  SupInv' /\ sup'.svc[n].state \in {"STARTING", "RESTARTING"}
  <1> DEFINE r == RegisterStarting(sup, n, next_pid)
             e == sup.svc[n]
             d == sup'.svc[n]
  <1>1. sup \in Table /\ Counted(sup) /\ next_pid \in Nat /\ clock \in Nat /\ e \in Entry
    BY DEF SupInv, Types, Table
  <1>2. e.state # "STOPPED" /\ (e.state # "EMPTY" => clock >= e.next)
    BY DEF Spawn, Known, RestartAllowed
  <1>3. /\ r \in Table /\ Counted(r)
        /\ \A m \in Services \ {n} : r.svc[m] = sup.svc[m]
        /\ r.svc[n].state \in {"STARTING", "RESTARTING"} /\ r.svc[n].pid = next_pid
        /\ e.state # "EMPTY" => r.svc[n].failures = e.failures /\ r.svc[n].first = e.first
        /\ e.state = "EMPTY" => r.svc[n].failures = 0 /\ r.svc[n].first = 0
    <2>1. Registered(sup, n, next_pid, r)
      BY <1>1, <1>2, RegisterCounted
    <2> HIDE DEF r
    <2> QED  BY <2>1 DEF Registered
  <1>4. sup' = r \/ sup' = NoteRestart(r, n, next_pid, clock)
    BY DEF Spawn
  <1> HIDE DEF r
  <1>5. /\ sup' \in Table /\ Counted(sup')
        /\ \A m \in Services \ {n} : sup'.svc[m] = sup.svc[m]
        /\ d.state \in {"STARTING", "RESTARTING"}
        /\ e.state # "EMPTY" => d.failures = e.failures /\ d.first = e.first
        /\ e.state = "EMPTY" => d.failures = 0 /\ d.first = 0
    <2>1. sup' = r \/ Noted(r, n, next_pid, sup')
      BY <1>1, <1>3, <1>4, NoteCounted
    <2>2. CASE sup' = r
      BY <1>3, <2>2
    <2>3. CASE Noted(r, n, next_pid, sup')
      BY <1>3, <2>3 DEF Noted
    <2> QED  BY <2>1, <2>2, <2>3
  <1>6. Types'
    <2>1. /\ process \in [Services -> {"none", "alive", "zombie"}] /\ next_pid \in Nat
          /\ clock \in Nat \ {0} /\ exits \in [Services -> Seq(Nat \ {0})]
      BY DEF SupInv, Types
    <2>2. process' = [process EXCEPT ![n] = "alive"] /\ next_pid' = next_pid + 1
              /\ clock' = clock /\ exits' = exits
      BY DEF Spawn
    <2>3. process' \in [Services -> {"none", "alive", "zombie"}] /\ next_pid' \in Nat
      BY <2>1, <2>2
    <2> QED  BY <1>5, <2>1, <2>2, <2>3 DEF Types
  <1>7. EntryInv(d, "alive", exits[n], clock)
    <2>1. d \in Entry  BY <1>5 DEF Table
    <2>2. EntryInv(e, process[n], exits[n], clock) /\ exits[n] \in Seq(Nat \ {0})
              /\ clock \in Nat \ {0}
      BY DEF SupInv, Types
    <2> QED  BY <1>1, <1>2, <1>5, <2>1, <2>2, EntrySpawn
  <1>8. \A m \in Services : EntryInv(sup'.svc[m], process'[m], exits'[m], clock')
    BY <1>5, <1>7 DEF SupInv, Types, Spawn
  <1>9. Counted(sup)'
    BY <1>5 DEF Counted, Count
  <1> QED  BY <1>5, <1>6, <1>8, <1>9 DEF SupInv

(* sys_service_ready() *)
LEMMA ReadyPreservesInv ==
    ASSUME SupInv, NEW n \in Services, ServiceReady(n)
    PROVE  SupInv' /\ sup'.svc[n].pid = sup.svc[n].pid
  <1> DEFINE e == sup.svc[n]
             d == sup'.svc[n]
  <1>1. sup \in Table /\ Counted(sup) /\ e \in Entry /\ e.state \in Up
    BY DEF SupInv, Types, Table, EntryInv, ServiceReady
  <1>2. /\ sup' \in Table /\ Counted(sup')
        /\ \A m \in Services \ {n} : sup'.svc[m] = sup.svc[m]
        /\ d.state = "RUNNING" /\ d.pid = e.pid /\ d.failures = e.failures
        /\ d.first = e.first /\ d.next = e.next
    <2>1. Readied(sup, n, sup')
      BY <1>1, RunningCounted DEF ServiceReady
    <2> QED  BY <2>1 DEF Readied
  <1>3. Types'
    BY <1>2 DEF SupInv, Types, ServiceReady
  <1>4. EntryInv(d, process[n], exits[n], clock)
    <2>1. EntryInv(e, process[n], exits[n], clock)
      BY DEF SupInv
    <2>2. e.state # "STOPPED" /\ d.state \in Up /\ d.state \notin Down /\ d.state # "STOPPED"
      BY <1>1, <1>2 DEF Up, Down
    <2> QED  BY <1>1, <1>2, <2>1, <2>2 DEF EntryInv
  <1>5. \A m \in Services : EntryInv(sup'.svc[m], process'[m], exits'[m], clock')
    BY <1>2, <1>4 DEF SupInv, Types, ServiceReady
  <1>6. Counted(sup)'
    BY <1>2 DEF Counted, Count
  <1> QED  BY <1>2, <1>3, <1>5, <1>6 DEF SupInv

(* process_exit() *)
LEMMA ExitPreservesInv ==
    ASSUME SupInv, NEW n \in Services, ProcessExit(n)
    PROVE  SupInv' /\ sup'.svc[n].pid = sup.svc[n].pid
  <1> DEFINE e == sup.svc[n]
             d == sup'.svc[n]
             f == ExitFailures(e, clock)
  <1>1. sup \in Table /\ Counted(sup) /\ e \in Entry /\ e.state \in Up /\ clock \in Nat \ {0}
    BY DEF SupInv, Types, Table, EntryInv, ProcessExit
  <1>2. /\ sup' \in Table /\ Counted(sup')
        /\ \A m \in Services \ {n} : sup'.svc[m] = sup.svc[m]
        /\ d.state = IF MaxRestarts # 0 /\ f > MaxRestarts THEN "STOPPED" ELSE "FAULTED"
        /\ d.pid = e.pid
        /\ d.failures = f
        /\ d.first = IF e.first = 0 \/ clock - e.first > RestartWindow THEN clock ELSE e.first
        /\ d.next = clock + Backoff(f)
    <2>1. Exited(sup, n, clock, sup')
      BY <1>1, ExitCounted DEF ProcessExit
    <2> HIDE DEF f
    <2> QED  BY <2>1 DEF Exited, f
  <1>3. Types'
    <2>1. Append(exits[n], clock) \in Seq(Nat \ {0})
      BY <1>1 DEF SupInv, Types
    <2>2. exits' \in [Services -> Seq(Nat \ {0})]
      BY <2>1 DEF SupInv, Types, ProcessExit
    <2>3. process' \in [Services -> {"none", "alive", "zombie"}]
      BY DEF SupInv, Types, ProcessExit
    <2> QED  BY <1>2, <2>2, <2>3 DEF SupInv, Types, ProcessExit
  <1>4. EntryInv(d, "zombie", Append(exits[n], clock), clock)
    <2>1. EntryInv(e, "alive", exits[n], clock) /\ exits[n] \in Seq(Nat \ {0})
      BY DEF SupInv, Types, ProcessExit
    <2>2. d \in Entry
      BY <1>2 DEF Table
    <2> HIDE DEF f
    <2> QED  BY <1>1, <1>2, <2>1, <2>2, EntryExit DEF f
  <1>5. \A m \in Services : EntryInv(sup'.svc[m], process'[m], exits'[m], clock')
    BY <1>2, <1>4 DEF SupInv, Types, ProcessExit
  <1>6. Counted(sup)'
    BY <1>2 DEF Counted, Count
  <1> QED  BY <1>2, <1>3, <1>5, <1>6 DEF SupInv

(* process_kill(), process_wait() and the passing of time leave the table   *)
(* alone; no process comes alive.                                           *)
LEMMA OthersPreserveInv ==
    ASSUME SupInv,
           \/ \E n \in Services : ProcessKill(n) \/ ProcessWait(n)
           \/ Tick
           \/ UNCHANGED vars
    PROVE  SupInv' /\ sup' = sup /\ \A n \in Services : process'[n] = "alive" => process[n] = "alive"
  <1>1. /\ sup' = sup /\ exits' = exits
        /\ clock' \in Nat \ {0} /\ clock' >= clock
        /\ Types'
        /\ \A n \in Services : process'[n] = "alive" => process[n] = "alive"
    <2>1. CASE \E n \in Services : ProcessKill(n) \/ ProcessWait(n)
      <3>1. PICK n \in Services : ProcessKill(n) \/ ProcessWait(n)
        BY <2>1
      <3>2. /\ process' = [process EXCEPT ![n] = "zombie"] \/ process' = [process EXCEPT ![n] = "none"]
            /\ UNCHANGED <<sup, next_pid, clock, exits>>
        BY <3>1 DEF ProcessKill, ProcessWait
      <3>3. /\ process' \in [Services -> {"none", "alive", "zombie"}]
            /\ \A m \in Services : process'[m] = "alive" => process[m] = "alive"
        BY <3>2 DEF SupInv, Types
      <3>4. clock \in Nat \ {0}
        BY DEF SupInv, Types
      <3> QED  BY <3>2, <3>3, <3>4 DEF SupInv, Types
    <2>2. CASE Tick
      BY <2>2 DEF SupInv, Types, Tick
    <2>3. CASE UNCHANGED vars
      BY <2>3 DEF SupInv, Types, vars
    <2> QED  BY <2>1, <2>2, <2>3
  <1>2. \A n \in Services : EntryInv(sup'.svc[n], process'[n], exits'[n], clock')
    <2> TAKE n \in Services
    <2>1. /\ EntryInv(sup.svc[n], process[n], exits[n], clock)
          /\ sup.svc[n] \in Entry /\ exits[n] \in Seq(Nat \ {0}) /\ clock \in Nat \ {0}
      BY DEF SupInv, Types, Table
    <2> QED  BY <1>1, <2>1, EntryLater
  <1>3. Counted(sup)'
    BY <1>1 DEF SupInv, Counted, Count
  <1> QED  BY <1>1, <1>2, <1>3 DEF SupInv

(* service_supervisor_begin_shutdown() *)
LEMMA ShutdownPreservesInv ==
    ASSUME SupInv, Shutdown
    PROVE  SupInv' /\ \A n \in Services : sup'.svc[n].pid = sup.svc[n].pid
  <1> DEFINE stop(n) == EntryOf(sup.svc[n].state, sup.svc[n].pid, sup.svc[n].failures,
                                sup.svc[n].first, sup.svc[n].next,
                                sup.svc[n].stopping \/ Known(sup, n))
  <1>1. \A n \in Services : sup.svc[n] \in Entry
    BY DEF SupInv, Types, Table
  <1>2. \A n \in Services :
            /\ stop(n) \in Entry
            /\ stop(n).state = sup.svc[n].state /\ stop(n).pid = sup.svc[n].pid
            /\ stop(n).failures = sup.svc[n].failures
            /\ stop(n).first = sup.svc[n].first /\ stop(n).next = sup.svc[n].next
    BY <1>1 DEF Entry, EntryOf
  <1>3. /\ sup' = TableOf(sup'.svc, sup.running, sup.faulted, sup.permanent, TRUE)
        /\ sup'.svc = [n \in Services |-> stop(n)]
    BY DEF Shutdown, BeginShutdown, TableOf
  <1> HIDE DEF stop
  <1>4. \A n \in Services : sup'.svc[n] = stop(n)
    BY <1>3
  <1>5. sup' \in Table
    <2>1. sup'.svc \in [Services -> Entry]
      BY <1>2, <1>3
    <2>2. sup.running \in Nat /\ sup.faulted \in Nat /\ sup.permanent \in Nat
      BY DEF SupInv, Types, Table
    <2>3. \A v \in [Services -> Entry] :
            TableOf(v, sup.running, sup.faulted, sup.permanent, TRUE) \in Table
      BY <2>2 DEF Table, TableOf
    <2> QED  BY <1>3, <2>1, <2>3
  <1>6. \A Q : Count(sup'.svc, Q) = Count(sup.svc, Q)
    <2> TAKE Q
    <2>1. {n \in Services : sup'.svc[n].state \in Q} = {n \in Services : sup.svc[n].state \in Q}
      BY <1>2, <1>4
    <2> QED  BY <2>1 DEF Count
  <1>7. Counted(sup')
    BY <1>3, <1>6 DEF SupInv, Counted, TableOf
  <1>8. Types'
    BY <1>5 DEF SupInv, Types, Shutdown
  <1>9. \A n \in Services : EntryInv(sup'.svc[n], process'[n], exits'[n], clock')
    <2> TAKE n \in Services
    <2>1. EntryInv(sup.svc[n], process[n], exits[n], clock)
      BY DEF SupInv
    <2> QED  BY <1>2, <1>4, <2>1 DEF EntryInv, Shutdown
  <1>10. Counted(sup)'
    BY <1>7 DEF Counted, Count
  <1> QED  BY <1>2, <1>4, <1>8, <1>9, <1>10 DEF SupInv

(* Every step of the supervisor preserves the invariant. *)
LEMMA StepPreservesInv == SupInv /\ [Next]_vars => SupInv'
  BY SpawnPreservesInv, ReadyPreservesInv, ExitPreservesInv, OthersPreserveInv,
     ShutdownPreservesInv DEF Next

(* SupInv is an invariant of the restart policy. *)
THEOREM SupervisorInvariant == Spec => []SupInv
  <1>1. Init => SupInv  BY InitEstablishesInv
  <1>2. SupInv /\ [Next]_vars => SupInv'  BY StepPreservesInv
  <1> QED  BY <1>1, <1>2, PTL DEF Spec

(* The types of service_supervisor.h are respected; no counter underflows. *)
THEOREM SupervisorTypes == Spec => []TypeOK
  <1>1. SupInv => TypeOK  BY TypesEquivalent DEF SupInv
  <1> QED  BY <1>1, SupervisorInvariant, PTL

(* running_count, faulted_count and permanently_faulted_count are exact for *)
(* any number of services.                                                  *)
THEOREM CountersAreExact == Spec => []CountersMatchStates
  <1>1. SupInv => CountersMatchStates
    <2> SUFFICES ASSUME SupInv PROVE CountersMatchStates
      OBVIOUS
    <2>1. InState(sup, "RUNNING") = {n \in Services : sup.svc[n].state \in {"RUNNING"}}
      BY DEF InState
    <2>2. InState(sup, "STOPPED") = {n \in Services : sup.svc[n].state \in {"STOPPED"}}
      BY DEF InState
    <2>3. InState(sup, "FAULTED") \cup InState(sup, "STOPPED")
              = {n \in Services : sup.svc[n].state \in Down}
      BY DEF InState, Down
    <2> QED  BY <2>1, <2>2, <2>3 DEF SupInv, Counted, Count, CountersMatchStates
  <1> QED  BY <1>1, SupervisorInvariant, PTL

(* consecutive_failures is exactly the number of exits of the streak. *)
THEOREM StreakIsExact == Spec => []FailuresAreRecentExits
  <1>1. SupInv => FailuresAreRecentExits
    BY DEF SupInv, EntryInv, FailuresAreRecentExits, LastExit, Streak, Since
  <1> QED  BY <1>1, SupervisorInvariant, PTL

(* A service over its restart budget has no live process, for ever. *)
THEOREM BudgetIsEnforced == Spec => []OverBudgetStaysDown
  <1>1. SupInv => OverBudgetStaysDown
    <2> SUFFICES ASSUME SupInv, NEW n \in Services, MaxRestarts # 0,
                        Cardinality(Streak(n)) > MaxRestarts
                 PROVE  process[n] # "alive"
      BY DEF OverBudgetStaysDown
    <2>1. EntryInv(sup.svc[n], process[n], exits[n], clock) /\ MaxRestarts \in Nat
      BY SupervisorAssumption DEF SupInv
    <2>2. CASE exits[n] = <<>>
      <3>1. Streak(n) = {}  BY <2>2 DEF Streak
      <3> QED  BY <2>1, <3>1, FS_EmptySet
    <2>3. CASE exits[n] # <<>>
      <3>1. sup.svc[n].failures = Cardinality(Streak(n))
        BY <2>1, <2>3 DEF EntryInv, Streak, Since
      <3>2. sup.svc[n].state = "STOPPED"
        BY <2>1, <3>1 DEF EntryInv
      <3> QED  BY <2>1, <3>2 DEF EntryInv, Up
    <2> QED  BY <2>2, <2>3
  <1> QED  BY <1>1, SupervisorInvariant, PTL

(* No process of a service starts before the service's backoff has passed,  *)
(* for any window, budget and base.                                         *)
THEOREM BackoffIsEnforced == Spec => BackoffRespected
  <1> DEFINE A == \A n \in Services :
                    (exits[n] # <<>> /\ process[n] # "alive" /\ process'[n] = "alive")
                        => clock >= LastExit(n) + Backoff(Cardinality(Streak(n)))
  <1>1. SupInv /\ [Next]_vars => [A]_vars
    <2> SUFFICES ASSUME SupInv, [Next]_vars, NEW n \in Services,
                        exits[n] # <<>>, process[n] # "alive", process'[n] = "alive"
                 PROVE  clock >= LastExit(n) + Backoff(Cardinality(Streak(n)))
      OBVIOUS
    <2>1. Spawn(n)
      BY DEF Next, vars, SupInv, Types, Spawn, ServiceReady, ProcessExit, ProcessKill,
             ProcessWait, Shutdown, Tick
    <2>2. /\ EntryInv(sup.svc[n], process[n], exits[n], clock)
          /\ EntryInv(sup'.svc[n], process'[n], exits'[n], clock')
          /\ sup'.svc[n].state \in Up
      BY <2>1, SpawnPreservesInv DEF SupInv, Up
    <2>3. exits' = exits /\ clock' = clock
      BY <2>1 DEF Spawn
    <2>4. clock >= LastExit(n) + Backoff(sup'.svc[n].failures)
      BY <2>2, <2>3 DEF EntryInv, LastExit
    <2>5. sup'.svc[n].failures = sup.svc[n].failures
      <3>1. Known(sup, n)
        BY <2>2 DEF EntryInv, Known
      <3>2. RestartAllowed(sup, n, clock) /\ sup \in Table /\ Counted(sup)
                /\ next_pid \in Nat /\ clock \in Nat
        BY <2>1, <3>1 DEF Spawn, SupInv, Types
      <3>3. LET r == RegisterStarting(sup, n, next_pid)
            IN  /\ r \in Table /\ Counted(r)
                /\ r.svc[n].state \in {"STARTING", "RESTARTING"} /\ r.svc[n].pid = next_pid
                /\ r.svc[n].failures = sup.svc[n].failures
        <4>1. sup.svc[n].state # "EMPTY" /\ sup.svc[n].state # "STOPPED"
          BY <3>1, <3>2 DEF RestartAllowed, Known
        <4>2. Registered(sup, n, next_pid, RegisterStarting(sup, n, next_pid))
          BY <3>2, <4>1, RegisterCounted
        <4> QED  BY <4>1, <4>2 DEF Registered
      <3>4. sup' = NoteRestart(RegisterStarting(sup, n, next_pid), n, next_pid, clock)
        BY <2>1, <3>1 DEF Spawn
      <3>5. Noted(RegisterStarting(sup, n, next_pid), n, next_pid, sup')
        BY <3>2, <3>3, <3>4, NoteCounted
      <3> QED  BY <3>3, <3>5 DEF Noted
    <2>6. sup.svc[n].failures = Cardinality(Streak(n))
      BY <2>2 DEF EntryInv, Streak, Since
    <2> QED  BY <2>4, <2>5, <2>6
  <1> QED  BY <1>1, SupervisorInvariant, PTL DEF Spec, BackoffRespected

(* After begin_shutdown() no supervised service gets a new process. *)
THEOREM ShutdownIsFinal == Spec => ShutdownStopsRestarts
  <1> DEFINE A == \A n \in Services : (sup.shutdown /\ Known(sup, n))
                        => sup'.svc[n].pid = sup.svc[n].pid
  <1>1. SupInv /\ [Next]_vars => [A]_vars
    <2> SUFFICES ASSUME SupInv, [Next]_vars, NEW n \in Services, sup.shutdown, Known(sup, n)
                 PROVE  sup'.svc[n].pid = sup.svc[n].pid
      OBVIOUS
    <2>1. CASE \E m \in Services : Spawn(m)
      <3>1. PICK m \in Services : Spawn(m)
        BY <2>1
      <3>2. m # n
        BY <3>1 DEF Spawn, RestartAllowed
      <3>3. ~Known(sup, m)
        BY <3>1 DEF Spawn, RestartAllowed
      <3>4. sup' = RegisterStarting(sup, m, next_pid) /\ sup.svc[m].state # "STOPPED"
        BY <3>1, <3>3 DEF Spawn, Known
      <3>5. sup'.svc[n] = sup.svc[n]
        BY <3>2, <3>4 DEF SupInv, Types, Table, RegisterStarting, TableOf
      <3> QED  BY <3>5
    <2>2. CASE \E m \in Services : ServiceReady(m)
      <3>1. PICK m \in Services : ServiceReady(m)
        BY <2>2
      <3>2. sup.svc[m].state \in Up /\ sup \in Table /\ Counted(sup)
        BY <3>1 DEF SupInv, Types, EntryInv, ServiceReady
      <3>3. m = n \/ sup'.svc[n] = sup.svc[n]
        BY <3>1, <3>2 DEF ServiceReady, Table, MarkRunning, TableOf
      <3> QED  BY <3>1, <3>3, ReadyPreservesInv
    <2>3. CASE \E m \in Services : ProcessExit(m)
      <3>1. PICK m \in Services : ProcessExit(m)
        BY <2>3
      <3>2. sup.svc[m].state \in Up /\ sup \in Table /\ Counted(sup) /\ clock \in Nat \ {0}
        BY <3>1 DEF SupInv, Types, EntryInv, ProcessExit
      <3>3. m = n \/ sup'.svc[n] = sup.svc[n]
        BY <3>1, <3>2 DEF ProcessExit, Table, MarkExit, TableOf
      <3> QED  BY <3>1, <3>3, ExitPreservesInv
    <2>4. CASE Shutdown
      BY <2>4, ShutdownPreservesInv
    <2>5. CASE (\E m \in Services : ProcessKill(m) \/ ProcessWait(m)) \/ Tick \/ UNCHANGED vars
      BY <2>5, OthersPreserveInv
    <2> QED  BY <2>1, <2>2, <2>3, <2>4, <2>5 DEF Next
  <1> QED  BY <1>1, SupervisorInvariant, PTL DEF Spec, ShutdownStopsRestarts
=============================================================================
