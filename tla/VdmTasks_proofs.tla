--------------------------- MODULE VdmTasks_proofs ---------------------------
(***************************************************************************)
(* Proofs about VdmTasks.  Type correctness and LockOwnerIsActive hold for *)
(* any number of processes, and so does the leader check with heartbeats   *)
(* in time (HeartbeatsCount).  The rest needs the deployment the installer *)
(* builds, one process (Standalone), and where it is about what locks keep *)
(* apart, leases that outlive a silent step (LeaseCoversStep).             *)
(***************************************************************************)
EXTENDS VdmTasks, TLAPS

LEMMA KeysAreKeys ==
  ASSUME NEW named \in BOOLEAN, NEW r \in Resource, NEW nodes \in NodeSets
  PROVE  OperationKeys(named, r, nodes) \in SUBSET Key
BY DEF OperationKeys, NodeSets, Key

(* What UpdateTask does to the variables it writes keeps their types.      *)
LEMMA UpdateTaskTyping ==
  ASSUME TypeOK, NEW t \in Task, NEW s \in Status, UpdateTask(t, s)
  PROVE  /\ status' \in [Task -> Status]
         /\ beat' \in [Task -> Nat]
         /\ lock' \in [Key -> Task \cup {NoTask}]
         /\ expires' \in [Key -> Nat]
<1>1. status' \in [Task -> Status] /\ beat' \in [Task -> Nat]
  BY DEF UpdateTask, TypeOK
<1>2. CASE s \in TerminalStatus
  BY <1>2 DEF UpdateTask, DeleteLocks, TypeOK
<1>3. CASE s \notin TerminalStatus
  BY <1>3, ConstAssumption DEF UpdateTask, RenewLocks, TypeOK
<1> QED BY <1>1, <1>2, <1>3

LEMMA InitTypeOK == Init => TypeOK
BY ConstAssumption DEF Init, TypeOK, Status

LEMMA NextTypeOK == TypeOK /\ [Next]_vars => TypeOK'
<1> SUFFICES ASSUME TypeOK, [Next]_vars PROVE TypeOK'
  OBVIOUS
<1> USE ConstAssumption
<1>1. ASSUME NEW i \in Instance, NEW t \in Task, NEW named \in BOOLEAN,
             NEW r \in Resource, NEW nodes \in NodeSets,
             CreateTask(i, t, named, r, nodes)
      PROVE  TypeOK'
  <2> DEFINE K == OperationKeys(named, r, nodes)
  <2>1. K \in SUBSET Key BY KeysAreKeys
  <2>2. lock' \in [Key -> Task \cup {NoTask}] /\ expires' \in [Key -> Nat]
    BY <1>1, <2>1 DEF CreateTask, InsertLocks, TypeOK
  <2>3. status' \in [Task -> Status] /\ keysOf' \in [Task -> SUBSET Key]
    BY <1>1, <2>1 DEF CreateTask, TypeOK, Status, ActiveStatus
  <2>4. beat' \in [Task -> Nat] /\ flow' \in [Task -> Instance \cup {NoInstance}]
    BY <1>1 DEF CreateTask, TypeOK
  <2> QED BY <1>1, <2>2, <2>3, <2>4 DEF CreateTask, TypeOK
<1>2. ASSUME NEW t \in Task, Report(t) PROVE TypeOK'
  <2>1. "running" \in Status BY DEF Status, ActiveStatus
  <2> QED BY <1>2, <2>1, UpdateTaskTyping DEF Report, TypeOK
<1>3. ASSUME NEW t \in Task, NEW s \in TerminalStatus, Finish(t, s) PROVE TypeOK'
  <2>1. s \in Status BY DEF Status
  <2> QED BY <1>3, <2>1, UpdateTaskTyping DEF Finish, TypeOK
<1>4. ASSUME NEW i \in Instance, NEW t \in Task, NEW s \in {"completed", "failed"},
             Resolve(i, t, s)
      PROVE  TypeOK'
  <2>1. s \in Status BY DEF Status, TerminalStatus
  <2> QED BY <1>4, <2>1, UpdateTaskTyping DEF Resolve, TypeOK
<1>5. ASSUME NEW r \in Request, NEW i \in Instance, NEW k \in Key, NEW v \in Route,
             Mutate(r, i, k, v)
      PROVE  TypeOK'
  BY <1>5 DEF Mutate, TypeOK, tables, Mutation
<1>6. ASSUME NEW r \in Request, MutationDone(r) PROVE TypeOK'
  BY <1>6 DEF MutationDone, TypeOK, tables
<1>7. ASSUME NEW i \in Instance, Load(i) PROVE TypeOK'
  BY <1>7 DEF Load, RecoverInterruptedTasks, DeleteLocks, TypeOK, Status
<1>8. ASSUME NEW i \in Instance, CheckLeader(i) \/ Listen(i) \/ InstanceHeartbeat(i)
      PROVE  TypeOK'
  BY <1>8 DEF CheckLeader, Listen, InstanceHeartbeat, TypeOK, tables
<1>9. ASSUME NEW i \in Instance, Crash(i) PROVE TypeOK'
  BY <1>9 DEF Crash, TypeOK, tables
<1>10. CASE Tick
  BY <1>10 DEF Tick, TypeOK, tables
<1>11. CASE UNCHANGED vars
  BY <1>11 DEF vars, TypeOK
<1> QED
  BY <1>1, <1>2, <1>3, <1>4, <1>5, <1>6, <1>7, <1>8, <1>9, <1>10, <1>11 DEF Next

(* Type correctness of the task and lock tables, for every deployment.     *)
THEOREM TypeCorrect == Spec => []TypeOK
BY InitTypeOK, NextTypeOK, PTL DEF Spec
-----------------------------------------------------------------------------
(* LockOwnerIsActive needs nothing but types: it is about the two tables.  *)

LEMMA LockOwnerStep ==
  TypeOK /\ LockOwnerIsActive /\ [Next]_vars => LockOwnerIsActive'
<1> SUFFICES ASSUME TypeOK, LockOwnerIsActive, [Next]_vars,
                    NEW k \in Key, Held(k)'
             PROVE  status'[lock'[k]] \in ActiveStatus /\ k \in keysOf'[lock'[k]]
  BY DEF LockOwnerIsActive
<1> USE ConstAssumption
<1>0. lock'[k] # NoTask BY DEF Held
<1>t. lock[k] \in Task \cup {NoTask} BY DEF TypeOK
<1>1. ASSUME NEW i \in Instance, NEW t \in Task, NEW named \in BOOLEAN,
             NEW r \in Resource, NEW nodes \in NodeSets,
             CreateTask(i, t, named, r, nodes)
      PROVE  status'[lock'[k]] \in ActiveStatus /\ k \in keysOf'[lock'[k]]
  <2> DEFINE K == OperationKeys(named, r, nodes)
  <2>1. CASE k \in K
    <3>1. lock'[k] = t BY <1>1, <2>1 DEF CreateTask, InsertLocks
    <3> QED BY <1>1, <2>1, <3>1 DEF CreateTask, TypeOK, ActiveStatus
  <2>2. CASE k \notin K
    <3>1. lock'[k] = lock[k] BY <1>0, <1>1, <2>2 DEF CreateTask, InsertLocks
    <3>2. status[lock[k]] \in ActiveStatus /\ k \in keysOf[lock[k]] /\ lock[k] \in Task
      BY <1>0, <1>t, <3>1 DEF LockOwnerIsActive, Held
    <3>3. lock[k] # t BY <1>1, <3>2 DEF CreateTask, ActiveStatus
    <3> QED BY <1>1, <3>1, <3>2, <3>3 DEF CreateTask, TypeOK
  <2> QED BY <2>1, <2>2
<1>2. ASSUME NEW t \in Task, NEW s \in Status, UpdateTask(t, s), UNCHANGED keysOf,
             s \in TerminalStatus \/ s = "running"
      PROVE  status'[lock'[k]] \in ActiveStatus /\ k \in keysOf'[lock'[k]]
  <2>1. lock'[k] = lock[k] /\ (s \in TerminalStatus => lock[k] # t)
    BY <1>0, <1>2 DEF UpdateTask, DeleteLocks, RenewLocks
  <2>2. status[lock[k]] \in ActiveStatus /\ k \in keysOf[lock[k]] /\ lock[k] \in Task
    BY <1>0, <1>t, <2>1 DEF LockOwnerIsActive, Held
  <2> QED BY <1>2, <2>1, <2>2 DEF UpdateTask, TypeOK, ActiveStatus
<1>3. ASSUME NEW t \in Task, Report(t)
      PROVE  status'[lock'[k]] \in ActiveStatus /\ k \in keysOf'[lock'[k]]
  <2>1. "running" \in Status BY DEF Status, ActiveStatus
  <2> QED BY <1>2, <1>3, <2>1 DEF Report
<1>4. ASSUME NEW t \in Task, NEW s \in TerminalStatus, Finish(t, s)
      PROVE  status'[lock'[k]] \in ActiveStatus /\ k \in keysOf'[lock'[k]]
  <2>1. s \in Status BY DEF Status
  <2> QED BY <1>2, <1>4, <2>1 DEF Finish
<1>5. ASSUME NEW i \in Instance, NEW t \in Task, NEW s \in {"completed", "failed"},
             Resolve(i, t, s)
      PROVE  status'[lock'[k]] \in ActiveStatus /\ k \in keysOf'[lock'[k]]
  <2>1. s \in Status /\ s \in TerminalStatus BY DEF Status, TerminalStatus
  <2> QED BY <1>2, <1>5, <2>1 DEF Resolve
<1>6. ASSUME UNCHANGED tables
      PROVE  status'[lock'[k]] \in ActiveStatus /\ k \in keysOf'[lock'[k]]
  BY <1>0, <1>6 DEF tables, LockOwnerIsActive, Held
<1>7. ASSUME NEW i \in Instance, Load(i) PROVE FALSE
  BY <1>0, <1>7 DEF Load, RecoverInterruptedTasks, DeleteLocks
<1>8. ASSUME NEW r \in Request, NEW i \in Instance, NEW q \in Key, NEW v \in Route,
             Mutate(r, i, q, v)
      PROVE  UNCHANGED tables
  BY <1>8 DEF Mutate
<1>9. ASSUME NEW i \in Instance,
             CheckLeader(i) \/ Listen(i) \/ InstanceHeartbeat(i) \/ Crash(i)
      PROVE  UNCHANGED tables
  BY <1>9 DEF CheckLeader, Listen, InstanceHeartbeat, Crash
<1>10. ASSUME (\E r \in Request : MutationDone(r)) \/ Tick \/ UNCHANGED vars
       PROVE  UNCHANGED tables
  BY <1>10 DEF MutationDone, Tick, vars, tables
<1> QED
  BY <1>1, <1>3, <1>4, <1>5, <1>6, <1>7, <1>8, <1>9, <1>10 DEF Next

(* A lock row always belongs to a task shown active that named the key,    *)
(* however many processes open the database.                               *)
THEOREM LocksBelongToActiveTasks == Spec => []LockOwnerIsActive
<1>1. Init => LockOwnerIsActive
  BY DEF Init, LockOwnerIsActive, Held
<1> QED BY <1>1, LockOwnerStep, TypeCorrect, PTL DEF Spec

-----------------------------------------------------------------------------
(* The inductive invariant of a standalone VDM: every driven task is shown *)
(* active, belongs to a running process, spoke within its step budget, and *)
(* holds an unexpired row for each key it named.                           *)

HoldsItsKeys(t) ==
  \A k \in keysOf[t] : lock[k] = t /\ expires[k] = beat[t] + TTL

DrivenIsProtected ==
  \A t \in Task : Driven(t) =>
    /\ status[t] \in ActiveStatus
    /\ Up(flow[t])
    /\ now <= beat[t] + StepBudget
    /\ HoldsItsKeys(t)

IInv == TypeOK /\ DrivenIsProtected /\ ShownActiveIffDriven

LEMMA InitIInv == Init => IInv
<1> SUFFICES ASSUME Init PROVE DrivenIsProtected /\ ShownActiveIffDriven
  BY InitTypeOK DEF IInv
<1> QED BY DEF Init, DrivenIsProtected, ShownActiveIffDriven, Driven, ActiveStatus

(* While a task is driven its keys are held and not expired, so neither a  *)
(* purge nor a busy check lets another task have them.                     *)
LEMMA DrivenKeysAreBusy ==
  ASSUME LeaseCoversStep, IInv, NEW t \in Task, Driven(t), NEW k \in keysOf[t]
  PROVE  k \in Key /\ lock[k] = t /\ Held(k) /\ ~Expired(k) /\ expires[k] > now
<1>1. k \in Key /\ lock[k] = t /\ expires[k] = beat[t] + TTL /\ now <= beat[t] + StepBudget
  BY DEF IInv, DrivenIsProtected, HoldsItsKeys, TypeOK
<1>2. now \in Int /\ beat[t] \in Int /\ TTL \in Int /\ StepBudget \in Int
  BY ConstAssumption DEF IInv, TypeOK
<1>3. expires[k] > now BY <1>1, <1>2 DEF LeaseCoversStep
<1> QED BY <1>1, <1>2, <1>3, ConstAssumption DEF Held, Expired

LEMMA NothingDrivenWhenDown ==
  ASSUME Standalone, IInv, NEW i \in Instance, ~Up(i), NEW t \in Task
  PROVE  ~Driven(t)
BY DEF Standalone, IInv, DrivenIsProtected, Driven, TypeOK

(* A new task leaves every driven one protected, and starts protected.     *)
LEMMA CreateTaskProtected ==
  ASSUME LeaseCoversStep, IInv,
         NEW i \in Instance, NEW t \in Task, NEW named \in BOOLEAN,
         NEW r \in Resource, NEW nodes \in NodeSets,
         CreateTask(i, t, named, r, nodes)
  PROVE  DrivenIsProtected' /\ ShownActiveIffDriven'
<1> DEFINE K == OperationKeys(named, r, nodes)
<1> USE ConstAssumption
<1>k. K \in SUBSET Key BY KeysAreKeys
<1>1. ASSUME NEW u \in Task, Driven(u) PROVE u # t /\ keysOf[u] \cap (K \cup Purged(K)) = {}
  <2>1. u # t BY <1>1 DEF IInv, DrivenIsProtected, CreateTask, ActiveStatus
  <2>2. \A k \in keysOf[u] : Held(k) /\ ~Expired(k) BY <1>1, DrivenKeysAreBusy
  <2>3. \A k \in keysOf[u] : k \notin K BY <2>2 DEF CreateTask, Acquirable
  <2>4. \A k \in keysOf[u] : k \notin Purged(K) BY <2>2 DEF Purged
  <2> QED BY <2>1, <2>3, <2>4
<1>2. ASSUME NEW u \in Task, Driven(u)'
      PROVE  status'[u] \in ActiveStatus /\ Up(flow[u])' /\ now' <= beat'[u] + StepBudget
             /\ HoldsItsKeys(u)'
  <2>1. CASE u = t
    <3>1. status'[u] \in ActiveStatus /\ flow'[u] = i /\ beat'[u] = now /\ keysOf'[u] = K
      BY <2>1 DEF CreateTask, IInv, TypeOK, ActiveStatus
    <3>2. Up(flow[u])' BY <3>1 DEF CreateTask, Serving, Up
    <3>3. HoldsItsKeys(u)'
      BY <1>k, <2>1, <3>1 DEF CreateTask, InsertLocks, HoldsItsKeys
    <3>4. now' <= beat'[u] + StepBudget BY <3>1 DEF CreateTask, IInv, TypeOK
    <3> QED BY <3>1, <3>2, <3>3, <3>4
  <2>2. CASE u # t
    <3>1. Driven(u) BY <1>2, <2>2 DEF CreateTask, Driven
    <3>2. /\ status'[u] = status[u] /\ flow'[u] = flow[u] /\ beat'[u] = beat[u]
          /\ keysOf'[u] = keysOf[u] /\ now' = now /\ proc' = proc
      BY <2>2 DEF CreateTask, IInv, TypeOK
    <3>3. /\ status[u] \in ActiveStatus /\ Up(flow[u]) /\ now <= beat[u] + StepBudget
          /\ HoldsItsKeys(u)
      BY <3>1 DEF IInv, DrivenIsProtected
    <3>4. \A k \in keysOf[u] : k \in Key /\ lock'[k] = lock[k] /\ expires'[k] = expires[k]
      BY <1>1, <3>1 DEF CreateTask, InsertLocks, IInv, TypeOK
    <3>5. HoldsItsKeys(u)' BY <3>2, <3>3, <3>4 DEF HoldsItsKeys
    <3> QED BY <3>2, <3>3, <3>5 DEF Up
  <2> QED BY <2>1, <2>2
<1>3. DrivenIsProtected' BY <1>2 DEF DrivenIsProtected
<1>4. ASSUME NEW u \in Task PROVE status'[u] \in ActiveStatus <=> Driven(u)'
  <2>1. CASE u = t
    <3>1. status'[u] = "pending" /\ flow'[u] = i
      BY <2>1 DEF CreateTask, IInv, TypeOK
    <3> QED BY <3>1 DEF ActiveStatus, Driven
  <2>2. CASE u # t
    <3>1. status'[u] = status[u] /\ flow'[u] = flow[u]
      BY <2>2 DEF CreateTask, IInv, TypeOK
    <3>2. status[u] \in ActiveStatus <=> Driven(u)
      BY DEF IInv, ShownActiveIffDriven, CreateTask, Serving, Up
    <3> QED BY <3>1, <3>2 DEF Driven
  <2> QED BY <2>1, <2>2
<1>5. ShownActiveIffDriven' BY <1>4 DEF ShownActiveIffDriven
<1> QED BY <1>3, <1>5

(* A report or an end touches the rows of its own task only.               *)
LEMMA UpdateTaskFrame ==
  ASSUME IInv, NEW t \in Task, NEW s \in Status, UpdateTask(t, s),
         NEW u \in Task, u # t
  PROVE  /\ status'[u] = status[u] /\ beat'[u] = beat[u]
         /\ \A k \in Key : lock[k] = u => lock'[k] = u /\ expires'[k] = expires[k]
<1>1. status'[u] = status[u] /\ beat'[u] = beat[u]
  BY DEF UpdateTask, IInv, TypeOK
<1>2. ASSUME NEW k \in Key, lock[k] = u PROVE lock'[k] = u /\ expires'[k] = expires[k]
  BY <1>2 DEF UpdateTask, DeleteLocks, RenewLocks, IInv, TypeOK
<1> QED BY <1>1, <1>2

LEMMA ReportProtected ==
  ASSUME IInv, NEW t \in Task, Report(t)
  PROVE  DrivenIsProtected' /\ ShownActiveIffDriven'
<1> USE ConstAssumption
<1>0. "running" \in Status /\ "running" \in ActiveStatus /\ "running" \notin TerminalStatus
  BY DEF Status, ActiveStatus, TerminalStatus
<1>1. UpdateTask(t, "running") /\ UNCHANGED <<now, proc, keysOf, flow>> /\ Driven(t)
  BY DEF Report, Driven
<1>2. ASSUME NEW u \in Task, Driven(u)
      PROVE  status'[u] \in ActiveStatus /\ Up(flow[u])' /\ now' <= beat'[u] + StepBudget
             /\ HoldsItsKeys(u)'
  <2>1. /\ status[u] \in ActiveStatus /\ Up(flow[u]) /\ now <= beat[u] + StepBudget
        /\ HoldsItsKeys(u)
    BY <1>2 DEF IInv, DrivenIsProtected
  <2>2. Up(flow[u])' BY <1>1, <2>1 DEF Up
  <2>3. CASE u = t
    <3>1. status'[u] = "running" /\ beat'[u] = now
      BY <1>1, <2>3 DEF UpdateTask, IInv, TypeOK
    <3>2. \A k \in keysOf[u] : k \in Key /\ lock'[k] = u /\ expires'[k] = now + TTL
      BY <1>0, <1>1, <2>1, <2>3 DEF UpdateTask, RenewLocks, HoldsItsKeys, IInv, TypeOK
    <3>3. HoldsItsKeys(u)' BY <1>1, <3>1, <3>2 DEF HoldsItsKeys
    <3>4. now' <= beat'[u] + StepBudget BY <1>1, <3>1 DEF IInv, TypeOK
    <3> QED BY <1>0, <2>2, <3>1, <3>3, <3>4
  <2>4. CASE u # t
    <3>1. /\ status'[u] = status[u] /\ beat'[u] = beat[u]
          /\ \A k \in Key : lock[k] = u => lock'[k] = u /\ expires'[k] = expires[k]
      BY <1>0, <1>1, <2>4, UpdateTaskFrame
    <3>2. keysOf[u] \subseteq Key BY DEF IInv, TypeOK
    <3>3. HoldsItsKeys(u)' BY <1>1, <2>1, <3>1, <3>2 DEF HoldsItsKeys
    <3> QED BY <1>1, <2>1, <2>2, <3>1, <3>3
  <2> QED BY <2>3, <2>4
<1>3. DrivenIsProtected' BY <1>1, <1>2 DEF DrivenIsProtected, Driven
<1>4. \E i \in Instance : proc[i] # "down"
  BY <1>1 DEF IInv, DrivenIsProtected, Driven, Up, TypeOK
<1>5. ASSUME NEW u \in Task PROVE status'[u] \in ActiveStatus <=> Driven(u)'
  <2>1. CASE Driven(u) BY <1>1, <1>2, <2>1 DEF Driven
  <2>2. CASE ~Driven(u)
    <3>1. u # t /\ status[u] \notin ActiveStatus
      BY <1>1, <1>4, <2>2 DEF IInv, ShownActiveIffDriven
    <3>2. status'[u] = status[u] BY <1>0, <1>1, <3>1, UpdateTaskFrame
    <3> QED BY <1>1, <2>2, <3>1, <3>2 DEF Driven
  <2> QED BY <2>1, <2>2
<1> QED BY <1>3, <1>5 DEF ShownActiveIffDriven

LEMMA FinishProtected ==
  ASSUME IInv, NEW t \in Task, NEW s \in TerminalStatus, Finish(t, s)
  PROVE  DrivenIsProtected' /\ ShownActiveIffDriven'
<1>0. s \in Status /\ s \notin ActiveStatus BY DEF Status, ActiveStatus, TerminalStatus
<1>1. UpdateTask(t, s) /\ UNCHANGED <<now, proc, keysOf>> BY DEF Finish
<1>2. flow'[t] = NoInstance /\ \A u \in Task : u # t => flow'[u] = flow[u]
  BY DEF Finish, IInv, TypeOK
<1>3. ASSUME NEW u \in Task, u # t
      PROVE  /\ status'[u] = status[u] /\ beat'[u] = beat[u]
             /\ HoldsItsKeys(u) => HoldsItsKeys(u)'
  <2>1. /\ status'[u] = status[u] /\ beat'[u] = beat[u]
        /\ \A k \in Key : lock[k] = u => lock'[k] = u /\ expires'[k] = expires[k]
    BY <1>0, <1>1, <1>3, UpdateTaskFrame
  <2>2. keysOf[u] \subseteq Key BY DEF IInv, TypeOK
  <2> QED BY <1>1, <2>1, <2>2 DEF HoldsItsKeys
<1>4. DrivenIsProtected'
  BY <1>1, <1>2, <1>3 DEF DrivenIsProtected, IInv, Driven, Up
<1>5. \E i \in Instance : proc[i] # "down"
  BY DEF Finish, IInv, DrivenIsProtected, Driven, Up, TypeOK
<1>6. status'[t] = s BY <1>1 DEF UpdateTask, IInv, TypeOK
<1>7. ShownActiveIffDriven'
  BY <1>0, <1>2, <1>3, <1>5, <1>6 DEF ShownActiveIffDriven, IInv, Driven
<1> QED BY <1>4, <1>7

(* Settling an interrupted task disturbs nobody: it holds no lock.         *)
LEMMA ResolveProtected ==
  ASSUME IInv, NEW i \in Instance, NEW t \in Task, NEW s \in {"completed", "failed"},
         Resolve(i, t, s)
  PROVE  DrivenIsProtected' /\ ShownActiveIffDriven'
<1>0. s \in Status /\ s \notin ActiveStatus /\ s \in TerminalStatus
  BY DEF Status, ActiveStatus, TerminalStatus
<1>1. UpdateTask(t, s) /\ UNCHANGED <<now, proc, keysOf, flow>> BY DEF Resolve
<1>2. ~Driven(t) BY DEF Resolve, IInv, DrivenIsProtected, ActiveStatus
<1>3. ASSUME NEW u \in Task, u # t
      PROVE  /\ status'[u] = status[u] /\ beat'[u] = beat[u]
             /\ HoldsItsKeys(u) => HoldsItsKeys(u)'
  <2>1. /\ status'[u] = status[u] /\ beat'[u] = beat[u]
        /\ \A k \in Key : lock[k] = u => lock'[k] = u /\ expires'[k] = expires[k]
    BY <1>0, <1>1, <1>3, UpdateTaskFrame
  <2>2. keysOf[u] \subseteq Key BY DEF IInv, TypeOK
  <2> QED BY <1>1, <2>1, <2>2 DEF HoldsItsKeys
<1>4. DrivenIsProtected'
  BY <1>1, <1>2, <1>3 DEF DrivenIsProtected, IInv, Driven, Up
<1>5. \E j \in Instance : proc[j] # "down"
  BY DEF Resolve, Serving, Up
<1>6. status'[t] = s BY <1>1 DEF UpdateTask, IInv, TypeOK
<1>7. ShownActiveIffDriven'
  BY <1>0, <1>1, <1>2, <1>3, <1>5, <1>6 DEF ShownActiveIffDriven, IInv, Driven
<1> QED BY <1>4, <1>7

(* When the only process loads nothing is driven, and recovery leaves no   *)
(* task shown active; when it dies nothing is driven and nobody is up.     *)
LEMMA ProcessProtected ==
  ASSUME Standalone, IInv, NEW i \in Instance,
         Load(i) \/ CheckLeader(i) \/ Listen(i) \/ InstanceHeartbeat(i) \/ Crash(i)
  PROVE  DrivenIsProtected' /\ ShownActiveIffDriven'
<1>1. CASE Load(i)
  <2>1. \A t \in Task : ~Driven(t)
    BY <1>1, NothingDrivenWhenDown DEF Load, Up
  <2>2. \A t \in Task : ~Driven(t)' BY <1>1, <2>1 DEF Load, Driven
  <2>3. \A t \in Task : status'[t] \notin ActiveStatus
    BY <1>1 DEF Load, RecoverInterruptedTasks, ActiveStatus
  <2> QED BY <2>2, <2>3 DEF DrivenIsProtected, ShownActiveIffDriven
<1>2. CASE CheckLeader(i) \/ Listen(i)
  <2>1. \A t \in Task : ~Driven(t)
    BY <1>2, NothingDrivenWhenDown DEF CheckLeader, Listen, Up
  <2>2. \A t \in Task : ~Driven(t)' /\ status'[t] = status[t]
    BY <1>2, <2>1 DEF CheckLeader, Listen, Driven, tables
  <2>3. \E j \in Instance : proc[j] # "down" BY <1>2 DEF CheckLeader, Listen
  <2> QED BY <2>1, <2>2, <2>3 DEF DrivenIsProtected, ShownActiveIffDriven, IInv
<1>3. CASE InstanceHeartbeat(i)
  BY <1>3 DEF InstanceHeartbeat, IInv, DrivenIsProtected, ShownActiveIffDriven,
              Driven, Up, HoldsItsKeys, tables
<1>4. CASE Crash(i)
  <2>1. \A t \in Task : flow'[t] = NoInstance
    BY <1>4 DEF Crash, Standalone, IInv, TypeOK
  <2>2. \A j \in Instance : proc'[j] = "down"
    BY <1>4 DEF Crash, Standalone, IInv, TypeOK
  <2> QED BY <2>1, <2>2 DEF DrivenIsProtected, ShownActiveIffDriven, Driven
<1> QED BY <1>1, <1>2, <1>3, <1>4

(* Time passes only while every driven task is within its step budget.     *)
LEMMA TickProtected ==
  ASSUME IInv, Tick
  PROVE  DrivenIsProtected' /\ ShownActiveIffDriven'
<1> USE ConstAssumption
<1>1. UNCHANGED <<proc, status, keysOf, beat, lock, expires, flow>> /\ now' = now + 1
  BY DEF Tick, tables
<1>2. \A t \in Task : Driven(t) => now' <= beat[t] + StepBudget
  BY <1>1 DEF Tick, Driven, IInv, TypeOK
<1> QED
  BY <1>1, <1>2 DEF IInv, DrivenIsProtected, ShownActiveIffDriven, Driven, Up, HoldsItsKeys

LEMMA NextIInv ==
  ASSUME Standalone, LeaseCoversStep
  PROVE  IInv /\ [Next]_vars => IInv'
<1> SUFFICES ASSUME IInv, [Next]_vars PROVE DrivenIsProtected' /\ ShownActiveIffDriven'
  BY NextTypeOK DEF IInv
<1>1. ASSUME UNCHANGED <<now, proc, status, keysOf, beat, lock, expires, flow>>
      PROVE  DrivenIsProtected' /\ ShownActiveIffDriven'
  BY <1>1 DEF IInv, DrivenIsProtected, ShownActiveIffDriven, Driven, Up, HoldsItsKeys
<1>2. ASSUME NEW r \in Request, NEW i \in Instance, NEW k \in Key, NEW v \in Route,
             Mutate(r, i, k, v)
      PROVE  DrivenIsProtected' /\ ShownActiveIffDriven'
  BY <1>1, <1>2 DEF Mutate, tables
<1>3. ASSUME NEW r \in Request, MutationDone(r)
      PROVE  DrivenIsProtected' /\ ShownActiveIffDriven'
  BY <1>1, <1>3 DEF MutationDone, tables
<1>4. CASE UNCHANGED vars BY <1>1, <1>4 DEF vars
<1> QED
  BY <1>2, <1>3, <1>4, CreateTaskProtected, ReportProtected, FinishProtected,
     ResolveProtected, ProcessProtected, TickProtected DEF Next

THEOREM StandaloneInvariant ==
  ASSUME Standalone, LeaseCoversStep
  PROVE  Spec => []IInv
BY InitIInv, NextIInv, PTL DEF Spec

LEMMA IInvExcludes ==
  ASSUME LeaseCoversStep, IInv PROVE MutualExclusion
<1> SUFFICES ASSUME NEW t \in Task, NEW u \in Task, Driven(t), Driven(u), t # u,
                    NEW k \in keysOf[t] \cap keysOf[u]
             PROVE  FALSE
  BY DEF MutualExclusion
<1> QED BY DrivenKeysAreBusy

(* Operations that run at the same time never share a resource on a node.  *)
THEOREM RunningOperationsAreExclusive ==
  ASSUME Standalone, LeaseCoversStep
  PROVE  Spec => []MutualExclusion
BY StandaloneInvariant, IInvExcludes, PTL

-----------------------------------------------------------------------------
(* The task list. It needs no lease: a standalone process that dies takes  *)
(* its closures along, and recovers the tasks it left when it loads.       *)

DrivenIsShown == \A t \in Task : Driven(t) => status[t] \in ActiveStatus /\ Up(flow[t])

ShownInv == TypeOK /\ DrivenIsShown /\ ShownActiveIffDriven

(* A step of one task that leaves it shown active exactly when driven.     *)
LEMMA OneTaskShown ==
  ASSUME ShownInv, NEW t \in Task, NEW j \in Instance, Up(j), proc' = proc,
         \A u \in Task \ {t} : status'[u] = status[u] /\ flow'[u] = flow[u],
         \/ status'[t] \in ActiveStatus /\ Driven(t)' /\ Up(flow'[t])
         \/ status'[t] \notin ActiveStatus /\ ~Driven(t)'
  PROVE  DrivenIsShown' /\ ShownActiveIffDriven'
<1>1. \E i \in Instance : proc[i] # "down" BY DEF Up
<1>2. \A u \in Task : status[u] \in ActiveStatus <=> Driven(u)
  BY <1>1 DEF ShownInv, ShownActiveIffDriven
<1>3. \A u \in Task \ {t} : /\ status'[u] \in ActiveStatus <=> Driven(u)'
                            /\ Driven(u)' => Up(flow'[u])
  BY <1>2 DEF ShownInv, DrivenIsShown, Driven, Up
<1> QED BY <1>3 DEF DrivenIsShown, ShownActiveIffDriven, Up

(* The driven task's process is up, and its row is shown active.           *)
LEMMA DrivenFacts ==
  ASSUME ShownInv, NEW t \in Task, Driven(t)
  PROVE  flow[t] \in Instance /\ Up(flow[t]) /\ status[t] \in ActiveStatus
BY DEF ShownInv, DrivenIsShown, Driven, TypeOK

LEMMA ShownStep ==
  ASSUME Standalone PROVE ShownInv /\ [Next]_vars => ShownInv'
<1> SUFFICES ASSUME ShownInv, [Next]_vars PROVE DrivenIsShown' /\ ShownActiveIffDriven'
  BY NextTypeOK DEF ShownInv
<1> USE ConstAssumption
<1>0. /\ "pending" \in ActiveStatus /\ "running" \in ActiveStatus
      /\ \A s \in TerminalStatus : s \notin ActiveStatus
  BY DEF ActiveStatus, TerminalStatus
<1>1. ASSUME UNCHANGED <<proc, status, flow>> PROVE DrivenIsShown' /\ ShownActiveIffDriven'
  BY <1>1 DEF ShownInv, DrivenIsShown, ShownActiveIffDriven, Driven, Up
<1>2. ASSUME NEW i \in Instance, NEW t \in Task, NEW named \in BOOLEAN,
             NEW r \in Resource, NEW nodes \in NodeSets,
             CreateTask(i, t, named, r, nodes)
      PROVE  DrivenIsShown' /\ ShownActiveIffDriven'
  <2>1. /\ status'[t] = "pending" /\ flow'[t] = i /\ proc' = proc /\ Up(i)
        /\ \A u \in Task \ {t} : status'[u] = status[u] /\ flow'[u] = flow[u]
    BY <1>2 DEF CreateTask, Serving, ShownInv, TypeOK
  <2>2. Driven(t)' BY <2>1 DEF Driven
  <2> QED BY <1>0, <2>1, <2>2, OneTaskShown
<1>3. ASSUME NEW t \in Task, Report(t) PROVE DrivenIsShown' /\ ShownActiveIffDriven'
  <2>1. Driven(t) /\ proc' = proc /\ flow' = flow BY <1>3 DEF Report, Driven
  <2>2. status'[t] = "running" /\ \A u \in Task \ {t} : status'[u] = status[u]
    BY <1>3 DEF Report, UpdateTask, ShownInv, TypeOK
  <2>3. Driven(t)' BY <2>1 DEF Driven
  <2> QED BY <1>0, <2>1, <2>2, <2>3, DrivenFacts, OneTaskShown
<1>4. ASSUME NEW t \in Task, NEW s \in TerminalStatus, Finish(t, s)
      PROVE  DrivenIsShown' /\ ShownActiveIffDriven'
  <2>1. Driven(t) /\ proc' = proc BY <1>4 DEF Finish, Driven
  <2>2. /\ status'[t] = s /\ flow'[t] = NoInstance
        /\ \A u \in Task \ {t} : status'[u] = status[u] /\ flow'[u] = flow[u]
    BY <1>4 DEF Finish, UpdateTask, ShownInv, TypeOK
  <2>3. ~Driven(t)' BY <2>2 DEF Driven
  <2> QED BY <1>0, <2>1, <2>2, <2>3, DrivenFacts, OneTaskShown
<1>5. ASSUME NEW i \in Instance, NEW t \in Task, NEW s \in {"completed", "failed"},
             Resolve(i, t, s)
      PROVE  DrivenIsShown' /\ ShownActiveIffDriven'
  <2>1. Up(i) /\ proc' = proc /\ flow' = flow /\ status[t] \notin ActiveStatus
    BY <1>5 DEF Resolve, Serving, ActiveStatus
  <2>2. status'[t] = s /\ \A u \in Task \ {t} : status'[u] = status[u]
    BY <1>5 DEF Resolve, UpdateTask, ShownInv, TypeOK
  <2>3. s \notin ActiveStatus BY DEF ActiveStatus
  <2>4. ~Driven(t)' BY <2>1 DEF ShownInv, DrivenIsShown, Driven
  <2> QED BY <2>1, <2>2, <2>3, <2>4, OneTaskShown
<1>6. ASSUME NEW i \in Instance, Load(i) PROVE DrivenIsShown' /\ ShownActiveIffDriven'
  <2>1. \A t \in Task : ~Driven(t)
    BY <1>6, DrivenFacts DEF Load, Standalone, Up
  <2>2. \A t \in Task : ~Driven(t)' /\ status'[t] \notin ActiveStatus
    BY <1>6, <2>1 DEF Load, RecoverInterruptedTasks, Driven, ActiveStatus
  <2> QED BY <2>2 DEF DrivenIsShown, ShownActiveIffDriven
<1>7. ASSUME NEW i \in Instance, CheckLeader(i) \/ Listen(i)
      PROVE  DrivenIsShown' /\ ShownActiveIffDriven'
  <2>1. \A t \in Task : ~Driven(t)
    BY <1>7, DrivenFacts DEF CheckLeader, Listen, Standalone, Up
  <2>2. \A t \in Task : ~Driven(t)' /\ status'[t] = status[t]
    BY <1>7, <2>1 DEF CheckLeader, Listen, Driven, tables
  <2>3. \E j \in Instance : proc[j] # "down" BY <1>7 DEF CheckLeader, Listen
  <2> QED BY <2>1, <2>2, <2>3 DEF DrivenIsShown, ShownActiveIffDriven, ShownInv
<1>8. ASSUME NEW i \in Instance, Crash(i) PROVE DrivenIsShown' /\ ShownActiveIffDriven'
  <2>1. \A t \in Task : ~Driven(t)'
    BY <1>8 DEF Crash, Standalone, ShownInv, TypeOK, Driven
  <2>2. \A j \in Instance : proc'[j] = "down"
    BY <1>8 DEF Crash, Standalone, ShownInv, TypeOK
  <2> QED BY <2>1, <2>2 DEF DrivenIsShown, ShownActiveIffDriven
<1>9. ASSUME \/ \E r \in Request, i \in Instance, k \in Key, v \in Route :
                  Mutate(r, i, k, v)
             \/ \E r \in Request : MutationDone(r)
             \/ \E i \in Instance : InstanceHeartbeat(i)
             \/ Tick
             \/ UNCHANGED vars
      PROVE  UNCHANGED <<proc, status, flow>>
  BY <1>9 DEF Mutate, MutationDone, InstanceHeartbeat, Tick, vars, tables
<1> QED
  BY <1>1, <1>2, <1>3, <1>4, <1>5, <1>6, <1>7, <1>8, <1>9 DEF Next

LEMMA ShownInit == Init => ShownInv
BY InitTypeOK DEF Init, ShownInv, DrivenIsShown, ShownActiveIffDriven, Driven, ActiveStatus

(* The task list shows a task active exactly while something drives it.    *)
THEOREM TaskListIsTruthful ==
  ASSUME Standalone
  PROVE  Spec => []ShownActiveIffDriven
<1>1. ShownInv => ShownActiveIffDriven BY DEF ShownInv
<1> QED BY <1>1, ShownInit, ShownStep, PTL DEF Spec

-----------------------------------------------------------------------------
(* Action properties.                                                      *)

LEMMA OutcomeStep ==
  ASSUME ShownInv, [Next]_vars, NEW t \in Task
  PROVE  /\ status[t] \in TerminalStatus => status'[t] = status[t]
         /\ status[t] = "recovery-required" =>
              status'[t] \in {"recovery-required", "completed", "failed"}
<1> DEFINE Final == /\ status[t] \in TerminalStatus => status'[t] = status[t]
                    /\ status[t] = "recovery-required" =>
                         status'[t] \in {"recovery-required", "completed", "failed"}
<1>0. /\ \A s \in TerminalStatus : s \notin ActiveStatus /\ s # "none" /\ s # "recovery-required"
      /\ "recovery-required" \notin ActiveStatus
  BY DEF ActiveStatus, TerminalStatus
<1>1. ASSUME status'[t] = status[t] PROVE Final
  BY <1>1
<1>2. ASSUME NEW u \in Task, NEW s \in Status, UpdateTask(u, s), Driven(u) PROVE Final
  <2>1. CASE u = t
    BY <1>0, <1>2, <2>1 DEF ShownInv, DrivenIsShown
  <2>2. CASE u # t BY <1>1, <1>2, <2>2 DEF UpdateTask, ShownInv, TypeOK
  <2> QED BY <2>1, <2>2
<1>3. ASSUME NEW i \in Instance, NEW u \in Task, NEW named \in BOOLEAN,
             NEW r \in Resource, NEW nodes \in NodeSets,
             CreateTask(i, u, named, r, nodes)
      PROVE  Final
  BY <1>0, <1>1, <1>3 DEF CreateTask, ShownInv, TypeOK
<1>4. ASSUME NEW u \in Task, Report(u) PROVE Final
  <2>1. "running" \in Status BY DEF Status, ActiveStatus
  <2> QED BY <1>2, <1>4, <2>1 DEF Report, Driven
<1>5. ASSUME NEW u \in Task, NEW s \in TerminalStatus, Finish(u, s) PROVE Final
  <2>1. s \in Status BY DEF Status
  <2> QED BY <1>2, <1>5, <2>1 DEF Finish, Driven
<1>6. ASSUME NEW i \in Instance, NEW u \in Task, NEW s \in {"completed", "failed"},
             Resolve(i, u, s)
      PROVE  Final
  BY <1>0, <1>6 DEF Resolve, UpdateTask, ShownInv, TypeOK
<1>7. ASSUME NEW i \in Instance, Load(i) PROVE Final
  BY <1>0, <1>7 DEF Load, RecoverInterruptedTasks
<1>8. ASSUME UNCHANGED status PROVE Final
  BY <1>1, <1>8
<1>9. ASSUME NEW r \in Request, NEW i \in Instance, NEW k \in Key, NEW v \in Route,
             Mutate(r, i, k, v)
      PROVE  Final
  BY <1>8, <1>9 DEF Mutate, tables
<1>10. ASSUME NEW i \in Instance,
              CheckLeader(i) \/ Listen(i) \/ InstanceHeartbeat(i) \/ Crash(i)
       PROVE  Final
  BY <1>8, <1>10 DEF CheckLeader, Listen, InstanceHeartbeat, Crash, tables
<1>11. ASSUME (\E r \in Request : MutationDone(r)) \/ Tick \/ UNCHANGED vars PROVE Final
  BY <1>8, <1>11 DEF MutationDone, Tick, vars, tables
<1> QED
  BY <1>3, <1>4, <1>5, <1>6, <1>7, <1>9, <1>10, <1>11 DEF Next

(* A settled task keeps its outcome; only an administrator settles an      *)
(* interrupted one.                                                        *)
THEOREM OutcomesAreFinal ==
  ASSUME Standalone
  PROVE  Spec => OutcomeIsFinal
<1> DEFINE A == \A t \in Task :
       /\ status[t] \in TerminalStatus => status'[t] = status[t]
       /\ status[t] = "recovery-required" =>
            status'[t] \in {"recovery-required", "completed", "failed"}
<1>1. ShownInv /\ [Next]_vars => [A]_vars BY OutcomeStep
<1>2. Spec => [][A]_vars
  <2> HIDE DEF A
  <2> QED BY <1>1, ShownInit, ShownStep, PTL DEF Spec
<1> QED BY <1>2 DEF OutcomeIsFinal

LEMMA GatedStep ==
  ASSUME LeaseCoversStep, IInv, [Next]_vars, NEW q \in Request,
         mutation[q] = NoMutation, mutation'[q] # NoMutation, mutation'[q].via = "resource",
         NEW t \in Task, Driven(t)
  PROVE  mutation'[q].key \notin keysOf[t]
<1>1. ASSUME UNCHANGED mutation PROVE FALSE
  BY <1>1
<1>2. ASSUME NEW r \in Request, NEW i \in Instance, NEW k \in Key, NEW v \in Route,
             Mutate(r, i, k, v)
      PROVE  mutation'[q].key \notin keysOf[t]
  <2>1. r = q BY <1>2 DEF Mutate, IInv, TypeOK
  <2>2. mutation'[q] = [key |-> k, by |-> i, via |-> v]
    BY <1>2, <2>1 DEF Mutate, IInv, TypeOK
  <2>3. v = "resource" BY <2>2
  <2>4. ~(Held(k) /\ expires[k] > now) BY <1>2, <2>3 DEF Mutate, Gated
  <2>5. \A j \in keysOf[t] : Held(j) /\ expires[j] > now BY DrivenKeysAreBusy
  <2> QED BY <2>2, <2>4, <2>5
<1>3. ASSUME NEW r \in Request, MutationDone(r) PROVE FALSE
  BY <1>3 DEF MutationDone, IInv, TypeOK
<1>4. ASSUME NEW i \in Instance, Crash(i) PROVE FALSE
  BY <1>4 DEF Crash
<1>5. ASSUME \/ \E i \in Instance, u \in Task, named \in BOOLEAN, r \in Resource,
                   nodes \in NodeSets : CreateTask(i, u, named, r, nodes)
             \/ \E u \in Task : Report(u)
             \/ \E u \in Task, s \in TerminalStatus : Finish(u, s)
             \/ \E i \in Instance, u \in Task, s \in {"completed", "failed"} : Resolve(i, u, s)
             \/ \E i \in Instance : Load(i) \/ CheckLeader(i) \/ Listen(i) \/ InstanceHeartbeat(i)
             \/ Tick
             \/ UNCHANGED vars
      PROVE  UNCHANGED mutation
  BY <1>5 DEF CreateTask, Report, Finish, Resolve, Load, CheckLeader, Listen,
              InstanceHeartbeat, Tick, vars
<1> QED BY <1>1, <1>2, <1>3, <1>4, <1>5 DEF Next

(* The hook keeps the mutations it looks at away from running operations.  *)
THEOREM GatedMutationsFindResourcesFree ==
  ASSUME Standalone, LeaseCoversStep
  PROVE  Spec => GatedMutationFindsResourceFree
<1> DEFINE A == \A r \in Request :
       mutation[r] = NoMutation /\ mutation'[r] # NoMutation /\ mutation'[r].via = "resource"
         => \A t \in Task : Driven(t) => mutation'[r].key \notin keysOf[t]
<1>1. IInv /\ [Next]_vars => [A]_vars BY GatedStep
<1>2. Spec => [][A]_vars
  <2> HIDE DEF A
  <2> QED BY <1>1, StandaloneInvariant, PTL DEF Spec
<1> QED BY <1>2 DEF GatedMutationFindsResourceFree

-----------------------------------------------------------------------------
(* Refinement: the tables implement exclusive work.                        *)

LEMMA WorkStep ==
  ASSUME Standalone, LeaseCoversStep, IInv, IInv', [Next]_vars
  PROVE  [Exclusive!Next]_Work
<1> USE ConstAssumption
<1>1. ASSUME NEW i \in Instance, NEW t \in Task, NEW named \in BOOLEAN,
             NEW r \in Resource, NEW nodes \in NodeSets,
             CreateTask(i, t, named, r, nodes)
      PROVE  Exclusive!Next
  <2> DEFINE K == OperationKeys(named, r, nodes)
  <2>1. K \in SUBSET Key BY KeysAreKeys
  <2>2. ~Driven(t) BY <1>1 DEF IInv, DrivenIsProtected, CreateTask, ActiveStatus
  <2>3. Work[t] = {} BY <2>2 DEF Work
  <2>4. ASSUME NEW u \in Task PROVE Work[u] \cap K = {}
    <3>1. CASE Driven(u)
      <4>1. \A k \in keysOf[u] : Held(k) /\ ~Expired(k) BY <3>1, DrivenKeysAreBusy
      <4> QED BY <1>1, <3>1, <4>1 DEF Work, CreateTask, Acquirable
    <3>2. CASE ~Driven(u) BY <3>2 DEF Work
    <3> QED BY <3>1, <3>2
  <2>5. flow' = [flow EXCEPT ![t] = i] /\ keysOf' = [keysOf EXCEPT ![t] = K]
    BY <1>1 DEF CreateTask
  <2>6. Work' = [Work EXCEPT ![t] = K]
    BY <2>5 DEF Work, Driven, IInv, TypeOK
  <2>7. Exclusive!Begin(t, K) BY <2>3, <2>4, <2>6 DEF Exclusive!Begin
  <2> QED BY <2>1, <2>7 DEF Exclusive!Next
<1>2. ASSUME NEW t \in Task, NEW s \in TerminalStatus, Finish(t, s)
      PROVE  Exclusive!Next
  <2>1. Work' = [Work EXCEPT ![t] = {}]
    BY <1>2 DEF Finish, Work, Driven, IInv, TypeOK
  <2> QED BY <2>1 DEF Exclusive!Next, Exclusive!End
<1>3. ASSUME NEW i \in Instance, Crash(i)
      PROVE  Exclusive!Next
  <2>1. \A t \in Task : flow'[t] = NoInstance
    BY <1>3 DEF Crash, Standalone, IInv, TypeOK
  <2>2. Work' = [t \in Task |-> {}] BY <2>1 DEF Work, Driven
  <2> QED BY <2>2 DEF Exclusive!Next, Exclusive!EndAll
<1>4. ASSUME UNCHANGED <<keysOf, flow>> PROVE UNCHANGED Work
  BY <1>4 DEF Work, Driven
<1>5. ASSUME \/ \E t \in Task : Report(t)
             \/ \E i \in Instance, t \in Task, s \in {"completed", "failed"} : Resolve(i, t, s)
             \/ \E r \in Request, i \in Instance, k \in Key, v \in Route :
                  Mutate(r, i, k, v)
             \/ \E r \in Request : MutationDone(r)
             \/ \E i \in Instance : Load(i) \/ CheckLeader(i) \/ Listen(i) \/ InstanceHeartbeat(i)
             \/ Tick
             \/ UNCHANGED vars
      PROVE  UNCHANGED <<keysOf, flow>>
  BY <1>5 DEF Report, Resolve, Mutate, MutationDone, Load,
              RecoverInterruptedTasks, CheckLeader, Listen, InstanceHeartbeat, Tick, tables, vars
<1> QED BY <1>1, <1>2, <1>3, <1>4, <1>5 DEF Next

(* Seen through the closures, a standalone VDM does exclusive work.        *)
THEOREM TasksImplementExclusiveWork ==
  ASSUME Standalone, LeaseCoversStep
  PROVE  Spec => ImplementsExclusiveWork
<1>1. Init => Exclusive!Init
  BY DEF Init, Exclusive!Init, Work, Driven
<1>2. IInv /\ IInv' /\ [Next]_vars => [Exclusive!Next]_Work
  BY WorkStep
<1> QED
  BY <1>1, <1>2, StandaloneInvariant, PTL DEF Spec, ImplementsExclusiveWork, Exclusive!Spec

-----------------------------------------------------------------------------
(* Leaders. The heartbeat of a process that serves is never older than its *)
(* period, which the window in which it counts has to cover (10 s and 30 s *)
(* in the code). Any number of processes, standbys among them.             *)

HeartbeatsCount == HeartbeatEvery <= LeaderWindow

HeartbeatsOnTime == \A j \in Instance : Up(j) => now <= heartbeat[j] + HeartbeatEvery

LEMMA HeartbeatStep ==
  TypeOK /\ HeartbeatsOnTime /\ [Next]_vars => HeartbeatsOnTime'
<1> SUFFICES ASSUME TypeOK, HeartbeatsOnTime, [Next]_vars, NEW j \in Instance, Up(j)'
             PROVE  now' <= heartbeat'[j] + HeartbeatEvery
  BY DEF HeartbeatsOnTime
<1> USE ConstAssumption DEF Up
<1>1. now \in Nat /\ heartbeat[j] \in Int /\ HeartbeatEvery \in Nat
  BY DEF TypeOK
<1>2. ASSUME UNCHANGED <<now, proc, heartbeat>> PROVE now' <= heartbeat'[j] + HeartbeatEvery
  BY <1>2 DEF HeartbeatsOnTime
<1>3. ASSUME NEW i \in Instance, Listen(i) \/ InstanceHeartbeat(i)
      PROVE  now' <= heartbeat'[j] + HeartbeatEvery
  <2>1. CASE i = j
    <3>1. heartbeat'[j] = now /\ now' = now
      BY <1>3, <2>1 DEF Listen, InstanceHeartbeat, TypeOK
    <3> QED BY <1>1, <3>1
  <2>2. CASE i # j
    <3>1. heartbeat'[j] = heartbeat[j] /\ now' = now /\ proc'[j] = proc[j]
      BY <1>3, <2>2 DEF Listen, InstanceHeartbeat, TypeOK
    <3> QED BY <3>1 DEF HeartbeatsOnTime
  <2> QED BY <2>1, <2>2
<1>4. ASSUME NEW i \in Instance, Load(i) \/ CheckLeader(i) \/ Crash(i)
      PROVE  now' <= heartbeat'[j] + HeartbeatEvery
  <2>1. proc'[j] = proc[j] /\ now' = now /\ heartbeat' = heartbeat
    BY <1>4 DEF Load, CheckLeader, Crash, TypeOK
  <2> QED BY <2>1 DEF HeartbeatsOnTime
<1>5. CASE Tick
  <2>1. now < heartbeat[j] + HeartbeatEvery /\ now' = now + 1 /\ heartbeat' = heartbeat
    BY <1>5 DEF Tick
  <2> QED BY <1>1, <2>1
<1>6. ASSUME \/ \E i \in Instance, t \in Task, named \in BOOLEAN, r \in Resource,
                   nodes \in NodeSets : CreateTask(i, t, named, r, nodes)
             \/ \E t \in Task : Report(t)
             \/ \E t \in Task, s \in TerminalStatus : Finish(t, s)
             \/ \E i \in Instance, t \in Task, s \in {"completed", "failed"} : Resolve(i, t, s)
             \/ \E r \in Request, i \in Instance, k \in Key, v \in Route :
                  Mutate(r, i, k, v)
             \/ \E r \in Request : MutationDone(r)
             \/ UNCHANGED vars
      PROVE  UNCHANGED <<now, proc, heartbeat>>
  BY <1>6 DEF CreateTask, Report, Finish, Resolve, Mutate, MutationDone, vars
<1> QED BY <1>2, <1>3, <1>4, <1>5, <1>6 DEF Next

LEMMA ClearedStep ==
  ASSUME HeartbeatsCount, TypeOK, HeartbeatsOnTime, [Next]_vars,
         NEW i \in Active, Clustered, proc[i] = "loaded", proc'[i] = "cleared",
         NEW j \in Active \ {i}
  PROVE  ~Up(j)
<1> USE ConstAssumption
<1>1. ASSUME NEW k \in Instance, CheckLeader(k) PROVE ~Up(j)
  <2>1. k = i BY <1>1 DEF CheckLeader, TypeOK
  <2>2. ~OtherLeader(i) BY <1>1, <2>1 DEF CheckLeader, TypeOK
  <2>3. ~ heartbeat[j] >= now - LeaderWindow BY <2>2 DEF OtherLeader
  <2>4. /\ now \in Int /\ heartbeat[j] \in Int /\ j \in Instance
        /\ HeartbeatEvery \in Int /\ LeaderWindow \in Int
    BY DEF TypeOK
  <2>5. ~ now <= heartbeat[j] + HeartbeatEvery BY <2>3, <2>4 DEF HeartbeatsCount
  <2> QED BY <2>4, <2>5 DEF HeartbeatsOnTime
<1>2. ASSUME NEW k \in Instance, Load(k) \/ Listen(k) \/ InstanceHeartbeat(k) \/ Crash(k)
      PROVE  FALSE
  BY <1>2 DEF Load, Listen, InstanceHeartbeat, Crash, TypeOK
<1>3. ASSUME \/ \E k \in Instance, t \in Task, named \in BOOLEAN, r \in Resource,
                   nodes \in NodeSets : CreateTask(k, t, named, r, nodes)
             \/ \E t \in Task : Report(t)
             \/ \E t \in Task, s \in TerminalStatus : Finish(t, s)
             \/ \E k \in Instance, t \in Task, s \in {"completed", "failed"} : Resolve(k, t, s)
             \/ \E r \in Request, k \in Instance, q \in Key, v \in Route :
                  Mutate(r, k, q, v)
             \/ \E r \in Request : MutationDone(r)
             \/ Tick
             \/ UNCHANGED vars
      PROVE  proc' = proc
  BY <1>3 DEF CreateTask, Report, Finish, Resolve, Mutate, MutationDone,
              Tick, vars
<1> QED BY <1>1, <1>2, <1>3 DEF Next

(* Nobody passes the leader check next to an active that serves.           *)
THEOREM LeadersAreSeen ==
  ASSUME HeartbeatsCount
  PROVE  Spec => ClearedFindsNoActive
<1> DEFINE A == \A i \in Active :
       Clustered /\ proc[i] = "loaded" /\ proc'[i] = "cleared"
         => \A j \in Active \ {i} : ~Up(j)
<1>1. Init => HeartbeatsOnTime
  BY DEF Init, HeartbeatsOnTime, Up
<1>2. TypeOK /\ HeartbeatsOnTime /\ [Next]_vars => [A]_vars
  BY ClearedStep
<1>3. Spec => [][A]_vars
  <2> HIDE DEF A
  <2> QED BY <1>1, <1>2, InitTypeOK, NextTypeOK, HeartbeatStep, PTL DEF Spec
<1> QED BY <1>3 DEF ClearedFindsNoActive
=============================================================================
