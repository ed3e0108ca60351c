------------------------------- MODULE VdmTasks -------------------------------
(***************************************************************************)
(* Tasks and resource locks of the VDM (apps/vdm/src/server.ts).           *)
(*                                                                         *)
(* Every slow operation of the VDM is a row of vdm_tasks driven by an      *)
(* async closure of the process that accepted the request, and protected   *)
(* by rows of vdm_resource_locks: one per node the operation touches, with *)
(* an expiry that each progress report pushes back.  Both tables live in   *)
(* one SQLite file, so they survive the processes; the closures do not.    *)
(* Every process that opens the database first "recovers" it: active tasks *)
(* become recovery-required and every lock row is deleted.                 *)
(*                                                                         *)
(* A database transaction is one step.  A closure step is the code between *)
(* two awaits that calls updateTask; what it awaits is abstracted to the   *)
(* time it may take.                                                       *)
(***************************************************************************)
EXTENDS Integers

CONSTANTS
  Instance,      \* VDM processes that may open the database
  Active,        \* those with AUXINUX_VDM_ROLE=active; the others are standby
  Task,          \* identifiers randomUUID() may return
  Resource,      \* (type, name) pairs an operation can be about
  Node,          \* node names, "cluster" included
  Request,       \* HTTP mutations that are not tracked by a task
  NoInstance, NoTask, NoMutation,
  TTL,           \* RESOURCE_LOCK_TTL_MS
  StepBudget,    \* longest time a closure can spend between two updateTask calls
  HeartbeatEvery,\* period of updateInstanceHeartbeat
  LeaderWindow,  \* age under which another active's heartbeat refuses a start
  Clustered,     \* CLUSTER_ID # "standalone"
  MaxTime        \* bound of the model's clock

ASSUME ConstAssumption ==
  /\ Active \subseteq Instance
  /\ NoInstance \notin Instance
  /\ NoTask \notin Task
  /\ TTL \in Nat \ {0} /\ StepBudget \in Nat /\ MaxTime \in Nat
  /\ HeartbeatEvery \in Nat /\ LeaderWindow \in Nat
  /\ Clustered \in BOOLEAN

Key == Resource \X Node

(* How an untracked mutation comes in: a route of the panel about a named  *)
(* VM, container or Docker resource; one of its console-ticket and         *)
(* vnc-ticket routes, the second of which rewrites the VM's definition; a  *)
(* route that names no resource in its path, as POST                       *)
(* /api/vdm/resources/:node; a bearer route of the Desktop Client.         *)
Route == {"resource", "ticket", "unnamed", "desktop"}
Mutation == [key : Key, by : Instance, via : Route]
ASSUME NoMutationAssumption == NoMutation \notin Mutation

(* "cancelled" is accepted by the readers of vdm_tasks and never written.  *)
TerminalStatus == {"completed", "completed-with-warning", "failed"}
ActiveStatus   == {"pending", "running"}
Status == {"none", "recovery-required"} \cup ActiveStatus \cup TerminalStatus

VARIABLES
  now,       \* Date.now(); the tables store it as ISO text
  proc,      \* how far process i is: "down", "loaded", "cleared" or "up"
  heartbeat, \* vdm_instances.last_heartbeat of an active instance
  status,    \* vdm_tasks.status; "none" before the row exists
  keysOf,    \* the resource keys of the task's nodes
  beat,      \* vdm_tasks.heartbeat_at
  lock,      \* vdm_resource_locks: the task holding a key, or NoTask
  expires,   \* vdm_resource_locks.expires_at
  flow,      \* flow[t]: the process whose closure drives t, or NoInstance
  mutation   \* untracked mutations a process has sent to a node

tables == <<status, keysOf, beat, lock, expires>>
vars == <<now, proc, heartbeat, status, keysOf, beat, lock, expires, flow, mutation>>

TypeOK ==
  /\ now \in 0 .. MaxTime
  /\ proc \in [Instance -> {"down", "loaded", "cleared", "up"}]
  /\ heartbeat \in [Instance -> Int]
  /\ status \in [Task -> Status]
  /\ keysOf \in [Task -> SUBSET Key]
  /\ beat \in [Task -> Nat]
  /\ lock \in [Key -> Task \cup {NoTask}]
  /\ expires \in [Key -> Nat]
  /\ flow \in [Task -> Instance \cup {NoInstance}]
  /\ mutation \in [Request -> Mutation \cup {NoMutation}]

Init ==
  /\ now = 0
  /\ proc = [i \in Instance |-> "down"]
  /\ heartbeat = [i \in Instance |-> -LeaderWindow - 1]
  /\ status = [t \in Task |-> "none"]
  /\ keysOf = [t \in Task |-> {}]
  /\ beat = [t \in Task |-> 0]
  /\ lock = [k \in Key |-> NoTask]
  /\ expires = [k \in Key |-> 0]
  /\ flow = [t \in Task |-> NoInstance]
  /\ mutation = [r \in Request |-> NoMutation]

-----------------------------------------------------------------------------
(* The lock table.                                                         *)

Held(k)    == lock[k] # NoTask
Expired(k) == Held(k) /\ expires[k] <= now

(* An operation about no named resource takes no lock.                     *)
OperationKeys(named, r, nodes) == IF named THEN {r} \X nodes ELSE {}

(* Bug: only the source node's key is looked up.                           *)
Bug_AcquirableFirstKey(K) == K # {} => \E k \in K : Held(k) => Expired(k)

(* Purging the expired rows frees them; a live row on a wanted key is a    *)
(* 409 that rolls the transaction back.                                    *)
Acquirable(K) == \A k \in K : Held(k) => Expired(k)

(* Deleting rows, with a deleted row's expiry back to its initial value.   *)
DeleteLocks(D) ==
  /\ lock'    = [k \in Key |-> IF k \in D THEN NoTask ELSE lock[k]]
  /\ expires' = [k \in Key |-> IF k \in D THEN 0 ELSE expires[k]]

(* The purge runs only when there is something to lock.                    *)
Purged(K) == {k \in Key : K # {} /\ Expired(k)}

(* Bug: one row is inserted instead of one per node.                       *)
Bug_InsertOneLock(t, K) ==
  LET first == IF K = {} THEN {} ELSE {CHOOSE k \in K : TRUE} IN
  /\ lock'    = [k \in Key |-> IF k \in first THEN t
                               ELSE IF k \in Purged(K) THEN NoTask ELSE lock[k]]
  /\ expires' = [k \in Key |-> IF k \in first THEN now + TTL
                               ELSE IF k \in Purged(K) THEN 0 ELSE expires[k]]

InsertLocks(t, K) ==
  /\ lock' = [k \in Key |-> IF k \in K THEN t
                            ELSE IF k \in Purged(K) THEN NoTask ELSE lock[k]]
  /\ expires' = [k \in Key |-> IF k \in K THEN now + TTL
                               ELSE IF k \in Purged(K) THEN 0 ELSE expires[k]]

RenewLocks(t) ==
  /\ expires' = [k \in Key |-> IF lock[k] = t THEN now + TTL ELSE expires[k]]
  /\ UNCHANGED lock

Up(i) == proc[i] = "up"
Serving(i) == Up(i) /\ i \in Active

CreateTask(i, t, named, r, nodes) ==
  LET K == OperationKeys(named, r, nodes) IN
  /\ Serving(i)
  /\ status[t] = "none"
  /\ Acquirable(K)
  /\ status'  = [status EXCEPT ![t] = "pending"]
  /\ keysOf'  = [keysOf EXCEPT ![t] = K]
  /\ beat'    = [beat EXCEPT ![t] = now]
  /\ InsertLocks(t, K)
  /\ flow'    = [flow EXCEPT ![t] = i]
  /\ UNCHANGED <<now, proc, heartbeat, mutation>>

(* Bug: a warning is not known as terminal and keeps the locks.            *)
Bug_WarningKeepsLocks(t, s) ==
  /\ status' = [status EXCEPT ![t] = s]
  /\ beat'   = [beat EXCEPT ![t] = now]
  /\ IF s \in {"completed", "failed"}
       THEN DeleteLocks({k \in Key : lock[k] = t})
       ELSE RenewLocks(t)

(* updateTask writes whatever status it is given, over any other; a        *)
(* terminal one deletes the task's locks, another one renews them.         *)
UpdateTask(t, s) ==
  /\ status' = [status EXCEPT ![t] = s]
  /\ beat'   = [beat EXCEPT ![t] = now]
  /\ IF s \in TerminalStatus
       THEN DeleteLocks({k \in Key : lock[k] = t})
       ELSE RenewLocks(t)

(* A closure reports progress between two awaits.                          *)
Report(t) ==
  /\ flow[t] # NoInstance
  /\ UpdateTask(t, "running")
  /\ UNCHANGED <<now, proc, heartbeat, keysOf, flow, mutation>>

(* The closure's last statement on every path records how it ended.        *)
Finish(t, s) ==
  /\ flow[t] # NoInstance
  /\ UpdateTask(t, s)
  /\ flow' = [flow EXCEPT ![t] = NoInstance]
  /\ UNCHANGED <<now, proc, heartbeat, keysOf, mutation>>

(* Bug: resolve does not ask whether the task needs recovery.              *)
Bug_ResolveAny(i, t, s) ==
  /\ Serving(i)
  /\ status[t] # "none"
  /\ UpdateTask(t, s)
  /\ UNCHANGED <<now, proc, heartbeat, keysOf, flow, mutation>>

(* POST /api/vdm/tasks/:id/resolve                                         *)
Resolve(i, t, s) ==
  /\ Serving(i)
  /\ status[t] = "recovery-required"
  /\ UpdateTask(t, s)
  /\ UNCHANGED <<now, proc, heartbeat, keysOf, flow, mutation>>

-----------------------------------------------------------------------------
(* Mutations no task tracks: delete, start, stop, configuration...  The    *)
(* preHandler hook asks the lock table for the routes whose path names a   *)
(* resource, tickets excepted; the bearer routes return before it does.    *)

Gated(v) == v = "resource"

Mutate(r, i, k, v) ==
  /\ Serving(i)
  /\ mutation[r] = NoMutation
  /\ Gated(v) => ~(Held(k) /\ expires[k] > now)
  /\ mutation' = [mutation EXCEPT ![r] = [key |-> k, by |-> i, via |-> v]]
  /\ UNCHANGED <<now, proc, heartbeat, tables, flow>>

MutationDone(r) ==
  /\ mutation[r] # NoMutation
  /\ mutation' = [mutation EXCEPT ![r] = NoMutation]
  /\ UNCHANGED <<now, proc, heartbeat, tables, flow>>

-----------------------------------------------------------------------------
(* Processes.                                                              *)

(* Bugs: recovery forgets the pending tasks; forgets the locks; writes a   *)
(* status TASK_VALID_STATUSES does not know.                               *)
Bug_RecoverRunningOnly ==
  /\ status' = [t \in Task |-> IF status[t] = "running"
                                 THEN "recovery-required" ELSE status[t]]
  /\ DeleteLocks(Key)
  /\ UNCHANGED <<keysOf, beat>>
Bug_RecoverUnknownStatus ==
  /\ status' = [t \in Task |-> IF status[t] \in ActiveStatus
                                 THEN "interrupted" ELSE status[t]]
  /\ DeleteLocks(Key)
  /\ UNCHANGED <<keysOf, beat>>

(* recoverInterruptedTasks, run by every process as it loads.              *)
RecoverInterruptedTasks ==
  /\ status' = [t \in Task |-> IF status[t] \in ActiveStatus
                                 THEN "recovery-required" ELSE status[t]]
  /\ DeleteLocks(Key)
  /\ UNCHANGED <<keysOf, beat>>

(* Bug: the cutoff is the current time.                                    *)
Bug_OtherLeaderNow(i) == \E j \in Active \ {i} : heartbeat[j] >= now

OtherLeader(i) ==
  \E j \in Active \ {i} : heartbeat[j] >= now - LeaderWindow

(* A process recovers the database as soon as it loads, then looks for     *)
(* another leader, and only then publishes its own heartbeat and listens.  *)
(* Other processes may run between these transactions.                     *)
Load(i) ==
  /\ proc[i] = "down"
  /\ RecoverInterruptedTasks
  /\ proc' = [proc EXCEPT ![i] = "loaded"]
  /\ UNCHANGED <<now, heartbeat, flow, mutation>>

CheckLeader(i) ==
  /\ proc[i] = "loaded"
  /\ proc' = [proc EXCEPT ![i] =
       IF Clustered /\ i \in Active /\ OtherLeader(i) THEN "down" ELSE "cleared"]
  /\ UNCHANGED <<now, heartbeat, tables, flow, mutation>>

Listen(i) ==
  /\ proc[i] = "cleared"
  /\ proc' = [proc EXCEPT ![i] = "up"]
  /\ heartbeat' = [heartbeat EXCEPT ![i] = now]
  /\ UNCHANGED <<now, tables, flow, mutation>>

InstanceHeartbeat(i) ==
  /\ Up(i)
  /\ now >= heartbeat[i] + HeartbeatEvery
  /\ heartbeat' = [heartbeat EXCEPT ![i] = now]
  /\ UNCHANGED <<now, proc, tables, flow, mutation>>

(* A process stops or is killed; its closures and requests go with it.     *)
Crash(i) ==
  /\ proc[i] # "down"
  /\ proc' = [proc EXCEPT ![i] = "down"]
  /\ flow' = [t \in Task |-> IF flow[t] = i THEN NoInstance ELSE flow[t]]
  /\ mutation' = [r \in Request |->
       IF mutation[r] # NoMutation /\ mutation[r].by = i THEN NoMutation ELSE mutation[r]]
  /\ UNCHANGED <<now, heartbeat, tables>>

(* Every request a closure awaits has a timeout, and the heartbeat a timer. *)
Tick ==
  /\ now < MaxTime
  /\ \A t \in Task : flow[t] # NoInstance => now < beat[t] + StepBudget
  /\ \A i \in Instance : Up(i) => now < heartbeat[i] + HeartbeatEvery
  /\ now' = now + 1
  /\ UNCHANGED <<proc, heartbeat, tables, flow, mutation>>

-----------------------------------------------------------------------------
NodeSets == {{n, m} : n \in Node, m \in Node}

Next ==
  \/ \E i \in Instance, t \in Task, named \in BOOLEAN, r \in Resource, nodes \in NodeSets :
       CreateTask(i, t, named, r, nodes)
  \/ \E t \in Task : Report(t)
  \/ \E t \in Task, s \in TerminalStatus : Finish(t, s)
  \/ \E i \in Instance, t \in Task, s \in {"completed", "failed"} : Resolve(i, t, s)
  \/ \E r \in Request, i \in Instance, k \in Key, v \in Route : Mutate(r, i, k, v)
  \/ \E r \in Request : MutationDone(r)
  \/ \E i \in Instance : Load(i)
  \/ \E i \in Instance : CheckLeader(i)
  \/ \E i \in Instance : Listen(i)
  \/ \E i \in Instance : InstanceHeartbeat(i)
  \/ \E i \in Instance : Crash(i)
  \/ Tick

Spec == Init /\ [][Next]_vars

(* A closure that awaits is eventually answered or timed out, and systemd  *)
(* restarts the service.                                                   *)
Fairness ==
  /\ \A t \in Task : WF_vars(\E s \in TerminalStatus : Finish(t, s))
  /\ \A i \in Instance : WF_vars(Load(i) \/ CheckLeader(i) \/ Listen(i))

FairSpec == Spec /\ Fairness

-----------------------------------------------------------------------------
(* Properties.                                                             *)

Standalone == \A i, j \in Instance : i = j
LeaseCoversStep == StepBudget < TTL

Driven(t) == flow[t] # NoInstance

(* A lock row always belongs to a task that is still pending or running    *)
(* and that named the key: no recovery, completion or purge leaves a row   *)
(* behind that would make a resource busy for nobody.                      *)
LockOwnerIsActive ==
  \A k \in Key : Held(k) =>
    /\ status[lock[k]] \in ActiveStatus
    /\ k \in keysOf[lock[k]]

(* Two operations that are really running never share a resource on a      *)
(* node, however long they run and whatever restarts in between: createTask *)
(* refuses the second one with "Resource busy".                            *)
MutualExclusion ==
  \A t, u \in Task : Driven(t) /\ Driven(u) /\ t # u => keysOf[t] \cap keysOf[u] = {}

(* The work being done, as an operator sees it: what each driven task uses. *)
Work == [t \in Task |-> IF Driven(t) THEN keysOf[t] ELSE {}]

Exclusive == INSTANCE ExclusiveWork WITH Job <- Task, Item <- Key, work <- Work

(* The tables, leases, recovery and closures implement exclusive work.     *)
ImplementsExclusiveWork == Exclusive!Spec

(* The task table tells the truth about the closures: while a process is   *)
(* up, a task is shown pending or running exactly when something drives it. *)
ShownActiveIffDriven ==
  (\E i \in Instance : proc[i] # "down") =>
    \A t \in Task : status[t] \in ActiveStatus <=> Driven(t)

(* A mutation that comes in by a route the hook looks at is never sent to  *)
(* a node about a resource some running operation works on: the unexpired  *)
(* locks cover them all.  A ticket, a route without a name and the Desktop *)
(* Client do meet running operations.                                      *)
GatedMutationFindsResourceFree ==
  [][\A r \in Request :
       mutation[r] = NoMutation /\ mutation'[r] # NoMutation /\ mutation'[r].via = "resource"
         => \A t \in Task : Driven(t) => mutation'[r].key \notin keysOf[t]]_vars

(* A task that ended keeps the outcome it ended with, and a task that was  *)
(* interrupted is settled by an administrator only, never revived.         *)
OutcomeIsFinal ==
  [][\A t \in Task :
       /\ status[t] \in TerminalStatus => status'[t] = status[t]
       /\ status[t] = "recovery-required" =>
            status'[t] \in {"recovery-required", "completed", "failed"}]_vars

(* Every accepted task leaves the pending and running states, and frees     *)
(* its resources by that, as a lock row belongs to an active task.         *)
EveryTaskSettles ==
  \A t \in Task : status[t] \in ActiveStatus ~> status[t] \notin ActiveStatus

(* The leader check works against an active that has been serving: with    *)
(* heartbeats on time nobody is cleared to serve next to it.               *)
ClearedFindsNoActive ==
  [][\A i \in Active :
       Clustered /\ proc[i] = "loaded" /\ proc'[i] = "cleared"
         => \A j \in Active \ {i} : ~Up(j)]_vars
=============================================================================
