# A verification project for Virtua

Virtua runs virtual machines, LXC containers and Docker containers on a set of
hosts and manages them from one panel. This directory holds TLA+ models of its
core logic, the TLC runs that check them and proofs for TLAPS. Every definition
of a module translates lines of the source; `PROJECT.json` names the lines
(`map`), the runs, the theorems, the hazards the properties are for and the
disagreements between code and text that the runs exhibit (`findings`).

Source paths below are relative to `src/apps/` unless they say otherwise.

## 1. Inventory: the system and its parts

```
 panel / CLI / Desktop client
      |  HTTP                                  HTTP
      v                                         v
 VDM (vdm/server.ts)  --- fetchNode: HTTP --->  node API (api/server.ts)
 vdm.sqlite: tasks, locks,                      api.sqlite: task_history, acl,
 nodes, storages, backup items                  locks, crash events, backups
                                                  |  one JSON line per request
                                                  v  over a Unix socket
                                                runner (runner/runner.ts, handlers/*)
                                                  |  execFile
                                                  v
                                          libvirt, qemu-img, lxc-*, docker, mount ...
```

Each of the three servers is one Node.js process: code between two `await`s is
atomic, everything else interleaves. The VDM and the API each have a SQLite
file that survives them; closures, maps and open requests do not. Nobody
cancels work: a caller that times out closes its socket and the callee goes on.

| Component (code) | State it keeps | Operations | What is hard | What makes it correct |
|---|---|---|---|---|
| **VDM tasks and locks** (vdm/server.ts 245-309, 846-910) | `vdm_tasks`, `vdm_resource_locks`, `vdm_instances`; one closure per task | create, progress, finish, resolve, recover at start; leader check; gate of the panel's mutations | crashes between two rows, leases renewed only by progress, several processes on one file | no two operations on one resource; the task list tells the truth; every task settles, every lock is freed |
| **Moves and clones** (vdm/server.ts 530-753, 1738-1931, 2196-2303, node: qemu.ts, lxc.ts) | the task; definitions and disks on nodes; the archive handed over | prepare, backup, hand over, restore, validate, delete | errors, timeouts with orphaned requests, restarts, same path on two nodes | no guest is lost; what is reported is true; nobody else's disk is touched |
| **Backup catalogue** (vdm/server.ts 690-840, 2938-3003) | `vdm_backup_items`, `vdm_backup_jobs`, archives, the node's rows | back up, schedule, prune, delete, verify | stale lists, late answers, three places that know an archive | retention never takes the last archive; nothing addressable is forgotten; completed means catalogued |
| **Crash watcher** (api/crashWatcher.ts, db.ts) | reference states, expected transitions, `guest_crash_events` | poll, diagnose, start again, write down | polls against orders, failed calls, slow starts, API restarts | bounded restarts; a crash is written once; every crash is written; no phantom |
| **VM disks** (runner/handlers/qemu.ts 2558-2950) | chains of image files, snapshots of libvirt | snapshot, roll back, delete snapshot, backup (file and PBS) | live machine, failing `blockcommit`, a stop between freeze and thaw | no write is lost; a backup is of one moment; a rollback restores |
| Runner IPC (api/runnerClient.ts, runner.ts) | open sockets | call, progress, answer, timeout | timeout of the caller only, split and late lines | an answer reaches its own call once; a timed-out call is not repeated blindly |
| API tasks, protected resources (api/server.ts 1900-2235, 3283-3417) | `backgroundTasks` map and `task_history`; `resource_locks` | create, update, finish; protect, 423 gate | a restart leaves running rows behind; the gate reads a path | a task shown running has a closure; a protected guest is not changed |
| Definition of VMs (qemu.ts 285-310 and callers) | the libvirt definition; `vmDefineLocks` | read, modify, define | read-modify-write with and without the lock | no change of a definition is lost |
| Node health (vdm/server.ts 407-470) | status and failure count of `vdm_nodes` | sync one, sync all | overlapping syncs, rows read before an await | two failures in a row and nothing less make a node offline |
| Shared storage (vdm/server.ts 530-627, storageReconcile.ts, storage.ts) | `vdm_shared_storage`, pools and mounts of nodes | mount on demand, reconcile every minute | a remount is delete then create, next to a running backup | a healthy mount is never taken down; a missing one comes back |
| PBS (vdm/pbs.ts, server.ts 3190-3603, api/pbsSchedule.ts, runner pbs*.ts) | remotes, jobs, `vdmPbsJobsRunning` | daily jobs, follow a node task, prune | a node restart while followed, catch-up after an outage | one run per job and day; a followed task always ends |
| Sessions, enrolment, tickets (vdm/server.ts 215-243, 356-389, 1025-1113) | sessions, join tokens, ticket map | login, join, issue and consume tickets | the token outlives the request it allows | a ticket is used as often as it may be |
| Desktop (vdm/desktop.ts, api/desktop.ts) | devices, pairing codes, refresh tokens | pair, refresh, revoke | rotation against a lost answer | one live refresh token per device |
| Docker and its transfer (vdm/server.ts 2400-2500, docker.ts, dockerMigration.ts) | containers, export archives | act, export, import, remove | lock on the target's name only | as for moves |
| LXC storage (lxc.ts 2600-3050, lxcLayout.ts, lxcRootfsGuard.ts) | root filesystems, snapshot directories | snapshot, roll back, relocate, audit | copies of a running tree, paths rewritten after a copy | a container never uses another one's root |
| Network, firewall; host, VirtuaOS, TLS; consoles; VDM log | kernel and system tools | thin calls | | |
| Panels, CLI, Desktop client; installers, packaging, languages | none of the core | issue requests | | |

The last two rows are left out for good: their outcome lies in the kernel and in
tools the source only invokes, or they only issue requests the models choose
freely. Of the rows above them, sessions, Desktop, Docker and LXC storage have no
module (section 7 says why); runner IPC and API tasks appear inside the modules
of the operations that use them.

## 2. The modules

| Module | What it is |
|---|---|
| `ExclusiveWork` | abstract: jobs that use sets of items, never two on one item; implemented by the tasks of the VDM and by the define lock of the runner |
| `VdmTasks` | the VDM's task and lock tables, processes and leases; implements `ExclusiveWork` |
| `CopySet` | abstract: where the copies of a guest are; one always remains, unless its owner forsakes it |
| `VdmMigration` | moves and clones, the VDM's side and the node's; implements `CopySet` |
| `VdmBackups` | backups, catalogue, retention, deletion, verification |
| `CrashWatcher` | the watcher of a node against guests, runner commands and API orders |
| `VmDisks` | the image chain of a VM under snapshots, rollbacks and backups |
| `VmDefine` | the definition of a VM under the runner calls that read, change and define it; implements `ExclusiveWork` |
| `PbsJobs` | a datacenter-wide PBS job, the node tasks it follows and the runner's work for them |
| `SharedMounts` | the health of a node and the mounts of a shared storage on it |
| `X_proofs` | the theorems about `X` |
| `MCX` | `X` with the symmetry TLC may use; the instances are in `MCX*.cfg` |

The modules meet at three interfaces. `VdmTasks` says what holding the locks of
an operation means; `VdmMigration` has one lock per guest and node as its guard
for starting a workflow and takes no more from it. `VdmMigration` sees a
backup and a restore of a node as one or three steps; `VmDisks` opens the backup
of a VM up, next to other calls: the VDM's snapshot routes and the node's own API take
none of those locks.
`CrashWatcher` sees the runner's listing and its start command, which may be
late. The `prepare` step of a move is the whole of `SharedMounts` seen from an
operation: an answer or an error. `PbsJobs` takes a backup of a machine as one
piece of work, which is the other half of `VmDisks`. None of them is composed by `INSTANCE`: the state they share is a lock or
an answer, not a variable.

A `Bug_...` operator before a definition is that definition with a mistake
somebody could make in this code; `PROJECT.json` pairs each with the property
that notices it.

### VdmTasks

A database transaction is one step; a closure step is the code between two
`updateTask` calls, and the time it may take is `StepBudget`. `CreateTask`,
`UpdateTask` (as `Report` and `Finish`), `Resolve` and `RecoverInterruptedTasks`
keep the source's names. `Mutate` is a request that changes a guest: the gate
(`Gated`) looks at the locks for the routes its pattern knows; a Desktop route, the console and
VNC tickets, one of which rewrites a machine's definition, and routes whose path names
no guest pass it. A process goes from down over `Load`
(recovery runs here, before any role is known) and `CheckLeader` to `Listen`;
`Crash` drops its closures. `flow` is not in any table: it is what is really
running, and the properties compare the tables with it.

### VdmMigration

A workflow is a record of what was asked, the request it made last (`step`) and
how far the node is with it (`phase`). `Proceed`, `Complete`, `GiveUp` and
`Restart` are the VDM's; `Backup`, `RestoreCheck`, `RestoreWrite`,
`RestoreDefine`, `Validate`, `Undefine`, `Unlink` and `Break` are the node's, in
the order of its handlers. After `GiveUp` or `Restart` the node's actions remain
enabled. A definition holds paths and a path is resolved on the node that reads
it, so `local` is one file per node and `shared` one for all. A VM cannot be
started from a restore until it is defined; a container can as soon as its
directory is there, which is why containers have a run of their own. A VM may have
several disks, of which a restore places the first. Work may begin on a guest that
an orphaned request still uses, since no handler asks for that: `rushed` remembers
these guests, of which nothing is promised.

### VdmBackups

An archive is a file (`file`), a row of the node (`node`) and an item of the
catalogue (`item`, and `ref` when the node's id is known); `hand` remembers what
somebody chose to delete. A prune and a deletion hold the list they read
(`todo`) while items change under them. `Kept` is the retention: newest per day, week and month.

### CrashWatcher

A round is `BeginRound`, a reading per guest and family, `Observe` (compare,
replace the reference), then per fallen guest a diagnosis and perhaps a start.
Guests, the runner's commands and the API's orders act in between. Marks and
rows carry their age and `Tick` ages them, so there is no clock to bound. The
rows that count restarts (`rows`) and the starts that were ordered (`started`,
a history) lie in the same slots: a start takes a free one and holds it in
`restarting` until its row is written, so that each start can be compared with
its own row.

### VmDisks

Files with a backing file each and blocks of their own; `View` is what a reader
sees through the chain. `wrote` is what the guest last wrote to each block: the
history the properties compare the disk with. Every command of virsh that can
fail has both outcomes, and what a call found out about the state of the machine
(`on`, `start`) is no guard of what it then does. `named` is the disk in the definition,
`live` the one in use: `RollbackEnds` redefines a machine that survived its
`virsh destroy`, and `astray` remembers that until it is off and started again.
`crossed` marks a backup whose disk somebody else has moved. A backup in the format
`tar` reads the file alone (`Reading`), all others the chain.

### VmDefine

A definition is a function from settings to the request that set them last, and a
set of devices; a password is the request that made it, so that an overwritten
change always shows. A call goes from `Arrive` over its read (`EnterSection` inside
`withVmDefineLock`, `ReadOutside` without it) to its define (`DefineInSection`,
`DefineOutside`); between the two it holds in `base` what it read. The lock is as in
the code: `tail` is the map's promise, `prev` the one a section waits for, and `Sections`, what is inside it, is what
`ExclusiveWork` sees. Around the cycles are the commands of libvirt that rewrite the definition themselves
(`Attach`, `Detach`, `Undefine`) and the restart of the runner. A running machine has the
definition it was started with (`live`), which a start reads and defines again, and passwords
that open its `display`; `SetPassword` changes those only. `Dump` is what a cycle asks libvirt
for, `Fallback` what it takes when that command fails; `LooksLive` may fail as well. Histories
name who suffers from that: `crossed` was overtaken by somebody the lock does not hold,
`misread` read something else than the definition, `unseen` could not see the machine, and
`disturbed` says that some define has undone a change or made a password blindly.

### PbsJobs

The job's row (`job`) and the entry of `vdmPbsJobsRunning` (`busy`) belong to
the VDM, `row` stands for a task in `backgroundTasks` and `task_history`,
`inFlight` for `pbsBackupsInFlight`, `call` for the API's open call of the
runner and `work` for what the runner really does. A run is `Begin` (by the
scheduler or by hand), `List` (what the nodes have `Answered`: a node may fail one of its two
listings, and a failing `lxc-ls` is an answer without containers; the history `unlisted` names
those the run then does not know of), then for each guest `Take`, `NodeAccepts` or
`PostFails`, and `PollEnds` or `GivesUp`; `Summarize` writes the status. The VDM,
the API and the runner stop and start separately: each restart leaves the state of
the other two. Of the time only the slots matter; `time` is odd after the slot of
a day.

### SharedMounts

`row` and `sync` are the node's health: a sync computes the failure count from
the row it read before its request. `caller` is how far each
`ensureStorageMountedOnNode` is, that of the round of every minute and those of
operations; `line` holds the mounts and unmounts the node's API asks of its
runner, which serves one mountpoint in order; `pool` is the API's row and `mount` what the
kernel has. Anything may fail until `Quietens`: a caller gives up, the API's call
times out while the runner goes on, any process or the node restarts, a mount
hangs. `outlived` remembers a mount that stayed behind when its call or its row
went.

## 3. The runs

| Run | States | Properties | What it shows |
|---|---|---|---|
| `tasks_single` | 417 826 | TypeOK, ShownActiveIffDriven, GatedMutationFindsResourceFree, OutcomeIsFinal, ImplementsExclusiveWork, EveryTaskSettles | one process that may crash anywhere |
| `tasks_ha` | 2 101 696 | LockOwnerIsActive, ClearedFindsNoActive | two actives and a standby on one file |
| `moves_local` | 1 053 125 | TypeOK, CompletedMeansMoved, DisksNeverGoBack, ImplementsCopySet | VMs of one or two disks over local pools, two workflows; `ImplementsCopySet` contains `GuestSurvives` |
| `moves_lxc` | 740 852 | GuestSurvives, EveryWorkflowSettles | containers, through a shared storage |
| `moves_shared` | violation | MovedGuestIsWhole | the second move through one storage unlinks the disk |
| `backup_catalogue` | 1 271 745 | TypeOK, LatestArchiveStays, CompletedIsCatalogued, ForgottenIsDeleted | prunes, deletions, verifications and restarts interleaved |
| `crash_watch` | 383 463 | TypeOK, RestartsAreBounded, OncePerStop, CrashIsRecorded | the watcher against everything else |
| `vm_disks` | 3 450 775 | TypeOK, WritesSurvive, BackupIsPointInTime | snapshots, rollbacks and two backups at once of a live VM |
| `vm_rollback` | violation | RollbackRestores | the fallback of a rollback restores nothing |
| `vm_define` | 448 352 | TypeOK, HandedPasswordOpens, DefineChangesOnlyItsOwn, ImplementsExclusiveWork, EveryCallEnds | three calls of any kind on one machine |
| `pbs_jobs` | 1 534 353 | TypeOK, OkMeansStored, OneBackupPerGuest, RunsAlone, OncePerSlot, SlotIsServed | a job over two guests while VDM, API and runner restart |
| `shared_mounts` | 910 040 | TypeOK, WaiterIsAnswered, StrayMountWasCut, StorageComesBack | the minute's round, an operation and everything that fails |

All passing runs are complete searches, each in less than three minutes with two
workers. Every constant is in the `.cfg`.

**Bounds, and why they are enough.**

- `tasks_single`: two tasks on one resource and two nodes give every overlap of
  two node sets, and a third task would meet either of them the same way. `TTL` 2
  and `StepBudget` 1 keep the one relation that matters, a step shorter than a
  lease; `MaxTime` 3 lets a lease run out and be taken over. `tasks_ha` has a
  standby because it recovers the tables like the others, and one node, since
  node sets are not its question.
- `moves_*`: two nodes are all a workflow ever names; two workflows are a move
  and a second one, or a clone, that meets what the first left, or what it is still
  doing. In `moves_local` a VM has one disk or two, the second standing for all that a
  restore does not place; a container has its directory only. One write
  (`MaxVersion`) tells a newer disk from an older one. `moves_lxc` has none, since
  a container's disk cannot be set back by anything but a restore over it.
- `backup_catalogue`: two backups are the smallest number of which one displaces
  the other; three days and limits of one make a day and a week differ; one
  administrator overlaps with the prune of each backup.
- `crash_watch`: one guest, since the watcher handles guests one after the other
  and another guest is only delay, which the model has anyway (any action may
  happen between two steps of a round); `MaxAttempts` 2, `Window` 3 and `Ttl` 2 let
  a row and a mark expire before and after the other; two orders in flight
  overlap.
- `vm_disks`: two blocks so that a copy can be torn, one write so that a block has
  an old and a new content, two calls that cross each other, and three files: a
  snapshot's or a backup's overlay on the disk, and one more on that. `vm_rollback`
  has four files and two snapshots, and one call.
- `vm_define`: three requests are a cycle, one that comes between its read and its
  define, and a third that waits in the lock's line behind both; each may be of
  any of the twelve kinds.
- `pbs_jobs`: two guests, a machine named by the job and a container found by the listing, on
  one node; two tasks and two runs let a run follow a task while another is started by hand or
  after a restart; one slot.
- `shared_mounts`: the round and one operation are the two callers that can cross;
  two calls under way are an unmount and a mount in either order. Both families of
  storage (`s3`, `nfs`) are initial states. `Old` gives the node a version the VDM calls
  incompatible, so that "degraded" is also a healthy node's status.

`CHECK_DEADLOCK FALSE` is in the `moves_*`, `backup_catalogue`, `vm_define`, `pbs_jobs` and
`shared_mounts` configurations: their workflows, backups, requests or tasks are
used up, and the system may then stop.

**Fairness.**

- `VdmTasks`: a closure ends, because each request it awaits has a timeout
  (nodeClient.ts 71), and a process that is down starts and goes on starting,
  because the service manager restarts it after a failure
  (`Restart=on-failure`, `src/INSTALL/vdm-install.sh:1584`). A stop by hand that
  nobody undoes is no failure, and then nothing is promised.
- `VdmMigration`: `Proceed \/ Complete \/ GiveUp` of each workflow, for the same timeout.
  Nothing is assumed of a node, which may never answer.
- `CrashWatcher`: weak fairness on each step of a round, every call of the
  runner having a timeout, and strong fairness on a round in which both listings
  answer: the runner is not out of reach for ever. Nothing is assumed of guests
  and of the API's users.
- `VmDefine`: a call that has arrived goes on, since every command of virsh ends,
  well or not. Nothing is assumed of restarts and of new requests.
- `PbsJobs`: a run of the VDM goes on (its timers fire, its requests and polls have
  timeouts), the scheduler ticks every minute and the VDM is started again. Nothing is asked of
  the nodes. `SlotIsServed` is promised to a VDM that at last stays up; it
  contains that a run ends, since a run that hangs would keep the mark and
  the next slot would never be served.
- `SharedMounts`: the VDM's two timers go off, each of its requests ends, and the
  API and the runner go on with what they have begun. `StorageComesBack` is promised
  from the moment nothing fails any more (`quiet`); what came before is arbitrary.
- `VdmBackups` and `VmDisks` are checked for safety only.

## 4. What the code does against its own words

Two disagreements are exhibited by runs:

- `moves_shared`: a restore through a shared storage always makes
  `<mount>/<name>.qcow2`; for the second move source and target are one file.
- `vm_rollback`: the fallback takes the overlay made by the snapshot for the disk
  of the snapshot, so that nothing is rolled back.

Others were met on the way. The models have the behaviour, and the properties
are stated so that it is excluded by name:

- `recoverInterruptedTasks` runs as any process loads, a standby included
  (`vdm/src/server.ts:309`), while `INSTALL/VDM-HA.md` says a standby is
  read-only. `ShownActiveIffDriven` is therefore claimed for one process.
- A backup archives all writable disks, a restore puts only the primary one in its
  new place; the move deletes the source and says "complete". The model has it, with
  VMs of two disks, and the other disks are lost: `CopySet` and `CompletedMeansMoved` are
  therefore about the primary disk, `DisksNeverGoBack` about all disks of a guest that stays.
- A request that timed out, or outlived a restart of the VDM, goes on at its node,
  while the locks are gone; the next move or clone of the guest is accepted
  (`vdm/src/server.ts` 1747, 1832, 2205), and a late deletion may then take what the new
  one relies on. No text says that this is excluded; the properties excuse a guest that
  was `rushed` in this way, as long as it was in use when new work on it began.
- A failed `virsh` or `lxc-info` about a single guest is the state `unknown`, which
  the watcher compares like a stop, although `crashWatcher.ts:102` says a failed
  call must never be read as stopped guests. `OncePerStop` and `CrashIsRecorded` speak of stops.
- The comment above `dumpDomainXmlForDefine` (`qemu.ts:779`) says a dump for a
  define must carry `--security-info`; `repairVmDisk` and the fallback of a
  rollback define from a plain dump. `dumpDomainXmlForDefine` itself takes the plain dump
  after *any* failure of the first one, although the comment says "only if this libvirt build
  rejects the flag" (785), and the passwords are then defined away. `DefineChangesOnlyItsOwn`
  excuses a define that was `misread`.
- A rollback ignores that `virsh destroy` failed (`qemu.ts:2667`) and redefines the
  machine under its feet; its writes since the snapshot are lost when it stops.
  `WritesSurvive` excuses it from then until the next start. A machine whose state could not be read
  is backed up as if it were off (`qemu.ts:2889`), and no call notices that another has
  moved the disk it reads: `BackupIsPointInTime` excuses a backup that was `crossed`. An archive in the format `tar` (`qemu.ts:2928`)
  holds the top file only, so that with a live snapshot it lacks the files below;
  the property says that it lacks nothing else.
- "Every function that redefines a domain after reading its current XML must go through this
  lock", says the comment on `withVmDefineLock` (`qemu.ts:294`). A start (1509), a change of
  configuration (2171), the boot order (1086), a repair (3076) and a rollback (2703) do not, and may undo what was changed since
  their read. `DefineChangesOnlyItsOwn` excuses a define that was `crossed` in this way.
- A start of a machine that runs (1506) reads the running machine's XML, defines it, and only then
  fails: what was changed in the definition since the machine was started is gone, a console
  password for instance. Nobody need cross it; it is `misread`.
- "Enabled nodes that cannot be listed are reported as skipped", says the comment on
  `resolveVdmPbsJobGuests` (`vdm/src/server.ts:3481`); but the runner answers a failing `lxc-ls`
  with an empty list (`lxc.ts:1494`), the node is not skipped, and the job may say "ok" without
  its containers. `OkMeansStored` excuses those (`unlisted`) and nobody else.
- A console request whose look at the machine fails (313, 878) takes it for one that is off
  and hands out a password the running display does not know. `HandedPasswordOpens`
  excuses a call that was `unseen` in this way.

## 5. What is proved

The proofs hold for every value of the constants that satisfies the `ASSUME`s of
the module, which say no more than that bounds are naturals and model values are
outside the sets they stand beside; further hypotheses are named here.

**VdmTasks.** `TypeCorrect` and `LocksBelongToActiveTasks` (`LockOwnerIsActive`)
hold for any number of processes. So does `LeadersAreSeen`
(`ClearedFindsNoActive`), from `HeartbeatsOnTime`, that the heartbeat of a process
that serves is no older than its period, and the hypothesis `HeartbeatsCount`, that the window in
which it counts is no shorter (10 s and 30 s, `vdm/src/server.ts:844`). The rest holds
for one process (`Standalone`). What is about locks needs `LeaseCoversStep`: a closure
speaks before its lease ends, which is how the two timeouts at
`vdm/src/server.ts:161` are set by default (4 h and 24 h) and not enforced.
`TaskListIsTruthful` (`ShownActiveIffDriven`) and `OutcomesAreFinal` (`OutcomeIsFinal`)
are about rows and closures only and do without it, from `ShownInv`. Types
and the property alone are not inductive: that a new task finds its keys free
needs that every driven task *has* its rows and that they have not expired. So
`IInv` adds `DrivenIsProtected`: a driven task is shown active, its process is
up, it spoke within its step budget, and each of its keys carries its row with an
expiry that counts from that moment. From it follow
`RunningOperationsAreExclusive` (`MutualExclusion`, the invariant behind
`ImplementsExclusiveWork`), `GatedMutationsFindResourcesFree`
(`GatedMutationFindsResourceFree`: a request the gate looks at finds its guest out of use) and `TasksImplementExclusiveWork`, a
step of the tables being a step of `ExclusiveWork` or none under the mapping
`Work`. That locks are freed is `LockOwnerIsActive` together with
`EveryTaskSettles`, which only TLC checks.

**VdmMigration.** `TypeCorrect` without hypothesis. The rest under `LocalMoves`:
either local pools without a shared storage or containers, whatever storage is
chosen; any number of disks, and work begun at any time. For VMs, local pools are the
case in which it is true at all: `moves_shared` shows the other one fail. A container
is in the node's own directory wherever its archive came from, so that the argument
about files is the same; what differs, that its restore makes it before it is whole,
is in `Stage`. The proof has two layers. `Sound` is about where disks are, and no order of
requests disturbs it: a definition names the guest's own primary disk, a further disk
under another name has stayed behind on another node (`StayBehind`), only primary disks are
ever copied (`OneHome`), and what a deletion will unlink is the source's own
(`DoomedOwn`). `MoveInv` adds what a request in flight may count on (`Stage`), for guests
that were not rushed: a half-done restore has written the target's disk, a deletion is
asked for only with the target defined; `DisjointUse` says that two workflows meet in rushed guests only.
It gives `NoGuestIsLost` (`GuestSurvives`) and, with what each request does to the
files (`RestoreEffect`, `DeleteEffect`, `DataStep`), `NoDiskIsSetBack` (`DisksNeverGoBack`).
`CompletedMovesHaveMoved` (`CompletedMeansMoved`) needs more than that a guest is
somewhere: `CarryInv` adds what a workflow has carried over so far, that the
target holds at least what its own archive does from the restore on, and that
the source is there with all its disks until its deletion and not after it. In
`MovesImplementCopySet` every step changes what one place holds at most
(`OnePlaceChanges`); `GuestSurvives` before and after it excludes the step that
`CopySet` does not have.

**VdmBackups.** `TypeCorrect` without hypothesis; `LastArchiveIsKept`
(`LatestArchiveStays`) for any positive limit. `LatestArchiveStays` is about
what is on the storage now, while a deletion in flight is about a list read long ago; `IInv`
closes the gap by saying that whatever a prune has listed or a node was asked to
delete is superseded by a later backup or was chosen by hand, and that
supersession never ends since `created_at` only grows. `CompletedStaysCatalogued`
(`CompletedIsCatalogued`) and `NothingIsLeftBehind` (`ForgottenIsDeleted`) hold
for any limits, zero included. Their invariant `DInv` says what an answer means:
no two items have one `created_at`, whatever was catalogued was backed up, a
request in flight is about what its sender is deleting now, and an archive whose
deletion was confirmed is gone. Without the third an answer to an earlier
request could be taken for one about another archive.

**CrashWatcher.** For any number of guests and any settings, `TypeCorrect`,
`StopIsWrittenOnce` (`OncePerStop`) and `LoopGuardHolds` (`RestartsAreBounded`).
`JournalInv` says that a guest in the reference states, heard running in this
round, or waiting for its diagnosis has no crash row since it was last read
running. `GuardInv` says that every start still in the window has a row that is
no older, except the one that is awaited: counting rows that are written late
therefore never counts too few starts, and the one not counted yet takes the last
free place.

**VmDisks.** `TypeCorrect` and `NoWriteIsLost` (`WritesSurvive`) for any numbers of
blocks, files, snapshots and writes, and for any number of calls at once. What a chain shows is a recursive function
along the backing files, and the library's induction theorems cannot be used. The
proofs argue by the least counterexample instead: names of files only grow and
a file lies on an older one, so the files of which a fact fails have a least
member (`Least`, from the library's `WFMin`), below which it holds.
`Recursion` shows in the same way that such a function exists. On these rest
`ViewIs` and one lemma for each thing that is done to a chain: a new file on top
(`NewFileEffect`), a commit of all of it (`CommitEffect`), a write of the guest
(`WriteEffect`) and an overlay merged away (`MergeEffect`). `DiskInv` adds to the property
that every file but the first has one below it and the first is never deleted and has
every block, so that a commit writes where every chain ends; that a running machine has all of its
files; that a call's overlay is not the first file; and that the definition names the
disk in use unless a rollback has redefined the machine while it ran.
`BackupsAreOfOneMoment` (`BackupIsPointInTime`) holds for any number of calls as well. Its invariant
`Copied` says that from the freeze on, while no other call moves the disk and no start comes in between,
the file that is copied shows what the guest had then, since the guest
writes to the overlay above it or is off; `CopyKept` is what a step has to leave
alone for that.

**VmDefine.** `TypeCorrect`,
`CyclesLoseNoChange` (`DefineChangesOnlyItsOwn`) and `HandedPasswordsOpen`
(`HandedPasswordOpens`), for any number of calls of any kinds, whichever dumps and looks fail. `LineInv` is the
lock: the promises form one line, each waits for the one right before it, and
the map holds the last one while it has not ended; so whose turn it is finds nobody
inside (`LoneEntry`), no two sections overlap, and `SectionsImplementExclusiveWork`
(`ImplementsExclusiveWork`) needs nothing else.
`Fresh` says that a call has read what is still the definition unless it is marked as
crossed or misread. `Passwords` follows a password from
the section to the display: as long as no define has undone anything, it stays in
the definition, a start takes it from there, the running machine was started with it or with
none (so that a section which reads that machine instead finds the right one or none), and a
display with another one is one its call has yet to reach or could not see.

**PbsJobs.** For any number of nodes, guests, tasks and runs: `TypeCorrect`,
`OkIsStored` (`OkMeansStored`), `BackupsExclude` (`OneBackupPerGuest`),
`RunsExclude` (`RunsAlone`) and `SlotsOnce` (`OncePerSlot`). `TurnInv`: a run in
progress has its mark in memory and is the last one begun, and no run began after the time
in the job's row, which survives the restart that empties the memory. `MarkInv`: the
node's mark is there as long as the API waits for the call. `StatusInv`: of the
guests a run wants, each is to do, at hand, failed or has a snapshot made for this run, and
those it does not want are on a node it has skipped or are containers it was not told of.
Only a run without any of the exceptions but the last says ok.

**SharedMounts.** For any number of operations and of calls under way:
`TypeCorrect`, `WaitersAreAnswered` (`WaiterIsAnswered`) and `StrayMountsWereCut`
(`StrayMountWasCut`). `Waiters` ties each caller that waits to one entry of the
line. For a mount, the row alone says too little, since the answers on their way
will still change it: `Owed` says that a mount which has outlived nothing has a row that
no answer on its way will take, or an answer on its way that makes one
with no such answer behind it; `Ordered`, that the runner finishes the line from the front, is what
makes the order of the answers the order of the work.

## 6. What is only model-checked

Liveness: `EveryTaskSettles`, `EveryWorkflowSettles`, `CrashIsRecorded`,
`EveryCallEnds`, `SlotIsServed`, `StorageComesBack`. The prover does not do fairness.
Every other property of a passing run is a theorem, under the hypotheses named
above.

## 7. What the models leave out

Of the parts they model:

- *Moves*: a clone on one node is a single runner call. Retries of `fetchNode`
  repeat `GET` requests only and change nothing. `qemu-img convert` onto a file a running
  machine holds may be refused by QEMU's image lock; the model has the refusal as
  `Break` and the success.
- *Backups*: the restore route changes no item and follows the restore of the
  moves. Checksums are a verdict, sizes are counted in archives. No two items have one
  `created_at`, which in the code has seconds only: of two items of one second, the
  list a prune reads decides which is the later. Of the sizes of the limits and of days and
  weeks only as much is there as decides which item is displaced.
- *Crash watcher*: deleting, creating and renaming guests, and the wording of the journal.
  The crash policy of a guest is a free choice at each crash. The start that an
  API stop cuts from its row is not counted against the bound, and
  `CrashIsRecorded` excuses a guest that is marked, paused or reported absent.
- *Disks*: one disk stands for all, as every command treats them in one loop and
  they do not depend on each other. An archive of a guest with a live snapshot is
  complete as far as its own file goes (section 4). Resizing,
  attaching, cloning and exporting disks are left out; `repairVmDisk` looks for
  a disk whose file is gone, which `WritesSurvive` excludes, and is in `VmDefine`
  as what it does to the definition.
- *Definitions*: `renameVm` (a single command of libvirt on a machine that is off),
  `updateNetwork` (which reads one interface and gives it back to libvirt) and
  the redefinition by a rollback, which is in `VmDisks`; taking a disc out is the
  removal of its device. The wording of XML is not modelled, a setting is.
- *PBS*: a guest whose name `PBS_GUEST_NAME_RE` refuses is none a job covers. The VDM's grace for a silent node and its deadline for a task are both
  `GivesUp`; a task whose request was answered too late is one that nobody asked
  for (`LocalBackup`); the task in memory and its row in `task_history` are one `row`; a
  listing is one step. Editing jobs, pruning, restores from PBS and the
  installation of the client are left out.
- *Shared storage*: one node and one storage. A failure count above one is one;
  syncs that read the same count are merged; answers are read in the order they
  were given. `StorageComesBack` excludes an NFS or SMB mount that outlived its call, for
  which it does not hold: `mount` refuses a mountpoint that is taken and no row
  lets anybody unmount it.
- *API tasks and runner IPC*: only as the operations above need them; the gate of
  protected resources, quotas, framing and progress lines are left out.

Parts without a module:

- *Sessions, enrolment, tickets; Desktop tokens*: handlers of a few lines over
  single rows in single transactions. An enrolment of a node is in `SharedMounts`, a
  Desktop order past the gate in `VdmTasks`.
- *Docker transfers*: the chain of requests is that of a move of a container. Its
  lock is on the name at the target, so that it keeps apart from nothing that
  names the container by its id; what a lock guards, once its keys name the
  resource, is in `VdmTasks`.
- *LXC storage*: sequences of system tools on one directory, of which the runner keeps no
  state.
- *Network, host, consoles, log, panels, installers*: see section 1.

## 8. Plan

What would come next, in the order in which it matters:

1. Docker transfers as a third kind of workflow of `VdmMigration`, with their own
   lock key, and the property that a completed move leaves one copy.
2. Sessions: join tokens and console tickets; refresh tokens of Desktop devices.
3. The protected resources of the API: its 423 gate and the work that is under way
   when a guest becomes protected.
4. LXC snapshots and the guard of root filesystems.
5. An abstract specification of a disk (what the guest sees, what a backup
   holds) that `VmDisks` implements; its proof has all it needs in `DiskInv` and `CopyInv`.

A run that shows a disagreement gives way to one of a new module when the
disagreement is settled in the code: the whole set should stay short enough to be run on every
change.
