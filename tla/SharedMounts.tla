---------------------------- MODULE SharedMounts ----------------------------
(***************************************************************************)
(* One node and one shared storage of the cluster.  The VDM polls the      *)
(* node's health and, once a minute, sees to it that the storage is        *)
(* mounted there; operations on guests do the same on their own account.   *)
(* The node's API keeps a row for the pool and has its runner mount and    *)
(* unmount, one call after another for each mountpoint.                    *)
(*                                                                         *)
(* Everything fails until the environment turns quiet, if it ever does.    *)
(***************************************************************************)
EXTENDS Naturals, Sequences

CONSTANTS
  Op,         \* operations of the VDM that need the storage
  Reconciler, \* the round of every minute
  MaxLine,    \* bound: calls of the runner that are under way
  Nobody,     \* a call whose caller has given up
  Old         \* the node runs a version the VDM calls incompatible

ASSUME SharedAssumption ==
  /\ Reconciler \notin Op /\ Nobody \notin Op \cup {Reconciler}
  /\ Old \in BOOLEAN /\ MaxLine \in Nat

VARIABLES
  row,       \* the node's row at the VDM: status and failure_count
  sync,      \* the failure_counts read by the requests about its health
  caller,    \* how far each call of ensureStorageMountedOnNode is
  line,      \* the mounts and unmounts the node is asked for, in order
  pool,      \* the API has a row for the pool
  kind,      \* the pool's type
  mount,     \* what is at the mountpoint
  quiet,     \* nothing fails from now on, and nobody but the VDM's timers acts
  outlived   \* history: a mount outlived the row or the call it belonged to

healthVars == <<row, sync>>
mountVars == <<caller, line, pool, mount, outlived>>
vars == <<healthVars, mountVars, kind, quiet>>

-----------------------------------------------------------------------------
Caller == Op \cup {Reconciler}
Failures == 0 .. 1   \* 1 stands for more
Row == [status : {"online", "degraded", "offline"}, failures : Failures]
Entry == [op : {"umount", "mount"}, by : Caller \cup {Nobody},
          heard : BOOLEAN, stage : {"waiting", "running", "ok", "failed"}]

TypeOK ==
  /\ row \in Row
  /\ sync \subseteq Failures
  /\ quiet \in BOOLEAN
  /\ caller \in [Caller -> {"idle", "list", "delete", "create", "waiting"}]
  /\ line \in Seq(Entry) /\ Len(line) <= MaxLine
  /\ pool \in BOOLEAN /\ outlived \in BOOLEAN
  /\ kind \in {"s3", "nfs"}
  /\ mount \in {"none", "live", "dead"}

Init ==
  /\ row = [status |-> "online", failures |-> 0]
  /\ sync = {}
  /\ caller = [c \in Caller |-> "idle"]
  /\ line = << >>
  /\ pool = FALSE
  /\ kind \in {"s3", "nfs"}
  /\ mount = "none"
  /\ quiet = FALSE
  /\ outlived = FALSE

-----------------------------------------------------------------------------
(* The node's health.  A request may overlap with another: with its retry  *)
(* it can last longer than the pause between two rounds.  Two that read    *)
(* the same count are taken for one.                                       *)
SyncBegins ==
  /\ sync' = sync \cup {row.failures}
  /\ UNCHANGED <<row, mountVars, kind, quiet>>

Bug_UnknownAtFirst(seen) ==
  [status |-> IF seen = 1 THEN "offline" ELSE "unknown", failures |-> 1]

(* The count goes on from the one that was read before the request.        *)
Failing(seen) ==
  [status |-> IF seen = 1 THEN "offline" ELSE "degraded", failures |-> 1]

Healthy == [status |-> IF Old THEN "degraded" ELSE "online", failures |-> 0]

SyncEnds(f) ==
  /\ f \in sync
  /\ \/ row' = Healthy
     \/ ~quiet /\ row' = Failing(f)
  /\ sync' = sync \ {f}
  /\ UNCHANGED <<mountVars, kind, quiet>>

(* A node enrols again under its name; the count stays until its sync.     *)
Joins ==
  /\ ~quiet
  /\ row' = [row EXCEPT !.status = "online"]
  /\ sync' = sync \cup {row.failures}
  /\ UNCHANGED <<mountVars, kind, quiet>>

-----------------------------------------------------------------------------
(* ensureStorageMountedOnNode: list the pools of the node, take away a     *)
(* pool that lost its mount, create the pool.                              *)
Set(c, to) == caller' = IF c = Nobody THEN caller ELSE [caller EXCEPT ![c] = to]

Eligible == row.status # "offline"

RoundBegins ==
  /\ caller[Reconciler] = "idle"
  /\ Eligible
  /\ Set(Reconciler, "list")
  /\ UNCHANGED <<healthVars, line, pool, mount, outlived, kind, quiet>>

OperationBegins(c) ==
  /\ ~quiet
  /\ caller[c] = "idle"
  /\ Set(c, "list")
  /\ UNCHANGED <<healthVars, line, pool, mount, outlived, kind, quiet>>

Bug_RegisteredIsMounted == IF pool THEN "idle" ELSE "create"

(* A pool that is registered and mounted needs nothing.                    *)
AfterList ==
  IF ~pool THEN "create" ELSE IF mount = "live" THEN "idle" ELSE "delete"

Listed(c) ==
  /\ caller[c] = "list"
  /\ Set(c, AfterList)
  /\ UNCHANGED <<healthVars, line, pool, mount, outlived, kind, quiet>>

Ask(op, c) ==
  /\ Len(line) < MaxLine
  /\ line' = Append(line, [op |-> op, by |-> c, heard |-> TRUE, stage |-> "waiting"])
  /\ Set(c, "waiting")

(* The API refuses to delete a pool it no longer has.                      *)
DeleteArrives(c) ==
  /\ caller[c] = "delete"
  /\ IF pool THEN Ask("umount", c) ELSE Set(c, "idle") /\ UNCHANGED line
  /\ UNCHANGED <<healthVars, pool, mount, outlived, kind, quiet>>

CreateArrives(c) ==
  /\ caller[c] = "create"
  /\ Ask("mount", c)
  /\ UNCHANGED <<healthVars, pool, mount, outlived, kind, quiet>>

-----------------------------------------------------------------------------
(* The runner, one call after the other for the mountpoint.                *)
Turn(i) ==
  /\ i \in DOMAIN line
  /\ line[i].stage \in {"waiting", "running"}
  /\ \A j \in 1 .. (i - 1) : line[j].stage \in {"ok", "failed"}

(* An S3 mount first releases whatever is mounted there, unless it hangs.  *)
RunnerBegins(i) ==
  /\ Turn(i)
  /\ line[i].stage = "waiting"
  /\ line' = [line EXCEPT ![i].stage = "running"]
  /\ \/ mount' = IF line[i].op = "mount" /\ kind = "s3" THEN "none" ELSE mount
     \/ ~quiet /\ mount = "dead" /\ UNCHANGED mount
  /\ UNCHANGED <<healthVars, caller, pool, outlived, kind, quiet>>

Answer(i, result) == line' = [line EXCEPT ![i].stage = result]

(* The unmount commands may all fail on a mount that hangs; the work on     *)
(* /etc/fstab after them may fail.                                         *)
Umounts(i) ==
  /\ line[i].op = "umount"
  /\ \/ mount' = "none" /\ UNCHANGED outlived /\ Answer(i, "ok")
     \/ ~quiet /\ mount = "dead" /\ UNCHANGED mount /\ outlived' = TRUE /\ Answer(i, "ok")
     \/ ~quiet /\ mount' = "none" /\ UNCHANGED outlived /\ Answer(i, "failed")

(* mount(8) refuses a mountpoint that already has the file system.         *)
Free == mount = "none"

Mounts(i) ==
  /\ line[i].op = "mount"
  /\ \/ /\ Free
        /\ mount' = "live" /\ Answer(i, "ok")
        /\ outlived' = (outlived \/ ~line[i].heard)
     \/ /\ ~Free
        /\ UNCHANGED <<mount, outlived>> /\ Answer(i, "failed")
     \/ /\ ~quiet /\ Free   \* the backend does not answer
        /\ UNCHANGED <<mount, outlived>> /\ Answer(i, "failed")
     \/ /\ ~quiet /\ Free   \* rclone is late, or what follows the mount fails
        /\ mount' = "live" /\ outlived' = TRUE /\ Answer(i, "failed")

RunnerEnds(i) ==
  /\ Turn(i)
  /\ line[i].stage = "running"
  /\ Umounts(i) \/ Mounts(i)
  /\ UNCHANGED <<healthVars, caller, pool, kind, quiet>>

(* A remount goes on with the creation of the pool.                        *)
Onward(e) == IF e.op = "umount" /\ e.stage = "ok" THEN "create" ELSE "idle"

Bug_RowGoesAnyway(e) ==
  IF e.heard THEN e.op = "mount" /\ (e.stage = "ok" \/ pool) ELSE pool

(* A row that is there already is kept, and the caller gets an error.  An   *)
(* answer the API no longer waits for changes nothing.                      *)
Registered(e) == IF e.heard /\ e.stage = "ok" THEN e.op = "mount" ELSE pool

ApiReads ==
  /\ line # << >>
  /\ Head(line).stage \in {"ok", "failed"}
  /\ pool' = Registered(Head(line))
  /\ Set(Head(line).by, Onward(Head(line)))
  /\ line' = Tail(line)
  /\ UNCHANGED <<healthVars, mount, outlived, kind, quiet>>

-----------------------------------------------------------------------------
(* What may fail.                                                          *)
Forgotten(e) == [e EXCEPT !.by = Nobody]
Unheard(e) == [e EXCEPT !.by = Nobody, !.heard = FALSE]

VdmGivesUp(c) ==
  /\ ~quiet
  /\ caller[c] # "idle"
  /\ Set(c, "idle")
  /\ line' = [i \in DOMAIN line |-> IF line[i].by = c THEN Forgotten(line[i]) ELSE line[i]]
  /\ UNCHANGED <<healthVars, pool, mount, outlived, kind, quiet>>

VdmRestarts ==
  /\ ~quiet
  /\ sync' = {}
  /\ caller' = [c \in Caller |-> "idle"]
  /\ line' = [i \in DOMAIN line |-> Forgotten(line[i])]
  /\ UNCHANGED <<row, pool, mount, outlived, kind, quiet>>

(* The API's call of the runner times out; the runner goes on.             *)
CallTimesOut(i) ==
  /\ ~quiet
  /\ i \in DOMAIN line
  /\ line[i].heard /\ line[i].stage \in {"waiting", "running"}
  /\ Set(line[i].by, "idle")
  /\ line' = [line EXCEPT ![i] = Unheard(@)]
  /\ UNCHANGED <<healthVars, pool, mount, outlived, kind, quiet>>

Unread(e) == e.op = "mount" /\ e.stage = "ok" /\ e.heard
Unfinished(e) == e.stage \in {"waiting", "running"}

ApiRestarts ==
  /\ ~quiet
  /\ caller' = [c \in Caller |-> "idle"]
  /\ line' = [i \in DOMAIN line |-> Unheard(line[i])]
  /\ outlived' = (outlived \/ \E i \in DOMAIN line : Unread(line[i]))
  /\ UNCHANGED <<healthVars, pool, mount, kind, quiet>>

Bug_RestartUnnoticed ==
  /\ ~quiet
  /\ line' = [i \in DOMAIN line |-> IF Unfinished(line[i]) THEN Unheard(line[i])
                                  ELSE line[i]]
  /\ UNCHANGED <<healthVars, caller, pool, mount, outlived, kind, quiet>>

RunnerRestarts ==
  /\ ~quiet
  /\ line' = [i \in DOMAIN line |->
                IF Unfinished(line[i]) THEN [line[i] EXCEPT !.stage = "failed"]
                ELSE line[i]]
  /\ UNCHANGED <<healthVars, caller, pool, mount, outlived, kind, quiet>>

(* Network file systems are in fstab and may be back after a reboot.       *)
NodeReboots ==
  /\ ~quiet
  /\ caller' = [c \in Caller |-> "idle"]
  /\ line' = << >>
  /\ \/ mount' = "none"
     \/ mount' = "live" /\ mount # "none" /\ kind = "nfs"
  /\ outlived' = (outlived \/ (mount' = "live" /\ ~pool))
  /\ UNCHANGED <<healthVars, pool, kind, quiet>>

MountChanges ==
  /\ ~quiet
  /\ \/ mount = "live" /\ mount' = "dead"
     \/ mount = "dead" /\ mount' = "live" /\ kind = "nfs"
  /\ UNCHANGED <<healthVars, caller, line, pool, outlived, kind, quiet>>

Quietens ==
  /\ ~quiet
  /\ quiet' = TRUE
  /\ UNCHANGED <<healthVars, mountVars, kind>>

-----------------------------------------------------------------------------
Step(c) == Listed(c) \/ DeleteArrives(c) \/ CreateArrives(c)
Runner == \E i \in 1 .. MaxLine : RunnerBegins(i) \/ RunnerEnds(i)

Next ==
  \/ SyncBegins \/ Joins
  \/ \E f \in Failures : SyncEnds(f)
  \/ RoundBegins
  \/ \E c \in Op : OperationBegins(c)
  \/ \E c \in Caller : Step(c) \/ VdmGivesUp(c)
  \/ Runner \/ ApiReads
  \/ \E i \in 1 .. MaxLine : CallTimesOut(i)
  \/ VdmRestarts \/ ApiRestarts \/ RunnerRestarts \/ NodeReboots
  \/ MountChanges \/ Quietens

Spec == Init /\ [][Next]_vars

(* The VDM's timers go off again and again, each request it makes ends, and *)
(* API and runner go on with what they have begun.                          *)
FairSpec ==
  /\ Spec
  /\ WF_vars(SyncBegins) /\ WF_vars(RoundBegins)
  /\ \A f \in Failures : WF_vars(SyncEnds(f))
  /\ \A c \in Caller : WF_vars(Step(c))
  /\ WF_vars(Runner) /\ WF_vars(ApiReads)

-----------------------------------------------------------------------------
(* A caller waits for exactly the calls the API will answer it: nobody      *)
(* waits for an answer that went to another or to nobody                    *)
(* (createLocalStoragePool, deleteLocalStoragePool, withPoolOpLock).        *)
WaiterIsAnswered ==
  \A c \in Caller :
    LET its == {i \in DOMAIN line : line[i].by = c}
    IN  IF caller[c] = "waiting"
        THEN \E i \in its : its = {i} /\ line[i].heard
        ELSE its = {}

(* Something is mounted without the API having a row for it only while the  *)
(* answer that makes the row is on its way, or if a mount outlived its call *)
(* or its row: remounts that cross do not unregister a mount between them.  *)
StrayMountWasCut ==
  mount # "none" /\ ~pool => outlived \/ \E i \in DOMAIN line : Unread(line[i])

(* Whatever failed before, once it is quiet the node is shown as what it is *)
(* and the storage gets mounted there and stays so, with its row            *)
(* (syncNodeState, runStorageMountReconciliation).  An NFS or SMB mount     *)
(* that outlived its call is in its own way.                                *)
StorageComesBack ==
  [](quiet => <>[](/\ row = Healthy
                   /\ \/ pool /\ mount = "live"
                      \/ kind = "nfs" /\ outlived))
=============================================================================
