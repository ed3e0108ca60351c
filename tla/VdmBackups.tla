------------------------------ MODULE VdmBackups ------------------------------
(***************************************************************************)
(* The central backup catalogue of the VDM (apps/vdm/src/server.ts, with   *)
(* the backup routes of a node in apps/api/src/server.ts).                 *)
(*                                                                         *)
(* An archive is known in three places: as a file on the shared storage,   *)
(* as a row of the node that wrote it, and as an item of the VDM.  Each    *)
(* operation changes them one after the other with requests that may fail, *)
(* time out while the node goes on, or be cut off by a restart; retention, *)
(* deletion and verification take no lock against each other.              *)
(***************************************************************************)
EXTENDS Integers, FiniteSets

CONSTANTS
  Guest,      \* the guests that are backed up into one repository
  MaxBackup,  \* bound on the number of backups
  Scheduled,  \* the guests that have a backup job
  Admin,      \* requests of administrators that may be open at a time
  Daily, Weekly, Monthly,  \* retention_daily, _weekly, _monthly
  Week, Month,             \* the days of a week and a month
  Quota,      \* quota_bytes, in archives
  MaxTime,    \* bound on the clock, in days
  NoOne       \* the requester of a request nobody waits for any more

ASSUME ConstAssumption ==
  /\ MaxBackup \in Nat /\ MaxTime \in Nat /\ Scheduled \subseteq Guest
  /\ Daily \in Nat /\ Weekly \in Nat /\ Monthly \in Nat
  /\ Week \in Nat \ {0} /\ Month \in Nat \ {0} /\ Quota \in Nat

Backup == 1 .. MaxBackup
Proc   == Backup \cup Admin
Time   == 0 .. MaxTime

ASSUME NoOneAssumption == NoOne \notin Proc /\ Admin \cap Backup = {}

VARIABLES
  now,      \* the clock
  file,     \* the archives that are on the storage
  node,     \* how far the node is with a backup request
  guestOf,  \* what a backup is of
  sched,    \* the backups a job started
  outcome,  \* vdm_tasks.status of a backup
  flow,     \* what the closure of a backup does
  item,     \* vdm_backup_items.status, "none" without a row
  ref,      \* the items whose remoteBackupId is known
  born,     \* the order of created_at; 0 before the item exists
  day,      \* the day of created_at
  op,       \* what a request or a closure does to the catalogue
  todo,     \* the item it is about, or those a prune has still to delete
  deletes,  \* DELETE requests at the node
  hand      \* archives somebody chose to delete

stored == <<file, node>>
tasks  == <<guestOf, sched, outcome, flow>>
items  == <<item, ref, born, day>>
ops    == <<op, todo, deletes, hand>>
vars   == <<now, file, node, guestOf, sched, outcome, flow, item, ref, born, day,
            op, todo, deletes, hand>>

Request == [by : Proc \cup {NoOne}, of : Backup, at : {"sent", "ok", "notfound"}]

TypeOK ==
  /\ now \in Time
  /\ file \subseteq Backup
  /\ node \in [Backup -> {"idle", "asked", "done"}]
  /\ guestOf \in [Backup -> Guest] /\ sched \subseteq Backup
  /\ outcome \in [Backup -> {"none", "active", "completed", "failed", "recovery-required"}]
  /\ flow \in [Backup -> {"none", "backup", "catalogue", "prune", "ended"}]
  /\ item \in [Backup -> {"none", "available", "missing", "delete-failed"}]
  /\ ref \subseteq Backup /\ born \in [Backup -> 0 .. MaxBackup] /\ day \in [Backup -> Time]
  /\ op \in [Proc -> {"idle", "prune", "delete", "verify", "checksum", "summed"}]
  /\ todo \in [Proc -> SUBSET Backup]
  /\ deletes \subseteq Request /\ hand \subseteq Backup

Init ==
  /\ now = 0
  /\ file = {} /\ node = [b \in Backup |-> "idle"]
  /\ guestOf \in [Backup -> Guest] /\ sched = {}
  /\ outcome = [b \in Backup |-> "none"] /\ flow = [b \in Backup |-> "none"]
  /\ item = [b \in Backup |-> "none"] /\ ref = {}
  /\ born = [b \in Backup |-> 0] /\ day = [b \in Backup |-> 0]
  /\ op = [p \in Proc |-> "idle"] /\ todo = [p \in Proc |-> {}]
  /\ deletes = {} /\ hand = {}

Items   == {b \in Backup : item[b] # "none"}
Busy(g) == \E b \in Backup : outcome[b] = "active" /\ guestOf[b] = g

-----------------------------------------------------------------------------
(* Backups.                                                                *)

Unused(b) == outcome[b] = "none" /\ \A c \in Backup : c < b => outcome[c] # "none"

(* createTask and the request to the node.                                 *)
Begin(b, g, by) ==
  /\ Unused(b) /\ guestOf[b] = g
  /\ outcome' = [outcome EXCEPT ![b] = "active"]
  /\ flow' = [flow EXCEPT ![b] = "backup"]
  /\ node' = [node EXCEPT ![b] = "asked"]
  /\ sched' = IF by = "job" THEN sched \cup {b} ELSE sched
  /\ UNCHANGED guestOf

(* POST .../backup: refused for a busy guest.                              *)
StartBackup(b, g) ==
  /\ ~Busy(g)
  /\ Begin(b, g, "admin")
  /\ UNCHANGED <<now, file, items, ops>>

(* The node: qemu_backup or lxc_backup, and the row of the backups table,  *)
(* without which nobody can address the archive.                           *)
NodeBacksUp(b) ==
  /\ node[b] = "asked"
  /\ node' = [node EXCEPT ![b] = "done"]
  /\ file' = file \cup {b}
  /\ UNCHANGED <<now, tasks, items, ops>>

(* Bug: the task is completed before its item is in the catalogue.         *)
Bug_AnswerCompletes(b) ==
  /\ flow[b] = "backup" /\ node[b] = "done"
  /\ b \notin sched => Cardinality(Items) < Quota
  /\ flow' = [flow EXCEPT ![b] = "catalogue"]
  /\ outcome' = [outcome EXCEPT ![b] = "completed"]
  /\ UNCHANGED <<now, stored, guestOf, sched, items, ops>>

(* The archive is there; only now a manual backup looks at the quota.      *)
Answered(b) ==
  /\ flow[b] = "backup" /\ node[b] = "done"
  /\ b \notin sched => Cardinality(Items) < Quota
  /\ flow' = [flow EXCEPT ![b] = "catalogue"]
  /\ UNCHANGED <<now, stored, guestOf, sched, outcome, items, ops>>

(* An error, a timeout, or the quota: the archive may be there all the same.*)
Fail(b) ==
  /\ flow[b] = "backup"
  /\ flow' = [flow EXCEPT ![b] = "ended"]
  /\ outcome' = [outcome EXCEPT ![b] = "failed"]
  /\ UNCHANGED <<now, stored, guestOf, sched, items, ops>>

(* recordBackupItem: the identifier of the node's row stays unknown when   *)
(* the list cannot be fetched.  A scheduled backup goes on to prune.       *)
Record(b, known) ==
  /\ flow[b] = "catalogue"
  /\ known => b \in file
  /\ item' = [item EXCEPT ![b] = "available"]
  /\ ref' = IF known THEN ref \cup {b} ELSE ref
  /\ born' = [born EXCEPT ![b] = 1 + Cardinality({c \in Backup : born[c] # 0})]
  /\ day' = [day EXCEPT ![b] = now]
  /\ outcome' = [outcome EXCEPT ![b] = "completed"]
  /\ flow' = [flow EXCEPT ![b] = IF b \in sched THEN "prune" ELSE "ended"]
  /\ UNCHANGED <<now, stored, guestOf, sched, ops>>

-----------------------------------------------------------------------------
(* Retention.                                                              *)

Bucket(b, days) == day[b] \div days
Newer(b, c) == born[c] > born[b]

(* Bug: the list is walked from its oldest item.                           *)
Bug_KeptOldest(b, days, limit) ==
  /\ \A c \in Items : Newer(c, b) => Bucket(c, days) # Bucket(b, days)
  /\ Cardinality({Bucket(c, days) : c \in {d \in Items : Newer(d, b)}}) < limit

(* b is the first of its bucket, newest first, and no more than limit - 1  *)
(* buckets come before it.                                                 *)
Kept(b, days, limit) ==
  /\ \A c \in Items : Newer(b, c) => Bucket(c, days) # Bucket(b, days)
  /\ Cardinality({Bucket(c, days) : c \in {d \in Items : Newer(b, d)}}) < limit

Excess == {b \in Items : ~(Kept(b, 1, Daily) \/ Kept(b, Week, Weekly) \/ Kept(b, Month, Monthly))}

(* POST .../prune, or the end of a scheduled backup.                       *)
PruneStart(p) ==
  /\ op[p] = "idle"
  /\ IF p \in Admin THEN Excess # {} ELSE flow[p] = "prune"
  /\ op' = [op EXCEPT ![p] = "prune"]
  /\ todo' = [todo EXCEPT ![p] = Excess]
  /\ UNCHANGED <<now, stored, tasks, items, deletes, hand>>

(* The newest of the todo is the next one.                              *)
Current(p, v) == op[p] = "prune" /\ v \in todo[p] /\ \A c \in todo[p] : ~Newer(v, c)

Ask(p, v) == deletes' = deletes \cup {[by |-> p, of |-> v, at |-> "sent"]}
Mine(p) == {d \in deletes : d.by = p}
Unanswered(D) == {[d EXCEPT !.by = NoOne] : d \in {e \in D : e.at = "sent"}}
Abandon(p) == deletes' = (deletes \ Mine(p)) \cup Unanswered(Mine(p))

(* DELETE FROM vdm_backup_items, and UPDATE ... SET status where it exists. *)
Forget(S) ==
  /\ item' = [b \in Backup |-> IF b \in S THEN "none" ELSE item[b]]
  /\ ref' = ref \ S
Mark(S, status) ==
  item' = [b \in Backup |-> IF b \in S /\ item[b] # "none" THEN status ELSE item[b]]

Finish(p) ==
  /\ op' = [op EXCEPT ![p] = "idle"]
  /\ todo' = [todo EXCEPT ![p] = {}]

PruneAsk(p, v) ==
  /\ Current(p, v) /\ v \in ref /\ Mine(p) = {}
  /\ Ask(p, v)
  /\ UNCHANGED <<now, stored, tasks, items, op, todo, hand>>

PruneDone(p, v) ==
  /\ Current(p, v)
  /\ \E d \in Mine(p) : d.at = "ok"
  /\ Forget({v})
  /\ todo' = [todo EXCEPT ![p] = @ \ {v}]
  /\ deletes' = deletes \ Mine(p)
  /\ UNCHANGED <<now, stored, tasks, born, day, op, hand>>

(* Bug: the item goes although its archive could not be deleted.           *)
Bug_PruneFailForgets(p, v) ==
  /\ Current(p, v)
  /\ Forget({v})
  /\ todo' = [todo EXCEPT ![p] = @ \ {v}]
  /\ Abandon(p)
  /\ UNCHANGED <<now, stored, tasks, born, day, op, hand>>

(* No identifier, a disabled node, an error or a timeout.                  *)
PruneFail(p, v) ==
  /\ Current(p, v)
  /\ Mark({v}, "delete-failed")
  /\ todo' = [todo EXCEPT ![p] = @ \ {v}]
  /\ Abandon(p)
  /\ UNCHANGED <<now, stored, tasks, ref, born, day, op, hand>>

PruneEnd(p) ==
  /\ op[p] = "prune" /\ todo[p] = {}
  /\ op' = [op EXCEPT ![p] = "idle"]
  /\ flow' = IF p \in Backup THEN [flow EXCEPT ![p] = "ended"] ELSE flow
  /\ UNCHANGED <<now, stored, guestOf, sched, outcome, items, todo, deletes,
                 hand>>

-----------------------------------------------------------------------------
(* Deletion by hand, at the VDM and at the node.                           *)

(* DELETE /api/internal/backups/:id at the node: the file and its row.     *)
NodeDeletes(d) ==
  /\ d.at = "sent"
  /\ deletes' = (deletes \ {d}) \cup
       (IF d.by = NoOne THEN {}
        ELSE {[d EXCEPT !.at = IF d.of \in file THEN "ok" ELSE "notfound"]})
  /\ file' = file \ {d.of}
  /\ UNCHANGED <<now, node, tasks, items, op, todo, hand>>

(* DELETE /api/vdm/backups/:id.                                            *)
DeleteStart(p, b) ==
  /\ op[p] = "idle" /\ b \in Items
  /\ hand' = hand \cup {b}
  /\ \/ /\ b \in ref
        /\ Ask(p, b)
        /\ op' = [op EXCEPT ![p] = "delete"]
        /\ todo' = [todo EXCEPT ![p] = {b}]
        /\ UNCHANGED <<item, ref>>
     \/ /\ b \notin ref
        /\ Forget({b})
        /\ UNCHANGED <<op, todo, deletes>>
  /\ UNCHANGED <<now, stored, tasks, born, day>>

DeleteDone(p) ==
  /\ op[p] = "delete" /\ \E d \in Mine(p) : d.at = "ok"
  /\ Forget(todo[p])
  /\ Finish(p)
  /\ deletes' = deletes \ Mine(p)
  /\ UNCHANGED <<now, stored, tasks, born, day, hand>>

DeleteFail(p) ==
  /\ op[p] = "delete"
  /\ Finish(p)
  /\ Abandon(p)
  /\ UNCHANGED <<now, stored, tasks, items, hand>>

(* Somebody deletes the archive in the panel of the node.                  *)
NodeAdminDelete(b) ==
  /\ b \in file
  /\ file' = file \ {b} /\ hand' = hand \cup {b}
  /\ UNCHANGED <<now, node, tasks, items, op, todo, deletes>>

-----------------------------------------------------------------------------
(* POST /api/vdm/backups/:id/verify.                                       *)

VerifyStart(p, b) ==
  /\ op[p] = "idle" /\ b \in Items
  /\ op' = [op EXCEPT ![p] = "verify"]
  /\ todo' = [todo EXCEPT ![p] = {b}]
  /\ UNCHANGED <<now, stored, tasks, items, deletes, hand>>

(* The content of the storage is listed.                                   *)
VerifyList(p) ==
  /\ op[p] = "verify"
  /\ \/ /\ todo[p] \subseteq file
        /\ op' = [op EXCEPT ![p] = "checksum"]
        /\ UNCHANGED <<item, todo>>
     \/ /\ ~(todo[p] \subseteq file)
        /\ Mark(todo[p], "missing")
        /\ Finish(p)
  /\ UNCHANGED <<now, stored, tasks, ref, born, day, deletes, hand>>

(* The node reads the whole file, which may take hours.                    *)
NodeSums(p) ==
  /\ op[p] = "checksum" /\ todo[p] \subseteq file
  /\ op' = [op EXCEPT ![p] = "summed"]
  /\ UNCHANGED <<now, stored, tasks, items, todo, deletes, hand>>

VerifyDone(p) ==
  /\ op[p] = "summed"
  /\ Mark(todo[p], "available")
  /\ Finish(p)
  /\ UNCHANGED <<now, stored, tasks, ref, born, day, deletes, hand>>

VerifyFail(p) ==
  /\ op[p] \in {"verify", "checksum", "summed"}
  /\ Finish(p)
  /\ UNCHANGED <<now, stored, tasks, items, deletes, hand>>

-----------------------------------------------------------------------------
(* Scheduled backups and the process.                                      *)

(* Bug: interrupted backups get a status of their own.                     *)
Bug_StoppedUnknown ==
  /\ outcome' = [b \in Backup |-> IF outcome[b] = "active" THEN "interrupted" ELSE outcome[b]]
  /\ flow' = [b \in Backup |-> IF flow[b] = "none" THEN "none" ELSE "ended"]
  /\ op' = [p \in Proc |-> "idle"] /\ todo' = [p \in Proc |-> {}]
  /\ deletes' = Unanswered(deletes)

(* What a stop of the process and its next start leave: closures are gone, *)
(* active tasks are recovery-required, unanswered requests go on.     *)
Stopped ==
  /\ outcome' = [b \in Backup |-> IF outcome[b] = "active" THEN "recovery-required"
                                  ELSE outcome[b]]
  /\ flow' = [b \in Backup |-> IF flow[b] = "none" THEN "none" ELSE "ended"]
  /\ op' = [p \in Proc |-> "idle"] /\ todo' = [p \in Proc |-> {}]
  /\ deletes' = Unanswered(deletes)

Restart ==
  /\ \E p \in Proc : op[p] # "idle" \/ (p \in Backup /\ flow[p] \in {"backup", "catalogue", "prune"})
  /\ Stopped
  /\ UNCHANGED <<now, stored, guestOf, sched, items, hand>>

(* A job is due: runDueBackupJobs moves its next run ahead and lets         *)
(* runScheduledBackup go.  What that throws before its try, because the    *)
(* guest is busy or the repository, the storage or the node disabled, is   *)
(* an unhandled rejection: it ends the process and systemd starts it again.*)
RunScheduled(b, g) ==
  /\ Unused(b) /\ g \in Scheduled
  /\ \/ /\ ~Busy(g)
        /\ Begin(b, g, "job")
        /\ UNCHANGED <<op, todo, deletes>>
     \/ /\ Stopped
        /\ UNCHANGED <<node, guestOf, sched>>
  /\ UNCHANGED <<now, file, items, hand>>

Tick == now < MaxTime /\ now' = now + 1
        /\ UNCHANGED <<stored, tasks, items, ops>>

-----------------------------------------------------------------------------
Retire(p)  == PruneStart(p) \/ PruneEnd(p)
              \/ \E v \in Backup : PruneAsk(p, v) \/ PruneDone(p, v) \/ PruneFail(p, v)
Delete(p)  == DeleteDone(p) \/ DeleteFail(p)
Verify(p)  == VerifyList(p) \/ NodeSums(p) \/ VerifyDone(p) \/ VerifyFail(p)
Settle(b)  == Answered(b) \/ Fail(b) \/ \E known \in BOOLEAN : Record(b, known)

Next ==
  \/ \E b \in Backup : \/ \E g \in Guest : StartBackup(b, g) \/ RunScheduled(b, g)
                       \/ NodeBacksUp(b) \/ Settle(b)
                       \/ NodeAdminDelete(b)
  \/ \E p \in Proc : Retire(p)
  \/ \E p \in Admin : \/ \E b \in Backup : DeleteStart(p, b) \/ VerifyStart(p, b)
                      \/ Delete(p) \/ Verify(p)
  \/ \E d \in deletes : NodeDeletes(d)
  \/ Restart \/ Tick

Spec == Init /\ [][Next]_vars

-----------------------------------------------------------------------------
(* Properties.                                                             *)

(* The VDM forgets an archive it can address only once the file is gone:   *)
(* nothing it could still delete is left on the storage without an item.   *)
ForgottenIsDeleted ==
  [][\A b \in Backup : item[b] # "none" /\ item'[b] = "none" => b \notin file \/ b \notin ref]_vars

(* While some retention limit is positive, the last archive that was       *)
(* catalogued stays on the storage and in the catalogue unless somebody    *)
(* chooses to delete it: no prune, overlapping with backups, verifications *)
(* and other prunes, takes it away.                                        *)
LatestArchiveStays ==
  Daily + Weekly + Monthly > 0 =>
    \A b \in Backup :
      born[b] # 0 /\ (\A c \in Backup : ~Newer(b, c)) /\ b \notin hand
        => b \in file /\ item[b] # "none"

(* A task says a backup is complete and catalogued only if its archive is  *)
(* in the catalogue, or is gone from the storage, or was deleted by hand.  *)
CompletedIsCatalogued ==
  \A b \in Backup : outcome[b] = "completed" /\ b \in file \ hand => item[b] # "none"
=============================================================================
