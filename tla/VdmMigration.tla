----------------------------- MODULE VdmMigration -----------------------------
(***************************************************************************)
(* Moving and cloning guests between nodes (apps/vdm/src/server.ts, with   *)
(* the node side in apps/api/src/server.ts and apps/runner/src/handlers).  *)
(*                                                                         *)
(* A workflow of the VDM is a chain of requests: prepare the pools, back   *)
(* the guest up on its node, hand the archive over, restore it on the      *)
(* other node, look at it there and, for a move, delete the source.  The   *)
(* VDM waits for each answer but a node does not know that: when the VDM   *)
(* gives up, or restarts, the node goes on with the request it has.        *)
(*                                                                         *)
(* A path of a domain is resolved on the node that runs it, so "local"     *)
(* names a different file on every node and "shared" the same file on all. *)
(*                                                                         *)
(* A backup holds all disks of a VM, a restore places the first one only:  *)
(* what is promised of a guest that was moved is promised of that disk.    *)
(* Nothing keeps the VDM from starting work on a guest that an earlier     *)
(* request, no longer waited for, still uses: rushed remembers such guests.*)
(***************************************************************************)
EXTENDS Integers

CONSTANTS
  Node,
  Guest,        \* names of virtual machines and containers
  Container,    \* the guests that are LXC containers
  CopyName,     \* names that exist on no node yet: what a clone may be called
  Workflow,     \* vdm_tasks of kind "migrate" or "clone"
  Kinds,        \* which of the two a run tries
  SharedChoice, \* whether a workflow goes through the shared storage
  InitialPool,  \* where the disks of a guest may be to begin with
  MaxDisk,      \* bound on the disks of a VM; disk 1 is the primary one
  MaxVersion,   \* bound on the writes of a guest to its disks
  NoDomain, NoData, NoWork

ASSUME ConstAssumption ==
  /\ Container \subseteq Guest /\ CopyName \subseteq Guest
  /\ Kinds \subseteq {"migrate", "clone"}
  /\ SharedChoice \subseteq BOOLEAN
  /\ InitialPool \subseteq {"local", "shared"}
  /\ MaxDisk \in Nat \ {0} /\ MaxVersion \in Nat

Disk == 1 .. MaxDisk
Path == [pool : {"local", "shared"}, name : Guest, disk : Disk]
File == [pool : Node \cup {"shared"}, name : Guest, disk : Disk]
Content == [of : Guest, disk : Disk, version : 0 .. MaxVersion]

(* One value for each disk of a guest.                                     *)
PerDisk(S) == UNION {[1 .. k -> S] : k \in Disk}
Archive    == [path : PerDisk(Path), content : PerDisk(Content)]

Work == {w \in [kind : Kinds, guest : Guest, as : Guest, from : Node, to : Node,
                shared : SharedChoice, deleteSource : BOOLEAN] :
           /\ w.from # w.to
           /\ w.kind = "migrate" => w.as = w.guest
           /\ w.kind = "clone" => w.as # w.guest /\ ~w.deleteSource
           /\ w.kind = "clone" => (w.as \in Container <=> w.guest \in Container)}

ASSUME ModelValueAssumption ==
  /\ "shared" \notin Node
  /\ NoDomain \notin PerDisk(Path) /\ NoWork \notin Work
  /\ NoData \notin Content /\ NoData \notin Archive

Step == {"prepare", "backup", "handover", "restore", "validate", "delete"}
Status == {"none", "running", "completed", "completed-with-warning", "failed",
           "recovery-required"}

VARIABLES
  domain,  \* domain[n][g]: the disk paths of g's definition on n, or NoDomain
  running, \* the <<node, guest>> pairs that are switched on
  data,    \* what a file holds
  work,    \* what a workflow was asked to do
  status,  \* vdm_tasks.status
  step,    \* the request a workflow made last
  phase,   \* how far the node got with it
  archive, \* the backup of a workflow: the paths and the contents of the disks
  doomed,  \* files a node still has to unlink for a delete request
  rushed   \* history: guests that got new work while still in use

guests == <<domain, running, data>>
flow   == <<work, status, step, phase>>
vars   == <<domain, running, data, work, status, step, phase, archive, doomed, rushed>>

TypeOK ==
  /\ domain \in [Node -> [Guest -> PerDisk(Path) \cup {NoDomain}]]
  /\ running \subseteq Node \X Guest
  /\ data \in [File -> Content \cup {NoData}]
  /\ work \in [Workflow -> Work \cup {NoWork}]
  /\ status \in [Workflow -> Status]
  /\ step \in [Workflow -> Step]
  /\ phase \in [Workflow -> {"sent", "checked", "half", "ok", "error"}]
  /\ archive \in [Workflow -> Archive \cup {NoData}]
  /\ doomed \in [Workflow -> SUBSET File]
  /\ rushed \subseteq Guest

Resolve(n, p) == [pool |-> IF p.pool = "local" THEN n ELSE p.pool,
                  name |-> p.name, disk |-> p.disk]
Defined(n, g) == domain[n][g] # NoDomain
Files(n, g)   == {Resolve(n, domain[n][g][d]) : d \in DOMAIN domain[n][g]}
Intact(n, g)  == Defined(n, g) /\ \A f \in Files(n, g) : data[f] # NoData
On(n, g)      == <<n, g>> \in running

(* Every guest that exists is defined, whole, on one node; a container is  *)
(* one directory, in the node's own container directory.                   *)
FirstPath(g, where, size) ==
  IF g \in Container THEN <<[pool |-> "local", name |-> g, disk |-> 1]>>
  ELSE [d \in 1 .. size[g] |-> [pool |-> where[g], name |-> g, disk |-> d]]

Exists(n, g, home) == g \notin CopyName /\ home[g] = n

Placed(home, where, size) ==
  /\ domain = [n \in Node |-> [g \in Guest |->
                 IF Exists(n, g, home) THEN FirstPath(g, where, size) ELSE NoDomain]]
  /\ data = [f \in File |->
               IF \E n \in Node : Exists(n, f.name, home) /\ f \in Files(n, f.name)
               THEN [of |-> f.name, disk |-> f.disk, version |-> 0] ELSE NoData]
  /\ running \in SUBSET {p \in Node \X Guest : Exists(p[1], p[2], home)}

Init ==
  /\ \E home \in [Guest -> Node], where \in [Guest -> InitialPool], size \in [Guest -> Disk] :
       Placed(home, where, size)
  /\ work = [o \in Workflow |-> NoWork]
  /\ status = [o \in Workflow |-> "none"]
  /\ step = [o \in Workflow |-> "prepare"]
  /\ phase = [o \in Workflow |-> "error"]
  /\ archive = [o \in Workflow |-> NoData]
  /\ doomed = [o \in Workflow |-> {}]
  /\ rushed = {}

-----------------------------------------------------------------------------
(* The VDM.                                                                *)

Active(o) == status[o] = "running"

(* The node is working on the request.                                     *)
Busy(o) == phase[o] \in {"sent", "checked", "half"}

(* The locks of a workflow are on the guest's name, on both nodes.         *)
Keys(w) == {w.guest} \X {w.from, w.to}
Locked(k) == \E o \in Workflow : Active(o) /\ k \in Keys(work[o])

(* A guest and a clone in the making are in use until the workflow ended   *)
(* and the last node it asked is idle.  Of this the VDM knows only Keys,   *)
(* and it forgets them when the workflow ends.                             *)
Touches(w) == {<<w.guest, w.from>>, <<w.guest, w.to>>, <<w.as, w.to>>}
InUse(k) == \E o \in Workflow : /\ Active(o) \/ (status[o] # "none" /\ Busy(o))
                                /\ k \in Touches(work[o])

(* POST .../migrate and .../clone with another target node.                *)
Begin(o, w) ==
  /\ status[o] = "none"
  /\ \A k \in Keys(w) : ~Locked(k)
  /\ w.kind = "clone" => w.as \in CopyName
  /\ work' = [work EXCEPT ![o] = w]
  /\ status' = [status EXCEPT ![o] = "running"]
  /\ step' = [step EXCEPT ![o] = "prepare"]
  /\ phase' = [phase EXCEPT ![o] = "sent"]
  /\ rushed' = rushed \cup {k[1] : k \in {k \in Touches(w) : InUse(k)}}
  /\ UNCHANGED <<guests, archive, doomed>>

(* Bug: the source is removed before the target is restored.               *)
Bug_DeleteFirst(s) ==
  CASE s = "prepare" -> "backup" [] s = "backup" -> "handover"
    [] s = "handover" -> "delete" [] s = "delete" -> "restore"
    [] s = "restore" -> "validate" [] OTHER -> s

(* The order of the requests.                                              *)
Following(s) ==
  CASE s = "prepare" -> "backup" [] s = "backup" -> "handover"
    [] s = "handover" -> "restore" [] s = "restore" -> "validate"
    [] s = "validate" -> "delete" [] OTHER -> s

(* Bug: deleteSource is read as false.                                     *)
Bug_NeverDelete(o) == step[o] = "validate"

LastStep(o) ==
  \/ step[o] = "delete"
  \/ step[o] = "validate" /\ ~work[o].deleteSource

(* The answer came in time and is a success: on to the next request.       *)
Proceed(o) ==
  /\ Active(o) /\ phase[o] = "ok" /\ ~LastStep(o)
  /\ step' = [step EXCEPT ![o] = Following(step[o])]
  /\ phase' = [phase EXCEPT ![o] = "sent"]
  /\ UNCHANGED <<guests, work, status, archive, doomed, rushed>>

Complete(o) ==
  /\ Active(o) /\ phase[o] = "ok" /\ LastStep(o)
  /\ status' = [status EXCEPT ![o] = "completed"]
  /\ UNCHANGED <<guests, work, step, phase, archive, doomed, rushed>>

(* Bug: only an error reply ends a workflow, there is no timeout.          *)
Bug_WaitForever(o) ==
  /\ Active(o) /\ phase[o] = "error"
  /\ status' = [status EXCEPT ![o] = IF step[o] = "delete" THEN "completed-with-warning"
                                     ELSE "failed"]
  /\ UNCHANGED <<guests, work, step, phase, archive, doomed, rushed>>

(* Bug: a failed delete is reported with a status no reader knows.         *)
Bug_GiveUpUnknown(o) ==
  /\ Active(o)
  /\ status' = [status EXCEPT ![o] = IF step[o] = "delete" THEN "warning" ELSE "failed"]
  /\ UNCHANGED <<guests, work, step, phase, archive, doomed, rushed>>

(* An error reply, a timeout or a lost answer: POST and DELETE are never   *)
(* retried.  The result of a failed delete says sourceRetained: true.      *)
GiveUp(o) ==
  /\ Active(o)
  /\ status' = [status EXCEPT ![o] = IF step[o] = "delete" THEN "completed-with-warning"
                                     ELSE "failed"]
  /\ UNCHANGED <<guests, work, step, phase, archive, doomed, rushed>>

(* A restart of the VDM: recoverInterruptedTasks settles what was active.  *)
Restart ==
  /\ \E o \in Workflow : Active(o)
  /\ status' = [o \in Workflow |-> IF Active(o) THEN "recovery-required" ELSE status[o]]
  /\ UNCHANGED <<guests, work, step, phase, archive, doomed, rushed>>

-----------------------------------------------------------------------------
(* The nodes.                                                              *)

Reached(o, s, p) == status[o] # "none" /\ step[o] = s /\ phase[o] = p
Answer(o, p) == phase' = [phase EXCEPT ![o] = p]

(* Mounting a pool, streaming the archive or recording it changes no guest.*)
Serve(o) ==
  /\ Reached(o, "prepare", "sent") \/ Reached(o, "handover", "sent")
  /\ Answer(o, "ok")
  /\ UNCHANGED <<guests, work, status, step, archive, doomed, rushed>>

(* All writable disks and the definition go into the archive.              *)
Backup(o) ==
  LET w == work[o] IN
  /\ Reached(o, "backup", "sent")
  /\ Intact(w.from, w.guest)
  /\ archive' = [archive EXCEPT ![o] =
       [path |-> domain[w.from][w.guest],
        content |-> [d \in DOMAIN domain[w.from][w.guest] |->
                       data[Resolve(w.from, domain[w.from][w.guest][d])]]]]
  /\ Answer(o, "ok")
  /\ UNCHANGED <<guests, work, status, step, doomed, rushed>>

(* Where the primary disk, or the container's root, is restored.           *)
RestoredPath(w) ==
  [pool |-> IF w.shared /\ w.as \notin Container THEN "shared" ELSE "local",
   name |-> w.as, disk |-> 1]
RestoredFile(w) == Resolve(w.to, RestoredPath(w))

(* Only the primary disk is converted and renamed in the definition; the   *)
(* other disks keep the path they had on the source node.                  *)
RestoredDefinition(o) ==
  [archive[o].path EXCEPT ![1] = RestoredPath(work[o])]

(* Bug: the name is not looked up on the target.                           *)
Bug_RestoreUnchecked(o) ==
  /\ Reached(o, "restore", "sent")
  /\ Answer(o, "checked")
  /\ UNCHANGED <<guests, work, status, step, archive, doomed, rushed>>

(* A restore is refused when the name exists.  A container then loses what *)
(* is left of its directory.                                               *)
RestoreCheck(o) ==
  LET w == work[o] IN
  /\ Reached(o, "restore", "sent")
  /\ ~Defined(w.to, w.as)
  /\ data' = IF w.as \in Container
             THEN [data EXCEPT ![RestoredFile(w)] = NoData] ELSE data
  /\ Answer(o, "checked")
  /\ UNCHANGED <<domain, running, work, status, step, archive, doomed, rushed>>

(* The archive is extracted and the disk converted over whatever has its   *)
(* name.  A container is usable as soon as its directory is copied, and a  *)
(* copy onto a directory that appeared meanwhile ends up inside it.        *)
RestoreWrite(o) ==
  LET w == work[o]
      nested == w.as \in Container /\ Defined(w.to, w.as)
  IN
  /\ Reached(o, "restore", "checked")
  /\ data' = IF nested THEN data
             ELSE [data EXCEPT ![RestoredFile(w)] = archive[o].content[1]]
  /\ domain' = IF w.as \in Container /\ ~nested
               THEN [domain EXCEPT ![w.to][w.as] = RestoredDefinition(o)] ELSE domain
  /\ Answer(o, "half")
  /\ UNCHANGED <<running, work, status, step, archive, doomed, rushed>>

(* libvirt refuses a second definition of a name.                          *)
RestoreDefine(o) ==
  LET w == work[o] IN
  /\ Reached(o, "restore", "half")
  /\ w.as \in Container \/ ~Defined(w.to, w.as)
  /\ domain' = [domain EXCEPT ![w.to][w.as] = RestoredDefinition(o)]
  /\ Answer(o, "ok")
  /\ UNCHANGED <<running, data, work, status, step, archive, doomed, rushed>>

(* GET of the guest on the target.                                         *)
Validate(o) ==
  /\ Reached(o, "validate", "sent")
  /\ Defined(work[o].to, work[o].as)
  /\ Answer(o, "ok")
  /\ UNCHANGED <<guests, work, status, step, archive, doomed, rushed>>

(* The guest is switched off and undefined, with its disks noted first; a  *)
(* guest that is not there any more is as good as deleted.                 *)
Undefine(o) ==
  LET w == work[o] IN
  /\ Reached(o, "delete", "sent")
  /\ running' = running \ {<<w.from, w.guest>>}
  /\ domain' = [domain EXCEPT ![w.from][w.guest] = NoDomain]
  /\ doomed' = [doomed EXCEPT ![o] = IF Defined(w.from, w.guest)
                                     THEN Files(w.from, w.guest) ELSE {}]
  /\ Answer(o, "half")
  /\ UNCHANGED <<data, work, status, step, archive, rushed>>

(* Only once the definition is gone are the disk files unlinked.           *)
Unlink(o) ==
  /\ Reached(o, "delete", "half")
  /\ data' = [f \in File |-> IF f \in doomed[o] THEN NoData ELSE data[f]]
  /\ doomed' = [doomed EXCEPT ![o] = {}]
  /\ Answer(o, "ok")
  /\ UNCHANGED <<domain, running, work, status, step, archive, rushed>>

(* A request may fail wherever it is, and leaves what it did so far.       *)
Break(o) ==
  /\ status[o] # "none" /\ Busy(o)
  /\ Answer(o, "error")
  /\ doomed' = [doomed EXCEPT ![o] = {}]
  /\ UNCHANGED <<guests, work, status, step, archive, rushed>>

-----------------------------------------------------------------------------
(* The guests.                                                             *)

(* POST .../action on a resource that is not locked.  libvirt does not     *)
(* start a domain whose disk file is missing.                              *)
SwitchOn(n, g) ==
  /\ ~Locked(<<g, n>>) /\ Intact(n, g) /\ ~On(n, g)
  /\ running' = running \cup {<<n, g>>}
  /\ UNCHANGED <<domain, data, flow, archive, doomed, rushed>>

SwitchOff(n, g) ==
  /\ ~Locked(<<g, n>>) /\ On(n, g)
  /\ running' = running \ {<<n, g>>}
  /\ UNCHANGED <<domain, data, flow, archive, doomed, rushed>>

(* A running guest writes to all its disks.                                *)
GuestWrite(n, g) ==
  /\ On(n, g) /\ Intact(n, g)
  /\ \A f \in Files(n, g) : data[f].version < MaxVersion
  /\ data' = [f \in File |-> IF f \in Files(n, g)
                             THEN [data[f] EXCEPT !.version = @ + 1] ELSE data[f]]
  /\ UNCHANGED <<domain, running, flow, archive, doomed, rushed>>

-----------------------------------------------------------------------------
Vdm(o)  == (\E w \in Work : Begin(o, w)) \/ Proceed(o) \/ Complete(o) \/ GiveUp(o)
Host(o) == \/ Serve(o) \/ Backup(o) \/ RestoreCheck(o) \/ RestoreWrite(o)
           \/ RestoreDefine(o) \/ Validate(o) \/ Undefine(o) \/ Unlink(o)
           \/ Break(o)
User(n, g) == SwitchOn(n, g) \/ SwitchOff(n, g) \/ GuestWrite(n, g)

Next ==
  \/ \E o \in Workflow : Vdm(o) \/ Host(o)
  \/ Restart
  \/ \E n \in Node, g \in Guest : User(n, g)

Spec == Init /\ [][Next]_vars

(* Every request has a timeout, so the VDM always gets on with a workflow. *)
FairSpec == Spec /\ \A o \in Workflow : WF_vars(Proceed(o) \/ Complete(o) \/ GiveUp(o))

-----------------------------------------------------------------------------
(* Properties.                                                             *)

(* n runs or could run h from the primary disk of guest g.                 *)
Holds(n, h, g) ==
  /\ Defined(n, h)
  /\ LET c == data[Resolve(n, domain[n][h][1])] IN
      c # NoData /\ c.of = g /\ c.disk = 1

CopiesOf(g) == {p \in Node \X Guest : Holds(p[1], p[2], g)}

(* Whatever request fails, is late or is repeated, and whenever the VDM    *)
(* restarts, some node keeps every guest with its primary disk: a move     *)
(* removes the source only behind a copy that is there (deleteSource after *)
(* validateRestoredResource).  Not promised of a guest that got new work   *)
(* while a node was still busy with it, since no handler looks for that.   *)
GuestSurvives == \A g \in Guest \ (CopyName \cup rushed) : CopiesOf(g) # {}

(* A workflow that reports "completed" has left on the target, as primary  *)
(* disk, what the backup held or something newer, and the source is gone   *)
(* or there with all its disks, as was asked.  The other disks of a VM are *)
(* in the archive and in nothing the restore makes.                        *)
CompletedMeansMoved ==
  [][\A o \in Workflow :
       Active(o) /\ status'[o] = "completed" /\ {work[o].guest, work[o].as} \cap rushed = {} =>
         LET w == work[o]
             kept  == archive[o].content[1]
             found == data[Resolve(w.to, domain[w.to][w.as][1])]
         IN
         /\ Defined(w.to, w.as)
         /\ found # NoData /\ found.of = kept.of /\ found.disk = kept.disk
         /\ found.version >= kept.version
         /\ IF w.deleteSource THEN ~Defined(w.from, w.guest)
            ELSE Intact(w.from, w.guest)]_vars

(* A guest that stays defined keeps its disks, all of them: no restore,    *)
(* transfer or delete request of any workflow takes them away or sets them *)
(* back, unless the guest got new work while still in use.                 *)
DisksNeverGoBack ==
  [][\A n \in Node, g \in Guest \ rushed :
       Defined(n, g) /\ domain'[n][g] = domain[n][g] =>
         \A f \in Files(n, g) :
           data[f] # NoData => /\ data'[f] # NoData
                               /\ data'[f].of = data[f].of
                               /\ data'[f].version >= data[f].version]_vars

(* Every workflow the VDM accepted ends, also when a node never answers.   *)
EveryWorkflowSettles == \A o \in Workflow : Active(o) ~> ~Active(o)

(* Moves and clones are additions and removals of copies, none of which    *)
(* removes the last copy of a guest; rushed guests are given up.           *)
Copies == INSTANCE CopySet
            WITH Original <- Guest \ CopyName, Place <- Node \X Guest,
                 copies <- [g \in Guest \ CopyName |-> CopiesOf(g)],
                 forsaken <- rushed \ CopyName
ImplementsCopySet == Copies!Spec

(* "Migration complete. VM is now on the target": the guest is there with  *)
(* all its disks.                                                          *)
MovedGuestIsWhole ==
  [][\A o \in Workflow :
       Active(o) /\ status'[o] = "completed" /\ work[o].guest \notin rushed =>
         Intact(work[o].to, work[o].as)]_vars
=============================================================================
