------------------------------- MODULE VmDisks --------------------------------
(***************************************************************************)
(* The disk of a virtual machine as the runner of its node handles it      *)
(* (apps/runner/src/handlers/qemu.ts): snapshots, rollbacks, backups of a  *)
(* running or stopped machine, and the starts and stops in between.        *)
(*                                                                         *)
(* A disk is a chain of image files. A read that the top file does not     *)
(* answer goes to its backing file; a write goes to the top. A snapshot    *)
(* of a running machine, and a live backup, put a new file on top;         *)
(* blockcommit writes what the whole chain shows into its lowest file and  *)
(* makes the machine use that one. The guest writes whenever it runs, and  *)
(* each command of virsh may fail, the reading of the machine's state      *)
(* included: what a call does with that state may not fit the machine.     *)
(*                                                                         *)
(* All disks of a machine go through each command together, so that one    *)
(* stands for them.                                                        *)
(***************************************************************************)
EXTENDS Integers

CONSTANTS
  Blocks,     \* the blocks of the disk
  Calls,      \* calls the runner may execute at once on this machine
  Reverts,    \* whether this libvirt reverts to an external snapshot
  MaxWrites,  \* bound: writes of the guest
  MaxFiles,   \* bound: image files made
  MaxSnaps    \* bound: snapshots taken

ASSUME DiskAssumption ==
  /\ Reverts \in BOOLEAN
  /\ MaxWrites \in Nat
  /\ MaxFiles \in Nat \ {0}
  /\ MaxSnaps \in Nat

Ids == 1 .. MaxFiles
Hole == -1      \* a block the file does not hold
Missing == -2   \* a block whose file, or backing file, is gone
NotYet == -3    \* a block a backup has not copied
Held == -1 .. MaxWrites
Seen == -2 .. MaxWrites
NoFile == 0

VARIABLES
  files,    \* the image files that exist
  used,     \* image files made so far; their names carry a timestamp
  back,     \* the backing file of each
  own,      \* the blocks each holds itself
  named,    \* the source of the disk in the persistent definition
  live,     \* the one the running machine uses; that of the definition if off
  running,  \* whether the machine runs
  snaps,    \* the snapshots libvirt knows
  snap,     \* each snapshot: its files, and what the disk showed then
  taken,    \* snapshots taken so far
  call,     \* the calls under way
  writes,   \* writes of the guest so far
  wrote,    \* history: what the guest last wrote to its disk, or got back
  reverted, \* history: the snapshot it was rolled back to since its last write
  astray    \* history: whether it was redefined to another disk while it ran

imageVars == <<files, used, back, own>>
domainVars == <<named, live, running>>
snapVars == <<snaps, snap, taken>>
guestVars == <<writes, wrote, reverted, astray>>
vars == <<imageVars, domainVars, snapVars, call, guestVars>>

Snaps == 1 .. MaxSnaps

\* over: the overlay an external snapshot put on top, NoFile for an internal
\* one; under: the file it froze, or the file that holds it; kept: the blocks
\* an internal snapshot keeps; was: what the disk showed; on: whether an internal
\* one holds the memory of a running machine.
Snapshot == [over : 0 .. MaxFiles, under : Ids, kept : [Blocks -> Held], was : [Blocks -> Seen],
             on : BOOLEAN]

\* A backup in the format qcow2, or to PBS, reads through the chain; tar
\* archives the file itself.
Format == {"qcow2", "tar"}

Call == [at : {"idle", "freeze", "copy", "stored", "revert"},
         format : Format,
         source : 0 .. MaxFiles,     \* the disk of the definition that was read
         overlay : 0 .. MaxFiles,    \* the overlay that keeps it from changing
         copied : [Blocks -> -3 .. MaxWrites],  \* the backup file
         was : [Blocks -> Seen],     \* what the disk showed when the copy began
         crossed : BOOLEAN,          \* history: something else moved the disk
         of : 0 .. MaxSnaps,         \* the snapshot to roll back to
         start : BOOLEAN]            \* whether the machine was found running

Nothing == [b \in Blocks |-> Hole]
Idle == [at |-> "idle", format |-> "qcow2", source |-> NoFile, overlay |-> NoFile,
         copied |-> [b \in Blocks |-> NotYet], was |-> Nothing, crossed |-> FALSE,
         of |-> 0, start |-> FALSE]

TypeOK ==
  /\ files \subseteq 1 .. used
  /\ used \in Ids
  /\ back \in [Ids -> 0 .. MaxFiles]
  /\ \A f \in Ids : back[f] < f
  /\ own \in [Ids -> [Blocks -> Held]]
  /\ named \in 1 .. used
  /\ live \in 1 .. used
  /\ running \in BOOLEAN
  /\ snaps \subseteq Snaps
  /\ snap \in [Snaps -> Snapshot]
  /\ call \in [Calls -> Call]
  /\ taken \in 0 .. MaxSnaps
  /\ writes \in 0 .. MaxWrites
  /\ wrote \in [Blocks -> Seen]
  /\ reverted \in 0 .. MaxSnaps
  /\ astray \in BOOLEAN

\* What a reader of file f sees of block b: its own, or else that of its
\* backing file.
View(fs, bk, ow, f) ==
  [b \in Blocks |->
    LET seen[x \in 0 .. MaxFiles] ==
          IF x \notin fs THEN Missing
          ELSE IF ow[x][b] # Hole THEN ow[x][b]
          ELSE seen[bk[x]]
    IN seen[f]]

Reads(f) == View(files, back, own, f)

\* A machine starts only on a disk whose files are all there.
Whole(f) == \A b \in Blocks : Reads(f)[b] # Missing

\* The files below f, itself included.
Chain(f) ==
  LET below[x \in 0 .. MaxFiles] == IF x = NoFile THEN {} ELSE {x} \union below[back[x]]
  IN below[f]

Lowest(f) == CHOOSE x \in Chain(f) : back[x] = NoFile

Init ==
  /\ files = {1}
  /\ used = 1
  /\ back = [f \in Ids |-> NoFile]
  /\ own = [f \in Ids |-> IF f = 1 THEN [b \in Blocks |-> 0] ELSE Nothing]
  /\ named = 1
  /\ live = 1
  /\ running = FALSE
  /\ snaps = {}
  /\ taken = 0
  /\ snap = [s \in Snaps |-> [over |-> NoFile, under |-> 1, kept |-> Nothing, was |-> Nothing,
                               on |-> FALSE]]
  /\ call = [c \in Calls |-> Idle]
  /\ writes = 0
  /\ wrote = [b \in Blocks |-> 0]
  /\ reverted = 0
  /\ astray = FALSE

-------------------------------------------------------------------------------
(* Image files *)

\* Mutant: the name of the overlay has no timestamp, and is that of the disk.
Bug_OverlaySameName(f) ==
  /\ UNCHANGED <<files, used, own>>
  /\ back' = [back EXCEPT ![f] = f]
  /\ live' = f

\* A new empty file on top of f...
NewFile(f) ==
  /\ used < MaxFiles
  /\ used' = used + 1
  /\ files' = files \union {used + 1}
  /\ back' = [back EXCEPT ![used + 1] = f]
  /\ own' = own

\* ... which the machine uses from now on.
Overlay(f) == NewFile(f) /\ live' = used + 1

\* virsh blockcommit --active --pivot, without --base or --shallow: the lowest
\* file of the chain comes to hold what the top shows, and is the disk again.
\* Only a running machine commits, and only a disk that has a backing file.
BlockCommit ==
  /\ running
  /\ back[live] # NoFile
  /\ own' = [own EXCEPT ![Lowest(live)] = Reads(live)]
  /\ live' = Lowest(live)

\* What libvirt does to the disk of a machine it also writes down in the
\* definition, if that names the same file.
Follow == named' = IF named = live THEN live' ELSE named

\* The backups in D that have read where the disk is and are not done with it:
\* somebody else has moved it.
Crossed(D) ==
  [c \in Calls |-> [call[c] EXCEPT !.crossed =
     @ \/ (c \in D /\ call[c].at \in {"freeze", "copy"})]]

-------------------------------------------------------------------------------
(* The machine *)

GuestWrites(b) ==
  /\ running
  /\ writes < MaxWrites
  /\ writes' = writes + 1
  /\ wrote' = [wrote EXCEPT ![b] = writes + 1]
  /\ own' = [own EXCEPT ![live][b] = writes + 1]
  /\ reverted' = 0
  /\ UNCHANGED <<files, used, back, domainVars, snapVars, call, astray>>

\* A start is a call of the runner as well.
Free == \E c \in Calls : call[c] = Idle

\* The machine writes to what a backup copies without an overlay.
SwitchOn ==
  /\ Free
  /\ ~running
  /\ Whole(live)
  /\ running' = TRUE
  /\ call' = Crossed({c \in Calls : call[c].at = "copy" /\ call[c].overlay = NoFile})
  /\ wrote' = IF astray THEN Reads(live) ELSE wrote
  /\ astray' = FALSE
  /\ UNCHANGED <<imageVars, named, live, snapVars, writes, reverted>>

\* A stop, a crash, or the guest that switches itself off: what is left is the
\* definition.
Off(D) ==
  /\ running' = FALSE
  /\ live' = named
  /\ call' = IF named = live THEN call ELSE Crossed(D)

SwitchOff ==
  /\ running
  /\ Off(Calls)
  /\ UNCHANGED <<imageVars, named, snapVars, guestVars>>

\* The runner is restarted: its calls are forgotten where they are.
RunnerRestarts ==
  /\ \E c \in Calls : call[c] # Idle
  /\ call' = [c \in Calls |-> Idle]
  /\ UNCHANGED <<imageVars, domainVars, snapVars, guestVars>>

-------------------------------------------------------------------------------
(* createSnapshot *)

\* Of a machine found running: snapshot-create-as --disk-only --atomic. It may
\* have stopped since; libvirt takes the snapshot all the same.
SnapshotLive(s) ==
  /\ Free
  /\ s = taken + 1
  /\ Overlay(live)
  /\ Follow
  /\ snap' = [snap EXCEPT ![s] = [over |-> used + 1, under |-> live, kept |-> Nothing, was |-> Reads(live),
                                  on |-> FALSE]]
  /\ snaps' = snaps \union {s}
  /\ taken' = s
  /\ call' = Crossed(Calls)
  /\ UNCHANGED <<running, guestVars>>

\* Of one found stopped, or in no known state: snapshot-create, which keeps the
\* blocks inside the file, and the memory with them if the machine runs.
SnapshotInternal(s) ==
  /\ Free
  /\ s = taken + 1
  /\ live \in files
  /\ snap' = [snap EXCEPT ![s] = [over |-> NoFile, under |-> live, kept |-> own[live], was |-> Reads(live),
                                  on |-> running]]
  /\ snaps' = snaps \union {s}
  /\ taken' = s
  /\ UNCHANGED <<imageVars, domainVars, call, guestVars>>

-------------------------------------------------------------------------------
(* rollbackSnapshot *)

\* snapshot-revert. An internal snapshot brings its file back, and the machine
\* if it ran; an external one gets, from a libvirt that can, a new overlay on
\* the file it froze, and leaves the machine off.
RevertInternal(s) ==
  /\ Free
  /\ s \in snaps
  /\ snap[s].over = NoFile
  /\ snap[s].under \in files
  /\ own' = [own EXCEPT ![snap[s].under] = snap[s].kept]
  /\ live' = snap[s].under
  /\ wrote' = View(files, back, own', live')
  /\ running' = snap[s].on
  /\ running' => \A b \in Blocks : wrote'[b] # Missing
  /\ named' = live'
  /\ reverted' = s
  /\ astray' = FALSE
  /\ call' = Crossed(Calls)
  /\ UNCHANGED <<files, used, back, snapVars, writes>>

RevertExternal(s) ==
  /\ Free
  /\ Reverts
  /\ s \in snaps
  /\ snap[s].over # NoFile
  /\ snap[s].under \in files
  /\ Overlay(snap[s].under)
  /\ named' = live'
  /\ running' = FALSE
  /\ reverted' = s
  /\ wrote' = Reads(snap[s].under)
  /\ astray' = FALSE
  /\ call' = Crossed(Calls)
  /\ UNCHANGED <<snapVars, writes>>

\* The command failed. If the machine was found running before, it is
\* destroyed, which may fail too and is not looked at...
RollbackDestroys(c, s, start) ==
  /\ call[c] = Idle
  /\ s \in snaps
  /\ snap[s].over # NoFile
  /\ running' \in {running, running /\ ~start}
  /\ live' = IF running' THEN live ELSE named
  /\ call' = [(IF live' = live THEN call ELSE Crossed(Calls)) EXCEPT
                ![c] = [Idle EXCEPT !.at = "revert", !.of = s, !.start = start]]
  /\ UNCHANGED <<imageVars, named, snapVars, guestVars>>

\* ... and the rest is given up if the overlay of the snapshot or its backing
\* file is gone, or if a command fails.
RollbackGivesUp(c) ==
  /\ call[c].at = "revert"
  /\ call' = [call EXCEPT ![c] = Idle]
  /\ UNCHANGED <<imageVars, domainVars, snapVars, guestVars>>

\* Otherwise that overlay gets another on top, which the definition names from
\* now on, and the machine is started if it ran.
RollbackEnds(c) ==
  LET over == snap[call[c].of].over
      start == call[c].start
  IN /\ call[c].at = "revert"
     /\ over \in files
     /\ back[over] \in files \union {NoFile}
     /\ NewFile(over)
     /\ named' = used + 1
     /\ \/ /\ ~running
           /\ live' = named'
           /\ running' \in {FALSE, start /\ Whole(over)}
           /\ wrote' = Reads(over)
           /\ reverted' = IF running' = start THEN call[c].of ELSE 0
           /\ astray' = FALSE
        \/ /\ running
           /\ reverted' = 0
           /\ astray' = TRUE
           /\ UNCHANGED <<live, running, wrote>>
     /\ call' = [Crossed(Calls) EXCEPT ![c] = Idle]
     /\ UNCHANGED <<snapVars, writes>>

-------------------------------------------------------------------------------
(* deleteSnapshot *)

Forget(s) ==
  /\ snaps' = snaps \ {s}
  /\ UNCHANGED <<snap, taken>>

\* snapshot-delete. A libvirt that can merges the overlay into the file below,
\* provided no other file lies on that one, and tells the files above it in the
\* chain of the machine. What an internal snapshot kept in it goes with it.
DeleteMerging(s) ==
  LET over == snap[s].over
      under == snap[s].under
  IN /\ Free
     /\ Reverts
     /\ s \in snaps
     /\ over \in Chain(live) \intersect files
     /\ under \in files
     /\ back[over] = under
     /\ \A f \in files : back[f] = under => f = over
     /\ own' = [own EXCEPT ![under] =
                  [b \in Blocks |-> IF own[over][b] # Hole THEN own[over][b] ELSE own[under][b]]]
     /\ back' = [f \in Ids |-> IF f \in Chain(live) /\ back[f] = over THEN under ELSE back[f]]
     /\ live' = IF live = over THEN under ELSE live
     /\ Follow
     /\ files' = files \ {over}
     /\ snaps' = snaps \ {s}
     /\ snap' = [t \in Snaps |-> IF snap[t].over # NoFile /\ snap[t].under = over
                                 THEN [snap[t] EXCEPT !.under = under] ELSE snap[t]]
     /\ call' = Crossed(Calls)
     /\ UNCHANGED <<used, running, taken, guestVars>>

\* The command failed, or there is nothing to merge: the disk is committed if
\* the overlay of the snapshot is on top, its failure is ignored, and libvirt
\* is told to forget the snapshot, which may fail for itself.
DeleteMetadata(s) ==
  /\ Free
  /\ s \in snaps
  /\ \/ UNCHANGED <<own, live, call>>
     \/ live = snap[s].over /\ BlockCommit /\ call' = Crossed(Calls)
  /\ Follow
  /\ Forget(s) \/ UNCHANGED snapVars
  /\ UNCHANGED <<files, used, back, running, guestVars>>

-------------------------------------------------------------------------------
(* backupVm, backupVmToPbs *)

\* Mutant: a running machine is copied like a stopped one.
Bug_BackupUnfrozen(c, format, on) ==
  /\ call[c] = Idle
  /\ live \in files
  /\ call' = [call EXCEPT ![c] = [Idle EXCEPT !.at = "copy", !.format = format, !.source = live,
                                              !.was = Reads(live)]]
  /\ UNCHANGED <<imageVars, domainVars, snapVars, guestVars>>

\* The state of the machine is read, and its definition. A running machine
\* whose state was not to be had, or that was started since, is copied as if
\* it were off.
BackupBegins(c, format, on) ==
  /\ call[c] = Idle
  /\ live \in files
  /\ call' = [call EXCEPT ![c] = [Idle EXCEPT !.at = IF on THEN "freeze" ELSE "copy",
                                              !.format = format, !.source = live, !.was = Reads(live),
                                              !.crossed = running /\ ~on]]
  /\ UNCHANGED <<imageVars, domainVars, snapVars, guestVars>>

\* freezeVmDisks
Freeze(c) ==
  /\ call[c].at = "freeze"
  /\ \/ /\ Overlay(live)
        /\ Follow
        /\ call' = [Crossed(Calls \ {c}) EXCEPT
                      ![c] = [@ EXCEPT !.at = "copy", !.overlay = used + 1, !.was = Reads(live)]]
     \/ /\ call' = [call EXCEPT ![c] = Idle]
        /\ UNCHANGED <<imageVars, named, live>>
  /\ UNCHANGED <<running, snapVars, guestVars>>

\* qemu-img convert reads what the file shows, tar only what it holds.
Reading(format, f, b) == IF format = "tar" /\ f \in files THEN own[f][b] ELSE Reads(f)[b]

Copy(c, b) ==
  LET k == call[c] IN
  /\ k.at = "copy"
  /\ k.copied[b] = NotYet
  /\ Reading(k.format, k.source, b) # Missing
  /\ call' = [call EXCEPT ![c].copied[b] = Reading(k.format, k.source, b)]
  /\ UNCHANGED <<imageVars, domainVars, snapVars, guestVars>>

\* The copy is made, or has failed.
Made(c) == \A b \in Blocks : call[c].copied[b] # NotYet

\* Mutant: the overlay is unlinked in any case.
Bug_AlwaysUnlink(overlay, pivoted) == files \ {overlay}

\* The overlay is unlinked only if the commit went well.
AfterThaw(overlay, pivoted) == IF pivoted THEN files \ {overlay} ELSE files

\* thawVmDisks, in the finally: the call fails if the copy or the commit did.
Thaw(c) ==
  /\ call[c].at = "copy"
  /\ \E pivoted \in BOOLEAN :
       LET commits == pivoted /\ call[c].overlay # NoFile
           ended == IF Made(c) /\ (pivoted \/ call[c].overlay = NoFile)
                    THEN [call[c] EXCEPT !.at = "stored"] ELSE Idle
       IN /\ IF commits THEN BlockCommit ELSE UNCHANGED <<own, live>>
          /\ Follow
          /\ files' = AfterThaw(call[c].overlay, pivoted)
          /\ call' = [(IF commits THEN Crossed(Calls \ {c}) ELSE call) EXCEPT ![c] = ended]
  /\ UNCHANGED <<used, back, running, snapVars, guestVars>>

\* The backup is reported.
BackupReturns(c) ==
  /\ call[c].at = "stored"
  /\ call' = [call EXCEPT ![c] = Idle]
  /\ UNCHANGED <<imageVars, domainVars, snapVars, guestVars>>

-------------------------------------------------------------------------------
Next ==
  \/ \E b \in Blocks : GuestWrites(b)
  \/ SwitchOn
  \/ SwitchOff
  \/ RunnerRestarts
  \/ \E s \in Snaps :
       \/ SnapshotLive(s)
       \/ SnapshotInternal(s)
       \/ RevertInternal(s)
       \/ RevertExternal(s)
       \/ DeleteMerging(s)
       \/ DeleteMetadata(s)
       \/ \E c \in Calls, start \in BOOLEAN : RollbackDestroys(c, s, start)
  \/ \E c \in Calls :
       \/ RollbackGivesUp(c)
       \/ RollbackEnds(c)
       \/ \E format \in Format, on \in BOOLEAN : BackupBegins(c, format, on)
       \/ Freeze(c)
       \/ \E b \in Blocks : Copy(c, b)
       \/ Thaw(c)
       \/ BackupReturns(c)

Spec == Init /\ [][Next]_vars

-------------------------------------------------------------------------------
(* Properties *)

\* The disk shows what the guest wrote, whatever snapshot, backup, failed
\* command, stop or restart of the runner comes in between (thawVmDisks keeps
\* the overlay whose commit failed). Only a machine that was redefined by a
\* rollback while it ran finds another disk after it stops.
WritesSurvive == running \/ ~astray => Reads(live) = wrote

\* A backup that is reported holds what the guest had at one moment
\* (freezeVmDisks: "so the base images stop changing and can be read
\* consistently while the VM keeps running"), unless another call, or a start
\* of the machine, has moved the disk under it. An archive of a disk with
\* snapshots lacks what lies in the files below.
BackupIsPointInTime ==
  \A c \in Calls : call[c].at = "stored" /\ ~call[c].crossed =>
    \A b \in Blocks :
      \/ call[c].copied[b] = call[c].was[b]
      \/ call[c].format = "tar" /\ back[call[c].source] # NoFile /\ call[c].copied[b] = Hole

\* A rollback that is reported for a machine that had stopped gives it what it
\* had when the snapshot was taken ("The VM state will be reverted to this
\* snapshot.").
RollbackRestores == reverted # 0 => wrote = snap[reverted].was
===============================================================================
