------------------------- MODULE VdmMigration_proofs -------------------------
(***************************************************************************)
(* Proofs about VdmMigration.  Types are right for every deployment.  That *)
(* no guest is lost, that a completed move has carried it over, that no    *)
(* disk is set back, and that copies come and go as CopySet says, needs    *)
(* the deployment LocalMoves describes: local pools, unless the guests are *)
(* containers.  Any guest may have any number of disks.                    *)
(***************************************************************************)
EXTENDS VdmMigration, TLAPS

(* The request whose answer the workflow has is one that needs a backup.   *)
HasBackup(o) == step[o] \notin {"prepare", "backup"} \/ (step[o] = "backup" /\ phase[o] = "ok")

(* An accepted workflow knows its work, and has its archive when it needs  *)
(* it.                                                                     *)
Prepared ==
  \A o \in Workflow : status[o] # "none" =>
    work[o] # NoWork /\ (HasBackup(o) => archive[o] # NoData)

LEMMA ResolveIsFile ==
  ASSUME NEW n \in Node, NEW p \in Path PROVE Resolve(n, p) \in File
BY DEF Resolve, Path, File

LEMMA PerDiskFacts ==
  ASSUME NEW S, NEW f \in PerDisk(S)
  PROVE  /\ 1 \in DOMAIN f /\ DOMAIN f \subseteq Disk
         /\ \A d \in DOMAIN f : f[d] \in S
<1>1. PICK k \in Disk : f \in [1 .. k -> S] BY DEF PerDisk
<1>2. DOMAIN f = 1 .. k /\ k \in Nat /\ k >= 1 BY <1>1 DEF Disk
<1>3. 1 .. k \subseteq Disk BY <1>2, ConstAssumption DEF Disk
<1> QED BY <1>1, <1>2, <1>3

LEMMA PerDiskMap ==
  ASSUME NEW S, NEW T, NEW f \in PerDisk(S), NEW g,
         g = [d \in DOMAIN f |-> g[d]], \A d \in DOMAIN f : g[d] \in T
  PROVE  g \in PerDisk(T) /\ DOMAIN g = DOMAIN f
<1>1. PICK k \in Disk : f \in [1 .. k -> S] BY DEF PerDisk
<1>2. DOMAIN f = 1 .. k BY <1>1
<1>3. g \in [1 .. k -> T] BY <1>2
<1> QED BY <1>3 DEF PerDisk

LEMMA FilesAreFiles ==
  ASSUME TypeOK, NEW n \in Node, NEW g \in Guest, Defined(n, g)
  PROVE  Files(n, g) \subseteq File
<1>1. domain[n][g] \in PerDisk(Path) BY DEF TypeOK, Defined
<1> QED BY <1>1, PerDiskFacts, ResolveIsFile DEF Files

LEMMA WorkFields ==
  ASSUME NEW w \in Work
  PROVE  /\ w.guest \in Guest /\ w.as \in Guest /\ w.from \in Node /\ w.to \in Node
         /\ w.from # w.to /\ w.shared \in SharedChoice
         /\ w.deleteSource => w.as = w.guest
         /\ w.as = w.guest \/ w.kind = "clone"
BY ConstAssumption DEF Work

LEMMA RestoredPathIsPath ==
  ASSUME NEW w \in Work PROVE RestoredPath(w) \in Path /\ RestoredFile(w) \in File
<1>1. 1 \in Disk BY ConstAssumption DEF Disk
<1>2. RestoredPath(w) \in Path BY <1>1, WorkFields DEF RestoredPath, Path
<1> QED BY <1>2, WorkFields, ResolveIsFile DEF RestoredFile

LEMMA FollowingFacts ==
  ASSUME NEW s \in Step
  PROVE  /\ Following(s) \in Step
         /\ s = "prepare" => Following(s) = "backup"
         /\ Following(s) = "backup" => s = "prepare"
         /\ Following(s) = "restore" => s = "handover"
         /\ Following(s) = "validate" => s = "restore"
         /\ Following(s) = "delete" => s \in {"validate", "delete"}
BY DEF Following, Step

LEMMA FirstPathFacts ==
  ASSUME NEW where \in [Guest -> InitialPool], NEW size \in [Guest -> Disk], NEW g \in Guest
  PROVE  FirstPath(g, where, size) \in PerDisk(Path)
<1> USE ConstAssumption
<1>1. 1 \in Disk BY DEF Disk
<1>2. CASE g \in Container
  <2>1. [pool |-> "local", name |-> g, disk |-> 1] \in Path BY <1>1 DEF Path
  <2>2. FirstPath(g, where, size) \in [1 .. 1 -> Path] BY <1>2, <2>1 DEF FirstPath
  <2> QED BY <1>1, <2>2 DEF PerDisk
<1>3. CASE g \notin Container
  <2>1. 1 .. size[g] \subseteq Disk BY DEF Disk
  <2>2. where[g] \in {"local", "shared"} OBVIOUS
  <2>3. FirstPath(g, where, size) \in [1 .. size[g] -> Path]
    BY <1>3, <2>1, <2>2 DEF FirstPath, Path
  <2> QED BY <2>3 DEF PerDisk
<1> QED BY <1>2, <1>3

LEMMA InitTypeOK == Init => TypeOK /\ Prepared
<1> SUFFICES ASSUME Init PROVE TypeOK /\ Prepared
  OBVIOUS
<1> USE ConstAssumption
<1>1. PICK home \in [Guest -> Node], where \in [Guest -> InitialPool], size \in [Guest -> Disk] :
        Placed(home, where, size)
  BY DEF Init
<1>2. \A g \in Guest : FirstPath(g, where, size) \in PerDisk(Path)
  BY FirstPathFacts
<1>3. domain \in [Node -> [Guest -> PerDisk(Path) \cup {NoDomain}]]
  BY <1>1, <1>2 DEF Placed
<1>4. data \in [File -> Content \cup {NoData}]
  BY <1>1 DEF Placed, File, Content
<1>5. running \subseteq Node \X Guest BY <1>1 DEF Placed
<1>6. /\ work \in [Workflow -> Work \cup {NoWork}] /\ status \in [Workflow -> Status]
      /\ step \in [Workflow -> Step] /\ Prepared
  BY DEF Init, Status, Step, Prepared
<1> QED BY <1>3, <1>4, <1>5, <1>6 DEF Init, TypeOK

(* What a node does to the guests keeps their types.                       *)
LEMMA RestoreTypes ==
  ASSUME TypeOK, Prepared, NEW o \in Workflow, status[o] # "none", step[o] = "restore"
  PROVE  /\ work[o] \in Work /\ archive[o] # NoData
         /\ RestoredDefinition(o) \in PerDisk(Path)
         /\ archive[o].content[1] \in Content
<1>1. work[o] \in Work /\ archive[o] # NoData BY DEF TypeOK, Prepared, HasBackup
<1>2. archive[o] \in Archive
  BY <1>1 DEF TypeOK
<1>3. 1 \in Disk BY ConstAssumption DEF Disk
<1>4. archive[o].path \in PerDisk(Path) /\ archive[o].content \in PerDisk(Content)
  BY <1>2 DEF Archive
<1> DEFINE p == archive[o].path
           q == RestoredDefinition(o)
<1>5. RestoredPath(work[o]) \in Path BY <1>1, RestoredPathIsPath
<1>6. p = [d \in DOMAIN p |-> p[d]] /\ 1 \in DOMAIN p /\ \A d \in DOMAIN p : p[d] \in Path
  <2>1. PICK k \in Disk : p \in [1 .. k -> Path] BY <1>4 DEF PerDisk
  <2> QED BY <1>4, <2>1, PerDiskFacts
<1>7. /\ q = [d \in DOMAIN p |-> q[d]]
      /\ \A d \in DOMAIN p : q[d] \in Path
  BY <1>5, <1>6 DEF RestoredDefinition
<1>8. q \in PerDisk(Path) BY <1>4, <1>7, PerDiskMap
<1>9. archive[o].content[1] \in Content BY <1>4, PerDiskFacts
<1> QED BY <1>1, <1>8, <1>9

LEMMA NextTypeOK == TypeOK /\ Prepared /\ [Next]_vars => TypeOK' /\ Prepared'
<1> SUFFICES ASSUME TypeOK, Prepared, [Next]_vars PROVE TypeOK' /\ Prepared'
  OBVIOUS
<1> USE ConstAssumption, ModelValueAssumption
<1>1. ASSUME NEW o \in Workflow, NEW w \in Work, Begin(o, w) PROVE TypeOK' /\ Prepared'
  <2>1. "running" \in Status /\ "prepare" \in Step BY DEF Status, Step
  <2>3. /\ status' \in [Workflow -> Status] /\ step' \in [Workflow -> Step]
        /\ work' \in [Workflow -> Work \cup {NoWork}]
    BY <1>1, <2>1 DEF Begin, TypeOK
  <2>5. phase' \in [Workflow -> {"sent", "checked", "half", "ok", "error"}]
    BY <1>1 DEF Begin, TypeOK
  <2>6. UNCHANGED <<domain, running, data, archive, doomed>> BY <1>1 DEF Begin, guests
  <2>7. rushed' \subseteq Guest
    <3>1. \A k \in Touches(w) : k[1] \in Guest BY WorkFields DEF Touches
    <3> QED BY <1>1, <3>1 DEF Begin, TypeOK
  <2>4. TypeOK' BY <2>3, <2>5, <2>6, <2>7 DEF TypeOK
  <2>2. Prepared' BY <1>1 DEF Begin, guests, TypeOK, Prepared, HasBackup
  <2> QED BY <2>2, <2>4
<1>2. ASSUME NEW o \in Workflow, Proceed(o) PROVE TypeOK' /\ Prepared'
  <2>1. step[o] \in Step BY DEF TypeOK
  <2>2. TypeOK' BY <1>2, <2>1, FollowingFacts DEF Proceed, guests, TypeOK
  <2>4. step[o] = "prepare" => Following(step[o]) = "backup" BY <2>1, FollowingFacts
  <2>5. HasBackup(o)' => HasBackup(o)
    BY <1>2, <2>4 DEF Proceed, TypeOK, HasBackup
  <2>3. Prepared' BY <1>2, <2>5 DEF Proceed, Active, guests, TypeOK, Prepared, HasBackup
  <2> QED BY <2>2, <2>3
<1>3. ASSUME NEW o \in Workflow, Complete(o) \/ GiveUp(o) PROVE TypeOK' /\ Prepared'
  <2>1. TypeOK' BY <1>3 DEF Complete, GiveUp, guests, TypeOK, Status
  <2>2. Prepared' BY <1>3 DEF Complete, GiveUp, Active, guests, TypeOK, Prepared, HasBackup
  <2> QED BY <2>1, <2>2
<1>4. CASE Restart
  <2>1. TypeOK' BY <1>4 DEF Restart, guests, TypeOK, Status
  <2>2. Prepared' BY <1>4 DEF Restart, Active, guests, TypeOK, Prepared, HasBackup
  <2> QED BY <2>1, <2>2
<1>5. ASSUME NEW o \in Workflow,
             Serve(o) \/ Validate(o)
      PROVE  TypeOK' /\ Prepared'
  <2>1. TypeOK' BY <1>5 DEF Serve, Validate, Answer, guests, TypeOK
  <2>2. Prepared'
    BY <1>5 DEF Serve, Validate, Reached, Answer, guests, TypeOK, Prepared, HasBackup
  <2> QED BY <2>1, <2>2
<1>6. ASSUME NEW o \in Workflow, Backup(o) PROVE TypeOK' /\ Prepared'
  <2> DEFINE w == work[o]
             P == domain[w.from][w.guest]
             c == [d \in DOMAIN P |-> data[Resolve(w.from, P[d])]]
             taken == [path |-> P, content |-> c]
  <2>1. w \in Work BY <1>6 DEF Backup, Reached, TypeOK, Prepared
  <2>2. P \in PerDisk(Path) BY <1>6, <2>1, WorkFields DEF Backup, Intact, Defined, TypeOK
  <2>12. \A d \in DOMAIN P : P[d] \in Path BY <2>2, PerDiskFacts
  <2>3. \A d \in DOMAIN P : data[Resolve(w.from, P[d])] \in Content
    BY <1>6, <2>1, <2>12, WorkFields, ResolveIsFile DEF Backup, Intact, Files, TypeOK
  <2>13. c \in PerDisk(Content)
    <3>1. PICK k \in Disk : P \in [1 .. k -> Path] BY <2>2 DEF PerDisk
    <3>2. DOMAIN P = 1 .. k BY <3>1
    <3>3. c \in [1 .. k -> Content] BY <2>3, <3>2
    <3> QED BY <3>3 DEF PerDisk
  <2>4. taken \in Archive BY <2>2, <2>13 DEF Archive
  <2>5. archive' = [archive EXCEPT ![o] = taken] BY <1>6 DEF Backup
  <2> HIDE DEF taken
  <2>6. taken # NoData BY <2>4
  <2>9. UNCHANGED <<domain, running, data, work, status, step, doomed, rushed>>
    BY <1>6 DEF Backup, guests
  <2>10. phase' \in [Workflow -> {"sent", "checked", "half", "ok", "error"}]
    BY <1>6 DEF Backup, Answer, TypeOK
  <2>11. archive' \in [Workflow -> Archive \cup {NoData}] BY <2>4, <2>5 DEF TypeOK
  <2>7. TypeOK' BY <2>9, <2>10, <2>11 DEF TypeOK
  <2>8. Prepared' BY <1>6, <2>4, <2>5, <2>6 DEF Backup, Reached, Answer, guests, TypeOK, Prepared, HasBackup
  <2> QED BY <2>7, <2>8
<1>7. ASSUME NEW o \in Workflow, RestoreCheck(o) \/ RestoreWrite(o) \/ RestoreDefine(o)
      PROVE  TypeOK' /\ Prepared'
  <2>1. status[o] # "none" /\ step[o] = "restore"
    BY <1>7 DEF RestoreCheck, RestoreWrite, RestoreDefine, Reached
  <2>2. work[o] \in Work BY <2>1, RestoreTypes
  <2>7. RestoredFile(work[o]) \in File BY <2>2, RestoredPathIsPath
  <2>8. archive[o].content[1] \in Content BY <2>1, RestoreTypes
  <2>9. data \in [File -> Content \cup {NoData}] BY DEF TypeOK
  <2>10. ASSUME RestoreCheck(o) PROVE data' \in [File -> Content \cup {NoData}]
    BY <2>10, <2>7, <2>9 DEF RestoreCheck
  <2>11. ASSUME RestoreWrite(o) PROVE data' \in [File -> Content \cup {NoData}]
    BY <2>11, <2>7, <2>8, <2>9 DEF RestoreWrite
  <2>12. ASSUME RestoreDefine(o) PROVE data' \in [File -> Content \cup {NoData}]
    BY <2>12, <2>9 DEF RestoreDefine
  <2>3. data' \in [File -> Content \cup {NoData}]
    BY <1>7, <2>10, <2>11, <2>12
  <2>13. RestoredDefinition(o) \in PerDisk(Path) BY <2>1, RestoreTypes
  <2>14. domain \in [Node -> [Guest -> PerDisk(Path) \cup {NoDomain}]] BY DEF TypeOK
  <2>15. \/ domain' = domain
         \/ domain' = [domain EXCEPT ![work[o].to][work[o].as] = RestoredDefinition(o)]
    BY <1>7 DEF RestoreCheck, RestoreWrite, RestoreDefine
  <2>4. domain' \in [Node -> [Guest -> PerDisk(Path) \cup {NoDomain}]]
    BY <2>13, <2>14, <2>15
  <2>5. TypeOK'
    BY <1>7, <2>3, <2>4 DEF RestoreCheck, RestoreWrite, RestoreDefine, Answer, TypeOK
  <2>6. Prepared'
    BY <1>7 DEF RestoreCheck, RestoreWrite, RestoreDefine, Reached, Answer, TypeOK, Prepared, HasBackup
  <2> QED BY <2>5, <2>6
<1>8. ASSUME NEW o \in Workflow, Undefine(o) PROVE TypeOK' /\ Prepared'
  <2>1. work[o] \in Work BY <1>8 DEF Undefine, Reached, TypeOK, Prepared
  <2>2. Defined(work[o].from, work[o].guest) => Files(work[o].from, work[o].guest) \subseteq File
    BY <2>1, WorkFields, FilesAreFiles
  <2>3. doomed' \in [Workflow -> SUBSET File] BY <1>8, <2>2 DEF Undefine, TypeOK
  <2>4. domain' \in [Node -> [Guest -> PerDisk(Path) \cup {NoDomain}]]
    BY <1>8, <2>1, WorkFields DEF Undefine, TypeOK
  <2>5. TypeOK' BY <1>8, <2>3, <2>4 DEF Undefine, Answer, TypeOK
  <2>6. Prepared' BY <1>8 DEF Undefine, Reached, Answer, TypeOK, Prepared, HasBackup
  <2> QED BY <2>5, <2>6
<1>9. ASSUME NEW o \in Workflow, Unlink(o) \/ Break(o) PROVE TypeOK' /\ Prepared'
  <2>1. TypeOK' BY <1>9 DEF Unlink, Break, Answer, guests, TypeOK
  <2>2. Prepared'
    BY <1>9 DEF Unlink, Break, Reached, Busy, Answer, guests, TypeOK, Prepared, HasBackup
  <2> QED BY <2>1, <2>2
<1>10. ASSUME NEW n \in Node, NEW g \in Guest, User(n, g) PROVE TypeOK' /\ Prepared'
  <2>1. Prepared'
    BY <1>10 DEF User, SwitchOn, SwitchOff, GuestWrite, flow, Prepared, HasBackup
  <2>2. CASE SwitchOn(n, g) \/ SwitchOff(n, g)
    BY <2>1, <2>2 DEF SwitchOn, SwitchOff, flow, TypeOK
  <2>3. CASE GuestWrite(n, g)
    <3>1. Defined(n, g) BY <2>3 DEF GuestWrite, Intact
    <3>2. Files(n, g) \subseteq File BY <3>1, FilesAreFiles
    <3>3. \A f \in Files(n, g) : [data[f] EXCEPT !.version = @ + 1] \in Content
      BY <2>3, <3>2 DEF GuestWrite, Intact, TypeOK, Content
    <3>4. data' \in [File -> Content \cup {NoData}] BY <2>3, <3>3 DEF GuestWrite, TypeOK
    <3> QED BY <2>1, <2>3, <3>4 DEF GuestWrite, flow, TypeOK
  <2> QED BY <1>10, <2>2, <2>3 DEF User
<1>11. CASE UNCHANGED vars
  BY <1>11 DEF vars, TypeOK, Prepared, HasBackup
<1> QED
  BY <1>1, <1>2, <1>3, <1>4, <1>5, <1>6, <1>7, <1>8, <1>9, <1>10, <1>11 DEF Next, Vdm, Host

(* Type correctness of moves and clones, for every deployment.             *)
THEOREM TypeCorrect == Spec => []TypeOK
<1>1. TypeOK /\ Prepared /\ [Next]_vars => (TypeOK /\ Prepared)' BY NextTypeOK
<1> QED BY <1>1, InitTypeOK, PTL DEF Spec
-----------------------------------------------------------------------------
(* Where the disks are, whatever is ordered when.                          *)

(* VMs over local pools, of any number of disks; or containers, which have *)
(* the node's own directory whatever storage is chosen.                    *)
LocalMoves == \/ InitialPool \subseteq {"local"} /\ SharedChoice \subseteq {FALSE}
              \/ Container = Guest

DiskFile(n, h, d) == [pool |-> n, name |-> h, disk |-> d]

(* The file of guest h on node n that a restore writes.                    *)
Own(n, h) == DiskFile(n, h, 1)

(* Paths of a guest h: in local pools, the first under its own name.       *)
Local(p, h) ==
  /\ p[1] = [pool |-> "local", name |-> h, disk |-> 1]
  /\ \A d \in DOMAIN p : p[d].pool = "local" /\ p[d].disk = d

(* A further disk under another name has stayed behind on another node.    *)
Behind(n, h, p) ==
  \A d \in DOMAIN p : d # 1 /\ p[d].name # h => data[DiskFile(n, p[d].name, d)] = NoData

(* What a file of h may hold: a first disk, its own unless h is a clone.   *)
Right(h, c) == c.disk = 1 /\ (h \notin CopyName => c.of = h)

HomePaths  == \A n \in Node, h \in Guest : Defined(n, h) => Local(domain[n][h], h)
StayBehind == \A n \in Node, h \in Guest : Defined(n, h) => Behind(n, h, domain[n][h])
RightDisks == \A n \in Node, h \in Guest : data[Own(n, h)] # NoData => Right(h, data[Own(n, h)])

(* Only the first disk is ever copied to another node.                     *)
OneHome == \A n \in Node, m \in Node, h \in Guest, d \in Disk :
             d # 1 /\ data[DiskFile(n, h, d)] # NoData /\ data[DiskFile(m, h, d)] # NoData
               => n = m

CopyNames  == \A o \in Workflow : status[o] # "none" =>
                work[o].as = work[o].guest \/ work[o].as \in CopyName

GoodArchive(o) ==
  LET p == archive[o].path IN
  /\ status[o] # "none"
  /\ Right(work[o].guest, archive[o].content[1])
  /\ Local(p, work[o].guest)
  /\ \A d \in DOMAIN p : d # 1 => data[DiskFile(work[o].to, p[d].name, d)] = NoData

FaithfulArchive == \A o \in Workflow : archive[o] # NoData => GoodArchive(o)

(* A file to unlink is the source's own, or there is nothing to unlink.    *)
GoodDoomed(o, f) ==
  /\ status[o] # "none"
  /\ \/ f = Own(work[o].from, work[o].guest)
     \/ /\ f.disk # 1 /\ f.pool = work[o].from
        /\ f.name = work[o].guest \/ data[f] = NoData

DoomedOwn == \A o \in Workflow : \A f \in doomed[o] : GoodDoomed(o, f)

Sound == /\ TypeOK /\ Prepared /\ HomePaths /\ StayBehind /\ RightDisks /\ OneHome
         /\ CopyNames /\ FaithfulArchive /\ DoomedOwn

LEMMA DiskFileIsFile ==
  ASSUME NEW n \in Node, NEW h \in Guest, NEW d \in Disk
  PROVE  DiskFile(n, h, d) \in File /\ DiskFile(n, h, d).disk = d
BY DEF DiskFile, File

LEMMA OwnIsFile == ASSUME NEW n \in Node, NEW h \in Guest PROVE Own(n, h) \in File
BY ConstAssumption DEF Own, DiskFile, File, Disk

LEMMA DiskFileInjective ==
  ASSUME NEW n, NEW h, NEW d, NEW m, NEW g, NEW e, DiskFile(n, h, d) = DiskFile(m, g, e)
  PROVE  n = m /\ h = g /\ d = e
<1>1. DiskFile(n, h, d).pool = n /\ DiskFile(n, h, d).name = h /\ DiskFile(n, h, d).disk = d
  BY DEF DiskFile
<1>2. DiskFile(m, g, e).pool = m /\ DiskFile(m, g, e).name = g /\ DiskFile(m, g, e).disk = e
  BY DEF DiskFile
<1> QED BY <1>1, <1>2

(* The files of a definition, one for each of its disks.                   *)
LEMMA HomeFiles ==
  ASSUME TypeOK, HomePaths, NEW n \in Node, NEW h \in Guest, Defined(n, h)
  PROVE  LET p == domain[n][h] IN
         /\ p \in PerDisk(Path) /\ 1 \in DOMAIN p /\ DOMAIN p \subseteq Disk
         /\ Local(p, h)
         /\ Resolve(n, p[1]) = Own(n, h)
         /\ \A d \in DOMAIN p : /\ p[d].name \in Guest
                                /\ Resolve(n, p[d]) = DiskFile(n, p[d].name, d)
         /\ \A f \in Files(n, h) :
              \E d \in DOMAIN p : f = DiskFile(n, p[d].name, d) /\ (d = 1 => f = Own(n, h))
<1> DEFINE p == domain[n][h]
<1>1. p \in PerDisk(Path) BY DEF TypeOK, Defined
<1>2. 1 \in DOMAIN p /\ DOMAIN p \subseteq Disk /\ \A d \in DOMAIN p : p[d] \in Path
  BY <1>1, PerDiskFacts
<1>3. Local(p, h) BY DEF HomePaths
<1>4. ASSUME NEW d \in DOMAIN p
      PROVE  p[d].name \in Guest /\ Resolve(n, p[d]) = DiskFile(n, p[d].name, d)
  <2>1. p[d].pool = "local" /\ p[d].disk = d BY <1>3 DEF Local
  <2> QED BY <1>2, <2>1 DEF Path, Resolve, DiskFile
<1>5. p[1].name = h BY <1>3 DEF Local
<1>6. Resolve(n, p[1]) = Own(n, h) BY <1>2, <1>4, <1>5 DEF Own
<1>7. \A f \in Files(n, h) :
        \E d \in DOMAIN p : f = DiskFile(n, p[d].name, d) /\ (d = 1 => f = Own(n, h))
  BY <1>4, <1>5 DEF Files, Own
<1> QED BY <1>1, <1>2, <1>3, <1>4, <1>6, <1>7

(* What a step has to do to leave things sound.                            *)
LEMMA SoundStep ==
  ASSUME Sound, TypeOK', Prepared', CopyNames',
         \A o \in Workflow : status[o] # "none" => work'[o] = work[o] /\ status'[o] # "none",
         \A n \in Node, h \in Guest : Defined(n, h)' =>
           \/ domain'[n][h] = domain[n][h]
           \/ Local(domain'[n][h], h) /\ Behind(n, h, domain'[n][h]),
         \A f \in File : f.disk # 1 /\ data'[f] # NoData => data[f] # NoData,
         \A n \in Node, h \in Guest : data'[Own(n, h)] # NoData => Right(h, data'[Own(n, h)]),
         \A o \in Workflow : archive'[o] # NoData =>
           \/ archive'[o] = archive[o]
           \/ /\ status[o] # "none" /\ Right(work[o].guest, archive'[o].content[1])
              /\ Local(archive'[o].path, work[o].guest)
              /\ \A d \in DOMAIN archive'[o].path :
                   d # 1 => data[DiskFile(work[o].to, archive'[o].path[d].name, d)] = NoData,
         \A o \in Workflow : \A f \in doomed'[o] : f \in doomed[o] \/ GoodDoomed(o, f)
  PROVE  Sound'
<1> USE DEF Sound
<1>1. ASSUME NEW n \in Node, NEW h \in Guest, Defined(n, h)'
      PROVE  Local(domain'[n][h], h) /\ Behind(n, h, domain[n][h])'
  <2> DEFINE p == domain'[n][h]
  <2>1. p \in PerDisk(Path) BY <1>1 DEF TypeOK, Defined
  <2>5. DOMAIN p \subseteq Disk /\ \A d \in DOMAIN p : p[d] \in Path
    BY <2>1, PerDiskFacts
  <2>2. \A d \in DOMAIN p : d \in Disk /\ p[d].name \in Guest BY <2>5 DEF Path
  <2>3. Local(p, h) /\ Behind(n, h, p)
    BY <1>1 DEF HomePaths, StayBehind, Defined
  <2>4. ASSUME NEW d \in DOMAIN p, d # 1, p[d].name # h
        PROVE  data'[DiskFile(n, p[d].name, d)] = NoData
    <3>1. data[DiskFile(n, p[d].name, d)] = NoData BY <2>3, <2>4 DEF Behind
    <3>2. DiskFile(n, p[d].name, d) \in File /\ DiskFile(n, p[d].name, d).disk = d
      BY <2>2, DiskFileIsFile
    <3> QED BY <2>4, <3>1, <3>2
  <2> QED BY <2>3, <2>4 DEF Behind, DiskFile
<1>7. \A n \in Node, h \in Guest : Local(domain'[n][h], h) <=> Local(domain[n][h], h)'
  BY DEF Local
<1>2. HomePaths' /\ StayBehind' BY <1>1, <1>7 DEF HomePaths, StayBehind
<1>3. RightDisks' BY DEF RightDisks, Own, DiskFile
<1>8. ASSUME NEW n \in Node, NEW m \in Node, NEW h \in Guest, NEW d \in Disk, d # 1,
             data'[DiskFile(n, h, d)] # NoData, data'[DiskFile(m, h, d)] # NoData
      PROVE  n = m
  <2>1. data[DiskFile(n, h, d)] # NoData /\ data[DiskFile(m, h, d)] # NoData
    BY <1>8, DiskFileIsFile
  <2> QED BY <1>8, <2>1 DEF OneHome
<1>4. OneHome'
  BY ONLY <1>8 DEF OneHome, DiskFile
<1>5. FaithfulArchive'
  <2> SUFFICES ASSUME NEW o \in Workflow, archive'[o] # NoData PROVE GoodArchive(o)'
    BY DEF FaithfulArchive
  <2> DEFINE p == archive'[o].path
  <2>1. /\ status[o] # "none" /\ Right(work[o].guest, archive'[o].content[1])
        /\ Local(p, work[o].guest)
        /\ \A d \in DOMAIN p : d # 1 => data[DiskFile(work[o].to, p[d].name, d)] = NoData
    BY DEF FaithfulArchive, GoodArchive
  <2>2. work'[o] = work[o] /\ status'[o] # "none" BY <2>1
  <2>3. work[o].to \in Node BY <2>1, WorkFields DEF Prepared, TypeOK
  <2>4. archive'[o] \in Archive BY DEF TypeOK
  <2>5. p \in PerDisk(Path) BY <2>4 DEF Archive
  <2>8. DOMAIN p \subseteq Disk /\ \A d \in DOMAIN p : p[d] \in Path
    BY <2>5, PerDiskFacts
  <2>6. \A d \in DOMAIN p : d \in Disk /\ p[d].name \in Guest BY <2>8 DEF Path
  <2>7. ASSUME NEW d \in DOMAIN p, d # 1
        PROVE  data'[DiskFile(work[o].to, p[d].name, d)] = NoData
    <3>1. DiskFile(work[o].to, p[d].name, d) \in File
          /\ DiskFile(work[o].to, p[d].name, d).disk = d
      BY <2>3, <2>6, DiskFileIsFile
    <3> QED BY <2>1, <2>7, <3>1
  <2> QED BY <2>1, <2>2, <2>7 DEF GoodArchive, DiskFile, Local, Right
<1>6. DoomedOwn'
  <2> SUFFICES ASSUME NEW o \in Workflow, NEW f \in doomed'[o] PROVE GoodDoomed(o, f)'
    BY DEF DoomedOwn
  <2>1. GoodDoomed(o, f) BY DEF DoomedOwn
  <2>2. f \in File BY DEF TypeOK
  <2>3. work'[o] = work[o] /\ status'[o] # "none" BY <2>1 DEF GoodDoomed
  <2> QED BY <2>1, <2>2, <2>3 DEF GoodDoomed, Own, DiskFile
<1> QED BY <1>2, <1>3, <1>4, <1>5, <1>6

LEMMA InitSound == ASSUME LocalMoves PROVE Init => Sound
<1> SUFFICES ASSUME Init PROVE Sound
  OBVIOUS
<1> USE ConstAssumption, ModelValueAssumption
<1>1. TypeOK /\ Prepared BY InitTypeOK
<1>2. PICK home \in [Guest -> Node], where \in [Guest -> InitialPool], size \in [Guest -> Disk] :
        Placed(home, where, size)
  BY DEF Init
<1>3. \A h \in Guest : FirstPath(h, where, size) \in PerDisk(Path) BY FirstPathFacts
<1>4. ASSUME NEW h \in Guest
      PROVE  /\ Local(FirstPath(h, where, size), h)
             /\ \A d \in DOMAIN FirstPath(h, where, size) : FirstPath(h, where, size)[d].name = h
  <2>1. CASE h \in Container
    BY <2>1 DEF FirstPath, Local
  <2>2. CASE h \notin Container
    <3>1. where[h] = "local" BY <2>2 DEF LocalMoves
    <3>2. size[h] \in Nat /\ size[h] >= 1 BY DEF Disk
    <3>3. 1 \in 1 .. size[h] BY <3>2
    <3> QED BY <2>2, <3>1, <3>3 DEF FirstPath, Local
  <2> QED BY <2>1, <2>2
<1>5. \A n \in Node, h \in Guest :
        /\ Defined(n, h) <=> Exists(n, h, home)
        /\ Defined(n, h) => domain[n][h] = FirstPath(h, where, size)
  BY <1>2, <1>3 DEF Placed, Defined
<1>6. HomePaths BY <1>4, <1>5 DEF HomePaths
<1>7. StayBehind BY <1>4, <1>5 DEF StayBehind, Behind
<1>8. ASSUME NEW f \in File, data[f] # NoData
      PROVE  /\ data[f] = [of |-> f.name, disk |-> f.disk, version |-> 0]
             /\ f.pool = home[f.name]
  <2>1. /\ data[f] = [of |-> f.name, disk |-> f.disk, version |-> 0]
        /\ \E n \in Node : Exists(n, f.name, home) /\ f \in Files(n, f.name)
    BY <1>2, <1>8 DEF Placed
  <2>2. PICK n \in Node : Exists(n, f.name, home) /\ f \in Files(n, f.name) BY <2>1
  <2>3. f.name \in Guest BY DEF File
  <2>4. Defined(n, f.name) BY <1>5, <2>2, <2>3
  <2>5. \E k, d : f = DiskFile(n, k, d) BY <1>1, <1>6, <2>2, <2>3, <2>4, HomeFiles
  <2>6. f.pool = n BY <2>5 DEF DiskFile
  <2> QED BY <2>1, <2>2, <2>6 DEF Exists
<1>9. RightDisks
  <2> SUFFICES ASSUME NEW n \in Node, NEW h \in Guest, data[Own(n, h)] # NoData
               PROVE  Right(h, data[Own(n, h)])
    BY DEF RightDisks
  <2>1. Own(n, h).name = h /\ Own(n, h).disk = 1 BY DEF Own, DiskFile
  <2>2. data[Own(n, h)] = [of |-> h, disk |-> 1, version |-> 0] BY <1>8, <2>1, OwnIsFile
  <2>3. data[Own(n, h)].of = h /\ data[Own(n, h)].disk = 1 BY <2>2
  <2> QED BY <2>3 DEF Right
<1>10. OneHome
  <2> SUFFICES ASSUME NEW n \in Node, NEW m \in Node, NEW h \in Guest, NEW d \in Disk,
                      data[DiskFile(n, h, d)] # NoData, data[DiskFile(m, h, d)] # NoData
               PROVE  n = m
    BY DEF OneHome
  <2>1. DiskFile(n, h, d).pool = n /\ DiskFile(n, h, d).name = h BY DEF DiskFile
  <2>2. DiskFile(m, h, d).pool = m /\ DiskFile(m, h, d).name = h BY DEF DiskFile
  <2>3. n = home[h] BY <1>8, <2>1, DiskFileIsFile
  <2>4. m = home[h] BY <1>8, <2>2, DiskFileIsFile
  <2> QED BY <2>3, <2>4
<1>11. CopyNames /\ FaithfulArchive /\ DoomedOwn
  BY DEF Init, CopyNames, FaithfulArchive, DoomedOwn
<1> QED BY <1>1, <1>6, <1>7, <1>9, <1>10, <1>11 DEF Sound

(* A restore puts the first disk under the guest's own name, and changes   *)
(* nothing but the guest restored.                                         *)
LEMMA RestoreEffect ==
  ASSUME LocalMoves, Sound, NEW o \in Workflow,
         RestoreCheck(o) \/ RestoreWrite(o) \/ RestoreDefine(o)
  PROVE  LET w == work[o]
             q == RestoredDefinition(o)
         IN
         /\ w \in Work /\ status[o] # "none" /\ step[o] = "restore"
         /\ archive[o].content[1] \in Content /\ Right(w.as, archive[o].content[1])
         /\ q # NoDomain /\ Local(q, w.as) /\ Behind(w.to, w.as, q)
         /\ \A f \in File : f # Own(w.to, w.as) => data'[f] = data[f]
         /\ data'[Own(w.to, w.as)] \in {data[Own(w.to, w.as)], NoData, archive[o].content[1]}
         /\ \A n \in Node, h \in Guest : ~(n = w.to /\ h = w.as) => domain'[n][h] = domain[n][h]
         /\ domain'[w.to][w.as] \in {domain[w.to][w.as], q}
         /\ RestoreCheck(o) => ~Defined(w.to, w.as) /\ domain' = domain /\ phase'[o] = "checked"
         /\ RestoreWrite(o) => /\ phase[o] = "checked" /\ phase'[o] = "half"
                               /\ ~Defined(w.to, w.as) =>
                                    data'[Own(w.to, w.as)] = archive[o].content[1]
         /\ RestoreDefine(o) => /\ phase[o] = "half" /\ phase'[o] = "ok" /\ data' = data
                                /\ domain'[w.to][w.as] = q
<1> USE DEF Sound
<1> DEFINE w == work[o]
           q == RestoredDefinition(o)
           p == archive[o].path
<1>1. status[o] # "none" /\ step[o] = "restore"
  BY DEF RestoreCheck, RestoreWrite, RestoreDefine, Reached
<1>2. w \in Work /\ archive[o] # NoData /\ q \in PerDisk(Path) /\ archive[o].content[1] \in Content
  BY <1>1, RestoreTypes
<1>3. w.to \in Node /\ w.as \in Guest BY <1>2, WorkFields
<1>4. GoodArchive(o) BY <1>2 DEF FaithfulArchive
<1>5. Right(w.as, archive[o].content[1])
  BY <1>1, <1>4 DEF GoodArchive, CopyNames, Right
<1>6. RestoredPath(w) = [pool |-> "local", name |-> w.as, disk |-> 1]
  <2>1. w.shared = FALSE \/ w.as \in Container BY <1>2, <1>3, WorkFields DEF LocalMoves
  <2> QED BY <2>1 DEF RestoredPath
<1>7. RestoredFile(w) = Own(w.to, w.as) BY <1>6 DEF RestoredFile, Resolve, Own, DiskFile
<1>8. p \in PerDisk(Path)
  <2>1. archive[o] \in Archive BY <1>2 DEF TypeOK
  <2> QED BY <2>1 DEF Archive
<1>9. 1 \in DOMAIN p BY <1>8, PerDiskFacts
<1>10. /\ DOMAIN q = DOMAIN p /\ q[1] = RestoredPath(w)
       /\ \A d \in DOMAIN p : d # 1 => q[d] = p[d]
  BY <1>9 DEF RestoredDefinition
<1>11. Local(q, w.as)
  BY <1>4, <1>6, <1>10 DEF Local, GoodArchive
<1>12. Behind(w.to, w.as, q)
  <2>1. \A d \in DOMAIN p : d # 1 => data[DiskFile(w.to, p[d].name, d)] = NoData
    BY <1>4 DEF GoodArchive
  <2> HIDE DEF q
  <2> QED BY <1>10, <2>1 DEF Behind
<1>13. q # NoDomain BY <1>2, ModelValueAssumption
<1>14. Own(w.to, w.as) \in File BY <1>3, OwnIsFile
<1> HIDE DEF q
<1>15. /\ \A f \in File : f # Own(w.to, w.as) => data'[f] = data[f]
       /\ data'[Own(w.to, w.as)] \in {data[Own(w.to, w.as)], NoData, archive[o].content[1]}
  BY <1>7, <1>14 DEF RestoreCheck, RestoreWrite, RestoreDefine, TypeOK
<1>16. domain' = domain \/ domain' = [domain EXCEPT ![w.to][w.as] = q]
  BY DEF RestoreCheck, RestoreWrite, RestoreDefine, q
<1>17. /\ \A n \in Node, h \in Guest : ~(n = w.to /\ h = w.as) => domain'[n][h] = domain[n][h]
       /\ domain'[w.to][w.as] \in {domain[w.to][w.as], q}
  BY <1>3, <1>16 DEF TypeOK
<1>18. RestoreCheck(o) => ~Defined(w.to, w.as) /\ domain' = domain /\ phase'[o] = "checked"
  BY DEF RestoreCheck, Answer, TypeOK
<1>19. ASSUME RestoreWrite(o)
       PROVE  /\ phase[o] = "checked" /\ phase'[o] = "half"
              /\ ~Defined(w.to, w.as) => data'[Own(w.to, w.as)] = archive[o].content[1]
  BY <1>7, <1>14, <1>19 DEF RestoreWrite, Reached, Answer, TypeOK
<1>20. ASSUME RestoreDefine(o)
       PROVE  /\ phase[o] = "half" /\ phase'[o] = "ok" /\ data' = data
              /\ domain'[w.to][w.as] = q
  <2>1. domain' = [domain EXCEPT ![w.to][w.as] = q] BY <1>20 DEF RestoreDefine, q
  <2>2. domain'[w.to][w.as] = q BY <1>3, <2>1 DEF TypeOK
  <2> QED BY <1>20, <2>2 DEF RestoreDefine, Reached, Answer, TypeOK
<1> QED
  BY <1>1, <1>2, <1>5, <1>11, <1>12, <1>13, <1>15, <1>17, <1>18, <1>19, <1>20 DEF q

(* A guest that is switched on, off, or writes, keeps its disks its own,   *)
(* and they only get newer.                                                *)
LEMMA UserKeepsDisks ==
  ASSUME TypeOK, TypeOK', NEW n \in Node, NEW g \in Guest, User(n, g), NEW f \in File
  PROVE  /\ data[f] = NoData => data'[f] = NoData
         /\ data[f] # NoData =>
              /\ data'[f] # NoData /\ data'[f].of = data[f].of /\ data'[f].disk = data[f].disk
              /\ data'[f].version >= data[f].version
<1>1. data[f] # NoData => data[f] \in Content BY DEF TypeOK
<1>2. CASE SwitchOn(n, g) \/ SwitchOff(n, g)
  BY <1>1, <1>2, ConstAssumption DEF SwitchOn, SwitchOff, Content
<1>3. CASE GuestWrite(n, g)
  <2>1. CASE f \in Files(n, g)
    <3>1. data'[f] = [data[f] EXCEPT !.version = @ + 1] /\ data[f] # NoData
      BY <1>3, <2>1 DEF GuestWrite, Intact
    <3>2. /\ data'[f].of = data[f].of /\ data'[f].disk = data[f].disk
          /\ data'[f].version = data[f].version + 1
      BY <1>1, <3>1 DEF Content
    <3>3. data[f].version < MaxVersion BY <1>3, <2>1 DEF GuestWrite
    <3>4. data'[f] \in Content
      BY <1>1, <3>1, <3>3, ConstAssumption DEF Content
    <3>5. data[f].version \in Int BY <1>1, <3>1, ConstAssumption DEF Content
    <3> QED BY <3>1, <3>2, <3>4, <3>5, ModelValueAssumption
  <2>2. CASE f \notin Files(n, g)
    BY <1>1, <1>3, <2>2, ConstAssumption DEF GuestWrite, Content
  <2> QED BY <2>1, <2>2
<1> QED BY <1>2, <1>3 DEF User

(* Only a restore makes data, and only in the file of the guest restored.  *)
LEMMA DataStep ==
  ASSUME LocalMoves, Sound, [Next]_vars, NEW f \in File,
         ~\E o \in Workflow : RestoreCheck(o) \/ RestoreWrite(o) \/ RestoreDefine(o)
  PROVE  \/ data'[f] = data[f]
         \/ \E n \in Node, g \in Guest : User(n, g)
         \/ \E o \in Workflow : Unlink(o) /\ f \in doomed[o] /\ data'[f] = NoData
<1>1. CASE \E o \in Workflow : Unlink(o)
  <2>1. PICK o \in Workflow : Unlink(o) BY <1>1
  <2>2. data'[f] = IF f \in doomed[o] THEN NoData ELSE data[f] BY <2>1 DEF Unlink
  <2> QED BY <2>1, <2>2
<1>2. CASE ~\E o \in Workflow : Unlink(o)
  <2>1. data' = data \/ \E n \in Node, g \in Guest : User(n, g)
    BY <1>2 DEF Next, Vdm, Host, Begin, Proceed, Complete, GiveUp, Restart, Serve, Backup,
       Validate, Undefine, Break, guests, vars
  <2> QED BY <2>1
<1> QED BY <1>1, <1>2

LEMMA SoundData ==
  ASSUME LocalMoves, Sound, TypeOK', [Next]_vars
  PROVE  /\ \A f \in File : f.disk # 1 /\ data'[f] # NoData => data[f] # NoData
         /\ \A n \in Node, h \in Guest :
              data'[Own(n, h)] # NoData => Right(h, data'[Own(n, h)])
<1> USE DEF Sound
<1>0. \A n \in Node, h \in Guest : Own(n, h).disk = 1 /\ Own(n, h) \in File
  BY OwnIsFile DEF Own, DiskFile
<1>1. CASE \E o \in Workflow : RestoreCheck(o) \/ RestoreWrite(o) \/ RestoreDefine(o)
  <2>1. PICK o \in Workflow : RestoreCheck(o) \/ RestoreWrite(o) \/ RestoreDefine(o) BY <1>1
  <2> DEFINE w == work[o]
  <2>2. /\ w \in Work /\ Right(w.as, archive[o].content[1])
        /\ \A f \in File : f # Own(w.to, w.as) => data'[f] = data[f]
        /\ data'[Own(w.to, w.as)] \in {data[Own(w.to, w.as)], NoData, archive[o].content[1]}
    BY <2>1, RestoreEffect
  <2>3. w.to \in Node /\ w.as \in Guest BY <2>2, WorkFields
  <2>4. \A f \in File : f.disk # 1 => f # Own(w.to, w.as) BY <1>0, <2>3
  <2>5. ASSUME NEW n \in Node, NEW h \in Guest, data'[Own(n, h)] # NoData
        PROVE  Right(h, data'[Own(n, h)])
    <3>1. data[Own(n, h)] # NoData => Right(h, data[Own(n, h)]) BY DEF RightDisks
    <3>2. CASE Own(n, h) = Own(w.to, w.as)
      <4>1. n = w.to /\ h = w.as BY <3>2, DiskFileInjective DEF Own
      <4> QED BY <2>2, <2>5, <3>1, <4>1
    <3>3. CASE Own(n, h) # Own(w.to, w.as) BY <1>0, <2>2, <2>5, <3>1, <3>3
    <3> QED BY <3>2, <3>3
  <2> QED BY <2>2, <2>4, <2>5
<1>2. CASE ~\E o \in Workflow : RestoreCheck(o) \/ RestoreWrite(o) \/ RestoreDefine(o)
  <2>1. ASSUME NEW f \in File, data'[f] # NoData
        PROVE  data[f] # NoData /\ data'[f].of = data[f].of /\ data'[f].disk = data[f].disk
    BY <1>2, <2>1, DataStep, UserKeepsDisks
  <2> QED BY <1>0, <2>1 DEF RightDisks, Right
<1> QED BY <1>1, <1>2

LEMMA NextSound == ASSUME LocalMoves PROVE Sound /\ [Next]_vars => Sound'
<1> SUFFICES ASSUME Sound, [Next]_vars PROVE Sound'
  OBVIOUS
<1> USE DEF Sound
<1>1. TypeOK' /\ Prepared' BY NextTypeOK
<1>2. \A o \in Workflow : status[o] # "none" => work'[o] = work[o] /\ status'[o] # "none"
  BY DEF Next, Vdm, Host, User, Begin, Proceed, Complete, GiveUp, Restart, Active, Serve,
     Backup, RestoreCheck, RestoreWrite, RestoreDefine, Validate, Undefine, Unlink, Break,
     SwitchOn, SwitchOff, GuestWrite, flow, vars, TypeOK
<1>3. CopyNames'
  <2>1. ASSUME NEW o \in Workflow, status'[o] # "none", status[o] = "none"
        PROVE  work'[o].as = work'[o].guest \/ work'[o].as \in CopyName
    <3>1. \E w \in Work : Begin(o, w)
      BY <2>1 DEF Next, Vdm, Host, User, Begin, Proceed, Complete, GiveUp, Restart, Active,
         Serve, Backup, RestoreCheck, RestoreWrite, RestoreDefine, Validate, Undefine, Unlink,
         Break, SwitchOn, SwitchOff, GuestWrite, flow, vars, TypeOK
    <3>2. PICK w \in Work : Begin(o, w) BY <3>1
    <3>3. work'[o] = w /\ (w.kind = "clone" => w.as \in CopyName)
      BY <3>2 DEF Begin, TypeOK
    <3>4. w.as = w.guest \/ w.kind = "clone" BY WorkFields
    <3> QED BY <3>3, <3>4
  <2> QED BY <1>2, <2>1 DEF CopyNames
<1>4. /\ \A f \in File : f.disk # 1 /\ data'[f] # NoData => data[f] # NoData
      /\ \A n \in Node, h \in Guest :
           data'[Own(n, h)] # NoData => Right(h, data'[Own(n, h)])
  BY <1>1, SoundData
<1>5. ASSUME NEW n \in Node, NEW h \in Guest, Defined(n, h)'
      PROVE  \/ domain'[n][h] = domain[n][h]
             \/ Local(domain'[n][h], h) /\ Behind(n, h, domain'[n][h])
  <2>1. CASE \E o \in Workflow : RestoreCheck(o) \/ RestoreWrite(o) \/ RestoreDefine(o)
    BY <2>1, RestoreEffect
  <2>2. CASE \E o \in Workflow : Undefine(o)
    <3>1. PICK o \in Workflow : Undefine(o) BY <2>2
    <3>2. domain' = [domain EXCEPT ![work[o].from][work[o].guest] = NoDomain]
      BY <3>1 DEF Undefine
    <3> QED BY <1>5, <3>2 DEF Defined, TypeOK
  <2>3. CASE /\ ~\E o \in Workflow : RestoreCheck(o) \/ RestoreWrite(o) \/ RestoreDefine(o)
             /\ ~\E o \in Workflow : Undefine(o)
    <3>1. domain' = domain
      BY <2>3 DEF Next, Vdm, Host, User, Begin, Proceed, Complete, GiveUp, Restart, Serve,
         Backup, Validate, Unlink, Break, SwitchOn, SwitchOff, GuestWrite, guests, vars
    <3> QED BY <3>1
  <2> QED BY <2>1, <2>2, <2>3
<1>6. ASSUME NEW o \in Workflow, archive'[o] # NoData, archive'[o] # archive[o]
      PROVE  /\ status[o] # "none" /\ Right(work[o].guest, archive'[o].content[1])
             /\ Local(archive'[o].path, work[o].guest)
             /\ \A d \in DOMAIN archive'[o].path :
                  d # 1 => data[DiskFile(work[o].to, archive'[o].path[d].name, d)] = NoData
  <2> DEFINE w == work[o]
             p == domain[w.from][w.guest]
  <2>1. Backup(o)
    BY <1>6 DEF Next, Vdm, Host, User, Begin, Proceed, Complete, GiveUp, Restart,
       Serve, Backup, RestoreCheck, RestoreWrite, RestoreDefine, Validate, Undefine, Unlink,
       Break, SwitchOn, SwitchOff, GuestWrite, vars, TypeOK
  <2>2. status[o] # "none" /\ Intact(w.from, w.guest) BY <2>1 DEF Backup, Reached
  <2>3. /\ w \in Work /\ w.from \in Node /\ w.guest \in Guest /\ w.to \in Node /\ w.from # w.to
    BY <2>2, WorkFields DEF TypeOK, Prepared
  <2>4. Defined(w.from, w.guest) BY <2>2 DEF Intact
  <2>5. /\ 1 \in DOMAIN p /\ DOMAIN p \subseteq Disk
        /\ Local(p, w.guest) /\ Resolve(w.from, p[1]) = Own(w.from, w.guest)
        /\ \A d \in DOMAIN p : /\ p[d].name \in Guest
                               /\ Resolve(w.from, p[d]) = DiskFile(w.from, p[d].name, d)
    BY <2>3, <2>4, HomeFiles
  <2>6. archive'[o] = [path |-> p, content |-> [d \in DOMAIN p |-> data[Resolve(w.from, p[d])]]]
    BY <2>1 DEF Backup, TypeOK
  <2>7. archive'[o].path = p BY <2>6
  <2>8. archive'[o].content = [d \in DOMAIN p |-> data[Resolve(w.from, p[d])]] BY <2>6
  <2>9. archive'[o].content[1] = data[Own(w.from, w.guest)] BY <2>5, <2>8
  <2>10. \A d \in DOMAIN p : data[Resolve(w.from, p[d])] # NoData BY <2>2 DEF Intact, Files
  <2>11. Right(w.guest, archive'[o].content[1])
    BY <2>3, <2>5, <2>9, <2>10 DEF RightDisks
  <2>12. ASSUME NEW d \in DOMAIN p, d # 1 PROVE data[DiskFile(w.to, p[d].name, d)] = NoData
    <3>1. data[DiskFile(w.from, p[d].name, d)] # NoData BY <2>5, <2>10
    <3>2. d \in Disk /\ p[d].name \in Guest BY <2>5
    <3> QED BY <2>3, <2>12, <3>1, <3>2 DEF OneHome
  <2> QED BY <2>2, <2>5, <2>7, <2>11, <2>12
<1>7. ASSUME NEW o \in Workflow, NEW f \in doomed'[o], f \notin doomed[o]
      PROVE  GoodDoomed(o, f)
  <2> DEFINE w == work[o]
             p == domain[w.from][w.guest]
  <2>1. Undefine(o)
    BY <1>7 DEF Next, Vdm, Host, User, Begin, Proceed, Complete, GiveUp, Restart,
       Serve, Backup, RestoreCheck, RestoreWrite, RestoreDefine, Validate, Undefine, Unlink,
       Break, SwitchOn, SwitchOff, GuestWrite, vars, TypeOK
  <2>2. status[o] # "none" BY <2>1 DEF Undefine, Reached
  <2>3. w \in Work /\ w.from \in Node /\ w.guest \in Guest
    BY <2>2, WorkFields DEF TypeOK, Prepared
  <2>4. Defined(w.from, w.guest) /\ f \in Files(w.from, w.guest)
    BY <1>7, <2>1 DEF Undefine, TypeOK
  <2>5. PICK d \in DOMAIN p : /\ f = DiskFile(w.from, p[d].name, d)
                              /\ d = 1 => f = Own(w.from, w.guest)
    BY <2>3, <2>4, HomeFiles
  <2>6. f.disk = d /\ f.pool = w.from /\ f.name = p[d].name BY <2>5 DEF DiskFile
  <2>7. Behind(w.from, w.guest, p) BY <2>3, <2>4 DEF StayBehind
  <2>8. d # 1 /\ p[d].name # w.guest => data[f] = NoData BY <2>5, <2>7 DEF Behind
  <2> QED BY <2>2, <2>5, <2>6, <2>8 DEF GoodDoomed
<1> HIDE DEF Sound
<1> QED BY <1>1, <1>2, <1>3, <1>4, <1>5, <1>6, <1>7, SoundStep

(* A deletion takes the source's definition, then files of its own.        *)
LEMMA DeleteEffect ==
  ASSUME LocalMoves, Sound, NEW o \in Workflow, Undefine(o) \/ Unlink(o)
  PROVE  LET w == work[o] IN
         /\ w \in Work /\ status[o] # "none" /\ step[o] = "delete"
         /\ \A n \in Node, h \in Guest : ~(n = w.from /\ h = w.guest) =>
              domain'[n][h] = domain[n][h]
         /\ Undefine(o) => /\ data' = data /\ domain'[w.from][w.guest] = NoDomain
                           /\ phase'[o] = "half"
         /\ Unlink(o) => /\ domain' = domain /\ phase[o] = "half" /\ phase'[o] = "ok"
                         /\ \A f \in File : \/ data'[f] = data[f]
                                            \/ f.pool = w.from /\ f.name = w.guest
<1> USE DEF Sound
<1> DEFINE w == work[o]
<1>1. status[o] # "none" /\ step[o] = "delete" BY DEF Undefine, Unlink, Reached
<1>2. w \in Work BY <1>1 DEF TypeOK, Prepared
<1>3. w.from \in Node /\ w.guest \in Guest BY <1>2, WorkFields
<1>4. \A n \in Node, h \in Guest : ~(n = w.from /\ h = w.guest) => domain'[n][h] = domain[n][h]
  BY <1>3 DEF Undefine, Unlink, TypeOK
<1>5. Undefine(o) => /\ data' = data /\ domain'[w.from][w.guest] = NoDomain
                     /\ phase'[o] = "half"
  BY <1>3 DEF Undefine, Answer, TypeOK
<1>6. ASSUME Unlink(o)
      PROVE  /\ domain' = domain /\ phase[o] = "half" /\ phase'[o] = "ok"
             /\ \A f \in File : \/ data'[f] = data[f]
                                \/ f.pool = w.from /\ f.name = w.guest
  <2>1. domain' = domain /\ phase[o] = "half" /\ phase'[o] = "ok"
    BY <1>6 DEF Unlink, Reached, Answer, TypeOK
  <2>2. ASSUME NEW f \in File, data'[f] # data[f] PROVE f.pool = w.from /\ f.name = w.guest
    <3>1. f \in doomed[o] /\ data'[f] = NoData BY <1>6, <2>2 DEF Unlink
    <3>2. GoodDoomed(o, f) BY <3>1 DEF DoomedOwn
    <3> QED BY <2>2, <3>1, <3>2 DEF GoodDoomed, Own, DiskFile
  <2> QED BY <2>1, <2>2
<1> QED BY <1>1, <1>2, <1>4, <1>5, <1>6

(* A node step changes nothing of the guests its workflow does not touch.  *)
LEMMA HostTouches ==
  ASSUME LocalMoves, Sound, NEW o \in Workflow, Host(o)
  PROVE  /\ \A n \in Node, h \in Guest : <<h, n>> \notin Touches(work[o]) =>
              /\ domain'[n][h] = domain[n][h]
              /\ \A d \in Disk : data'[DiskFile(n, h, d)] = data[DiskFile(n, h, d)]
         /\ \A p \in Workflow : p # o => archive'[p] = archive[p]
<1> DEFINE w == work[o]
<1>1. <<w.as, w.to>> \in Touches(w) /\ <<w.guest, w.from>> \in Touches(w)
  BY DEF Touches
<1>2. \A p \in Workflow : p # o => archive'[p] = archive[p]
  BY DEF Host, Serve, Backup, RestoreCheck, RestoreWrite, RestoreDefine, Validate, Undefine,
         Unlink, Break, Sound, TypeOK
<1>3. CASE Serve(o) \/ Backup(o) \/ Validate(o) \/ Break(o)
  BY <1>2, <1>3 DEF Serve, Backup, Validate, Break, guests
<1>4. CASE RestoreCheck(o) \/ RestoreWrite(o) \/ RestoreDefine(o)
  <2>1. /\ \A f \in File : f # Own(w.to, w.as) => data'[f] = data[f]
        /\ \A n \in Node, h \in Guest : ~(n = w.to /\ h = w.as) => domain'[n][h] = domain[n][h]
    BY <1>4, RestoreEffect
  <2>2. ASSUME NEW n \in Node, NEW h \in Guest, <<h, n>> \notin Touches(w), NEW d \in Disk
        PROVE  DiskFile(n, h, d) # Own(w.to, w.as)
    BY <1>1, <2>2, DiskFileInjective DEF Own
  <2>3. \A n \in Node, h \in Guest : <<h, n>> \notin Touches(w) =>
          \A d \in Disk : data'[DiskFile(n, h, d)] = data[DiskFile(n, h, d)]
    BY <2>1, <2>2, DiskFileIsFile
  <2>4. \A n \in Node, h \in Guest : <<h, n>> \notin Touches(w) => domain'[n][h] = domain[n][h]
    BY <1>1, <2>1
  <2> QED BY <1>2, <2>3, <2>4
<1>5. CASE Undefine(o) \/ Unlink(o)
  <2>1. \A n \in Node, h \in Guest : <<h, n>> \notin Touches(w) => domain'[n][h] = domain[n][h]
    BY <1>1, <1>5, DeleteEffect
  <2>2. \A f \in File : data'[f] = data[f] \/ (f.pool = w.from /\ f.name = w.guest)
    BY <1>5, DeleteEffect
  <2>3. ASSUME NEW n \in Node, NEW h \in Guest, <<h, n>> \notin Touches(w), NEW d \in Disk
        PROVE  data'[DiskFile(n, h, d)] = data[DiskFile(n, h, d)]
    <3>1. DiskFile(n, h, d).pool = n /\ DiskFile(n, h, d).name = h BY DEF DiskFile
    <3>2. DiskFile(n, h, d) \in File BY DiskFileIsFile
    <3> QED BY <1>1, <2>2, <2>3, <3>1, <3>2
  <2> QED BY <1>2, <2>1, <2>3
<1> QED BY <1>3, <1>4, <1>5 DEF Host

-----------------------------------------------------------------------------
(* No guest is lost, unless it was rushed.                                 *)

Using(o) == Active(o) \/ (status[o] # "none" /\ Busy(o))

DefinedWhole == \A n \in Node, h \in Guest \ rushed : Defined(n, h) => data[Own(n, h)] # NoData
SomeHome   == \A h \in Guest \ (CopyName \cup rushed) : \E n \in Node : Defined(n, h)

(* Two workflows at once have only rushed guests in common.                *)
DisjointUse == \A o, p \in Workflow : o # p /\ Using(o) /\ Using(p) =>
                 \A k \in Touches(work[o]) \cap Touches(work[p]) : k[1] \in rushed

(* What a workflow in use may count on at each of its requests.            *)
Stage(o) ==
  LET w == work[o] IN
  /\ step[o] = "delete" => w.deleteSource
  /\ w.as \notin rushed =>
       /\ step[o] = "restore" /\ phase[o] = "checked" => ~Defined(w.to, w.as)
       /\ step[o] = "restore" /\ phase[o] = "half" => data[Own(w.to, w.as)] # NoData
       /\ step[o] = "validate" /\ phase[o] = "ok" => Defined(w.to, w.as)
       /\ step[o] = "delete" => Defined(w.to, w.as)
  /\ w.guest \notin rushed =>
       (step[o] = "delete" /\ phase[o] = "half" => ~Defined(w.from, w.guest))
Stages == \A o \in Workflow : Using(o) => Stage(o)

MoveInv == Sound /\ DefinedWhole /\ SomeHome /\ DisjointUse /\ Stages

LEMMA UsingWork ==
  ASSUME Sound, NEW o \in Workflow, Using(o)
  PROVE  status[o] # "none" /\ work[o] \in Work
BY DEF Using, Active, Sound, TypeOK, Prepared

(* The guests a workflow touches are none of another workflow in use,      *)
(* unless they are rushed.                                                 *)
LEMMA Apart ==
  ASSUME DisjointUse, NEW o \in Workflow, NEW p \in Workflow, o # p, Using(o), Using(p)
  PROVE  LET w == work[p] IN
         /\ w.guest \notin rushed => <<w.guest, w.from>> \notin Touches(work[o])
         /\ w.as \notin rushed => <<w.as, w.to>> \notin Touches(work[o])
<1> DEFINE w == work[p]
<1>1. <<w.guest, w.from>> \in Touches(w) /\ <<w.as, w.to>> \in Touches(w) BY DEF Touches
<1>2. \A k \in Touches(work[o]) \cap Touches(w) : k[1] \in rushed BY DEF DisjointUse
<1> QED BY <1>1, <1>2

(* The stage of a workflow depends on the guests it touches only.          *)
LEMMA StageFrame ==
  ASSUME NEW p \in Workflow, Stage(p), work'[p] = work[p],
         step'[p] = step[p], phase'[p] = phase[p], rushed \subseteq rushed',
         LET w == work[p] IN
         /\ w.guest \notin rushed =>
              (Defined(w.from, w.guest)' <=> Defined(w.from, w.guest))
         /\ w.as \notin rushed =>
              /\ Defined(w.to, w.as)' <=> Defined(w.to, w.as)
              /\ data[Own(w.to, w.as)] # NoData => data'[Own(w.to, w.as)] # NoData
  PROVE  Stage(p)'
<1> DEFINE w == work[p]
<1>1. /\ w.guest \notin rushed' => w.guest \notin rushed
      /\ w.as \notin rushed' => w.as \notin rushed
  OBVIOUS
<1>2. Own(w.to, w.as)' = Own(w.to, w.as) BY DEF Own, DiskFile
<1> QED BY <1>1, <1>2 DEF Stage, Own, DiskFile, Defined

LEMMA InitMoveInv == ASSUME LocalMoves PROVE Init => MoveInv
<1> SUFFICES ASSUME Init PROVE MoveInv
  OBVIOUS
<1> USE ConstAssumption, ModelValueAssumption
<1>1. Sound BY InitSound
<1>2. PICK home \in [Guest -> Node], where \in [Guest -> InitialPool], size \in [Guest -> Disk] :
        Placed(home, where, size)
  BY DEF Init
<1>3. \A h \in Guest : FirstPath(h, where, size) \in PerDisk(Path) BY FirstPathFacts
<1>4. \A n \in Node, h \in Guest : Defined(n, h) <=> Exists(n, h, home)
  BY <1>2, <1>3 DEF Placed, Defined
<1>5. ASSUME NEW n \in Node, NEW h \in Guest, Defined(n, h) PROVE data[Own(n, h)] # NoData
  <2>1. Own(n, h) \in File BY OwnIsFile
  <2>2. LET p == domain[n][h] IN Resolve(n, p[1]) = Own(n, h) /\ 1 \in DOMAIN p
    BY <1>1, <1>5, HomeFiles DEF Sound
  <2>3. Own(n, h) \in Files(n, h) BY <2>2 DEF Files
  <2>4. Own(n, h).name = h /\ Own(n, h).disk = 1 BY DEF Own, DiskFile
  <2>5. data[Own(n, h)] = [of |-> h, disk |-> 1, version |-> 0]
    BY <1>2, <1>4, <1>5, <2>1, <2>3, <2>4 DEF Placed
  <2>6. 0 \in 0 .. MaxVersion /\ 1 \in Disk BY DEF Disk
  <2>7. data[Own(n, h)] \in Content BY <2>5, <2>6 DEF Content
  <2> QED BY <2>7
<1>6. SomeHome BY <1>2, <1>4 DEF SomeHome, Exists
<1>7. DisjointUse /\ Stages
  BY DEF Init, DisjointUse, Stages, Using, Active
<1> QED BY <1>1, <1>5, <1>6, <1>7 DEF MoveInv, DefinedWhole

(* The VDM's own steps change no guest; whom they rush is remembered.      *)
LEMMA BeginMoveInv ==
  ASSUME LocalMoves, MoveInv, Sound', NEW o \in Workflow, NEW w \in Work, Begin(o, w)
  PROVE  MoveInv'
<1> USE ConstAssumption, ModelValueAssumption DEF MoveInv
<1>1. UNCHANGED <<domain, running, data, archive, doomed>> BY DEF Begin, guests
<1>2. rushed \subseteq rushed' BY DEF Begin
<1>3. DefinedWhole' /\ SomeHome'
  BY <1>1, <1>2 DEF DefinedWhole, SomeHome, Defined, Own, DiskFile
<1>4. /\ status[o] = "none" /\ work'[o] = w /\ step'[o] = "prepare" /\ phase'[o] = "sent"
      /\ \A p \in Workflow : p # o => /\ work'[p] = work[p] /\ status'[p] = status[p]
                                     /\ step'[p] = step[p] /\ phase'[p] = phase[p]
  BY DEF Begin, Sound, TypeOK
<1>5. \A p \in Workflow : p # o => (Using(p)' <=> Using(p))
  BY <1>4 DEF Using, Active, Busy
<1>6. ASSUME NEW p \in Workflow, p # o, Using(p), NEW k \in Touches(w) \cap Touches(work[p])
      PROVE  k[1] \in rushed'
  <2>1. InUse(k) BY <1>6 DEF InUse, Using
  <2> QED BY <1>6, <2>1 DEF Begin
<1>7. ASSUME NEW p \in Workflow, NEW q \in Workflow, p # q, Using(p)', Using(q)',
             NEW k \in Touches(work[p])' \cap Touches(work[q])'
      PROVE  k[1] \in rushed'
  <2>1. /\ p # o => Using(p) /\ Touches(work[p])' = Touches(work[p])
        /\ q # o => Using(q) /\ Touches(work[q])' = Touches(work[q])
    BY <1>4, <1>5, <1>7 DEF Touches
  <2>2. /\ p = o => Touches(work[p])' = Touches(w)
        /\ q = o => Touches(work[q])' = Touches(w)
    BY <1>4 DEF Touches
  <2>3. CASE p = o \/ q = o BY <1>6, <1>7, <2>1, <2>2, <2>3
  <2>4. CASE p # o /\ q # o BY <1>2, <1>7, <2>1, <2>4 DEF DisjointUse
  <2> QED BY <2>3, <2>4
<1>8. DisjointUse' BY <1>7 DEF DisjointUse
<1>9. ASSUME NEW p \in Workflow, Using(p)' PROVE Stage(p)'
  <2>1. CASE p = o BY <1>4, <2>1 DEF Stage
  <2>2. CASE p # o
    <3>1. Stage(p) BY <1>5, <1>9, <2>2 DEF Stages
    <3> QED BY <1>1, <1>2, <1>4, <2>2, <3>1, StageFrame DEF Defined
  <2> QED BY <2>1, <2>2
<1>10. Stages' BY <1>9 DEF Stages
<1> QED BY <1>3, <1>8, <1>10

LEMMA VdmMoveInv ==
  ASSUME LocalMoves, MoveInv, Sound', NEW o \in Workflow,
         Proceed(o) \/ Complete(o) \/ GiveUp(o) \/ Restart
  PROVE  MoveInv'
<1> USE ConstAssumption, ModelValueAssumption DEF MoveInv
<1>1. UNCHANGED <<domain, running, data, work, archive, doomed, rushed>>
  BY DEF Proceed, Complete, GiveUp, Restart, guests
<1>2. DefinedWhole' /\ SomeHome'
  BY <1>1 DEF DefinedWhole, SomeHome, Defined, Own, DiskFile
<1>3. \A p \in Workflow : Using(p)' => Using(p)
  BY DEF Proceed, Complete, GiveUp, Restart, Using, Active, Busy, Sound, TypeOK
<1>4. DisjointUse' BY <1>1, <1>3 DEF DisjointUse, Touches
<1>5. ASSUME NEW p \in Workflow, Using(p)' PROVE Stage(p)'
  <2>1. Stage(p) BY <1>3, <1>5 DEF Stages
  <2>2. CASE Proceed(p)
    <3>1. step[p] \in Step BY DEF Sound, TypeOK
    <3>2. step'[p] = Following(step[p]) /\ phase'[p] = "sent" /\ phase[p] = "ok"
      BY <2>2 DEF Proceed, Sound, TypeOK
    <3>3. step'[p] = "delete" =>
            step[p] = "delete" \/ (step[p] = "validate" /\ work[p].deleteSource)
      BY <2>2, <3>1, <3>2, FollowingFacts DEF Proceed, LastStep
    <3> QED BY <1>1, <2>1, <3>2, <3>3 DEF Stage, Defined
  <2>3. CASE ~Proceed(p)
    <3>1. step'[p] = step[p] /\ phase'[p] = phase[p]
      BY <2>3 DEF Proceed, Complete, GiveUp, Restart, Sound, TypeOK
    <3> QED BY <1>1, <2>1, <3>1, StageFrame DEF Defined
  <2> QED BY <2>2, <2>3
<1>6. Stages' BY <1>5 DEF Stages
<1> QED BY <1>2, <1>4, <1>6

(* What every node step keeps, however it changes the guests it touches.   *)
LEMMA HostFrame ==
  ASSUME MoveInv, NEW o \in Workflow, Host(o)
  PROVE  /\ DisjointUse' /\ Using(o) /\ work[o] \in Work
         /\ UNCHANGED <<work, status, step, rushed>>
         /\ \A p \in Workflow : /\ Using(p)' => Using(p)
                                /\ p # o => phase'[p] = phase[p]
<1> USE DEF MoveInv
<1>2. UNCHANGED <<work, status, step, rushed>>
  BY DEF Host, Serve, Backup, RestoreCheck, RestoreWrite, RestoreDefine, Validate, Undefine,
         Unlink, Break
<1>3. status[o] # "none" /\ Busy(o)
  BY DEF Host, Serve, Backup, RestoreCheck, RestoreWrite, RestoreDefine, Validate, Undefine,
         Unlink, Break, Reached, Busy
<1>4. \A p \in Workflow : p # o => phase'[p] = phase[p]
  BY DEF Host, Serve, Backup, RestoreCheck, RestoreWrite, RestoreDefine, Validate, Undefine,
         Unlink, Break, Answer, Sound, TypeOK
<1>5. \A p \in Workflow : Using(p)' => Using(p)
  BY <1>2, <1>3, <1>4 DEF Using, Active, Busy
<1>6. DisjointUse' BY <1>2, <1>5 DEF DisjointUse, Touches
<1>7. Using(o) BY <1>3 DEF Using
<1>8. work[o] \in Work BY <1>7, UsingWork
<1> QED BY <1>2, <1>4, <1>5, <1>6, <1>7, <1>8

(* A node step keeps the invariant if it keeps its own stage and what the  *)
(* invariant says of the guests.                                           *)
LEMMA HostMoveInv ==
  ASSUME LocalMoves, MoveInv, Sound', NEW o \in Workflow, Host(o),
         DefinedWhole', SomeHome', Using(o)' => Stage(o)'
  PROVE  MoveInv'
<1> USE DEF MoveInv
<1>1. ASSUME NEW p \in Workflow, Using(p)' PROVE Stage(p)'
  <2>1. CASE p = o BY <1>1, <2>1
  <2>2. CASE p # o
    <3> DEFINE w == work[p]
    <3>1. Using(o) /\ Using(p) /\ UNCHANGED <<work, status, step, rushed>> /\ phase'[p] = phase[p]
      BY <1>1, <2>2, HostFrame
    <3>2. Stage(p) BY <3>1 DEF Stages
    <3>3. w.guest \in Guest /\ w.as \in Guest /\ w.from \in Node /\ w.to \in Node
      BY <3>1, UsingWork, WorkFields
    <3>4. /\ w.guest \notin rushed => <<w.guest, w.from>> \notin Touches(work[o])
          /\ w.as \notin rushed => <<w.as, w.to>> \notin Touches(work[o])
      BY <2>2, <3>1, Apart
    <3>5. \A n \in Node, h \in Guest : <<h, n>> \notin Touches(work[o]) =>
            /\ domain'[n][h] = domain[n][h]
            /\ \A d \in Disk : data'[DiskFile(n, h, d)] = data[DiskFile(n, h, d)]
      BY HostTouches
    <3>6. 1 \in Disk BY ConstAssumption DEF Disk
    <3>7. /\ w.guest \notin rushed => (Defined(w.from, w.guest)' <=> Defined(w.from, w.guest))
          /\ w.as \notin rushed =>
               /\ Defined(w.to, w.as)' <=> Defined(w.to, w.as)
               /\ data'[Own(w.to, w.as)] = data[Own(w.to, w.as)]
      <4>1. w.guest \notin rushed => domain'[w.from][w.guest] = domain[w.from][w.guest]
        BY <3>3, <3>4, <3>5
      <4>2. w.as \notin rushed => /\ domain'[w.to][w.as] = domain[w.to][w.as]
                                  /\ data'[Own(w.to, w.as)] = data[Own(w.to, w.as)]
        BY <3>3, <3>4, <3>5, <3>6 DEF Own
      <4>3. work' = work BY <3>1
      <4> QED BY <4>1, <4>2, <4>3 DEF Defined
    <3> QED BY <3>1, <3>2, <3>7, StageFrame
  <2> QED BY <2>1, <2>2
<1>2. Stages' BY <1>1 DEF Stages
<1> QED BY <1>2, HostFrame

(* Node steps that leave the guests alone.                                 *)
LEMMA QuietHostMoveInv ==
  ASSUME LocalMoves, MoveInv, Sound', NEW o \in Workflow,
         Serve(o) \/ Backup(o) \/ Validate(o) \/ Break(o)
  PROVE  MoveInv'
<1>1. Host(o) BY DEF Host
<1>2. UNCHANGED <<domain, running, data>>
  BY DEF Serve, Backup, Validate, Break, guests
<1>3. Using(o) /\ UNCHANGED <<work, status, step, rushed>> BY <1>1, HostFrame
<1>4. DefinedWhole' /\ SomeHome'
  BY <1>2, <1>3 DEF MoveInv, DefinedWhole, SomeHome, Defined, Own, DiskFile
<1>5. Stage(o) /\ phase'[o] \in {"ok", "error"}
  BY <1>3 DEF MoveInv, Stages, Serve, Backup, Validate, Break, Answer, Sound, TypeOK
<1>6. step[o] = "validate" /\ phase'[o] = "ok" => Defined(work[o].to, work[o].as)
  BY DEF Serve, Backup, Validate, Break, Answer, Reached, MoveInv, Sound, TypeOK
<1>7. Stage(o)' BY <1>2, <1>3, <1>5, <1>6 DEF Stage, Defined
<1> QED BY <1>1, <1>4, <1>7, HostMoveInv

(* A restore of a guest nobody rushed meets no guest of that name.         *)
LEMMA RestoreMoveInv ==
  ASSUME LocalMoves, MoveInv, Sound', NEW o \in Workflow,
         RestoreCheck(o) \/ RestoreWrite(o) \/ RestoreDefine(o)
  PROVE  MoveInv'
<1> DEFINE w == work[o]
           there == Own(w.to, w.as)
<1>1. Host(o) BY DEF Host
<1>2. w \in Work /\ Using(o) /\ UNCHANGED <<work, status, step, rushed>>
  BY <1>1, HostFrame
<1>3. w.to \in Node /\ w.as \in Guest BY <1>2, WorkFields
<1>4. Sound /\ Stage(o) BY <1>2 DEF MoveInv, Stages
<1>5. /\ step[o] = "restore"
      /\ archive[o].content[1] # NoData
      /\ \A f \in File : f # there => data'[f] = data[f]
      /\ \A n \in Node, h \in Guest : ~(n = w.to /\ h = w.as) => domain'[n][h] = domain[n][h]
      /\ domain'[w.to][w.as] # domain[w.to][w.as] => domain'[w.to][w.as] # NoDomain
  BY <1>4, RestoreEffect, ModelValueAssumption
<1>6. ASSUME w.as \notin rushed
      PROVE  /\ phase'[o] = "checked" => domain'[w.to][w.as] = NoDomain
             /\ phase'[o] = "half" \/ domain'[w.to][w.as] # NoDomain => data'[there] # NoData
  <2>1. CASE RestoreCheck(o)
    <3>1. ~Defined(w.to, w.as) /\ domain' = domain /\ phase'[o] = "checked"
      BY <1>4, <2>1, RestoreEffect
    <3> QED BY <3>1 DEF Defined
  <2>2. CASE RestoreWrite(o)
    <3>1. /\ phase[o] = "checked" /\ phase'[o] = "half"
          /\ ~Defined(w.to, w.as) => data'[there] = archive[o].content[1]
      BY <1>4, <2>2, RestoreEffect
    <3> QED BY <1>4, <1>5, <1>6, <3>1 DEF Stage
  <2>3. CASE RestoreDefine(o)
    <3>1. phase[o] = "half" /\ phase'[o] = "ok" /\ data' = data
      BY <1>4, <2>3, RestoreEffect
    <3> QED BY <1>4, <1>5, <1>6, <3>1 DEF Stage
  <2> QED BY <2>1, <2>2, <2>3
<1>7. ASSUME NEW n \in Node, NEW h \in Guest \ rushed, domain'[n][h] # NoDomain
      PROVE  data'[Own(n, h)] # NoData
  <2>1. CASE n = w.to /\ h = w.as BY <1>6, <1>7, <2>1
  <2>2. CASE ~(n = w.to /\ h = w.as)
    <3>1. data[Own(n, h)] # NoData
      BY <1>5, <1>7, <2>2 DEF MoveInv, DefinedWhole, Defined
    <3>2. Own(n, h) # there BY <2>2, DiskFileInjective DEF Own
    <3> QED BY <1>5, <3>1, <3>2, OwnIsFile
  <2> QED BY <2>1, <2>2
<1>8. DefinedWhole' BY <1>2, <1>7 DEF DefinedWhole, Defined, Own, DiskFile
<1>9. \A n \in Node, h \in Guest : Defined(n, h) => Defined(n, h)'
  BY <1>5 DEF Defined
<1>10. SomeHome' BY <1>2, <1>9 DEF MoveInv, SomeHome
<1>11. Stage(o)'
  <2>1. work'[o] = w /\ step'[o] = "restore" /\ rushed' = rushed BY <1>2, <1>5
  <2> QED BY <1>6, <2>1 DEF Stage, Defined, Own, DiskFile
<1> QED BY <1>1, <1>8, <1>10, <1>11, HostMoveInv

(* A source is undefined only while the target is there.                   *)
LEMMA UndefineMoveInv ==
  ASSUME LocalMoves, MoveInv, Sound', NEW o \in Workflow, Undefine(o)
  PROVE  MoveInv'
<1> DEFINE w == work[o]
<1>1. Host(o) BY DEF Host
<1>2. w \in Work /\ Using(o) /\ UNCHANGED <<work, status, step, rushed>>
  BY <1>1, HostFrame
<1>3. /\ w.from \in Node /\ w.guest \in Guest /\ w.to \in Node /\ w.as \in Guest
      /\ w.from # w.to /\ (w.deleteSource => w.as = w.guest)
  BY <1>2, WorkFields
<1>4. Sound /\ Stage(o) BY <1>2 DEF MoveInv, Stages
<1>5. /\ step[o] = "delete" /\ data' = data /\ domain'[w.from][w.guest] = NoDomain
      /\ phase'[o] = "half"
      /\ \A n \in Node, h \in Guest : ~(n = w.from /\ h = w.guest) =>
           domain'[n][h] = domain[n][h]
  BY <1>4, DeleteEffect
<1>6. \A n \in Node, h \in Guest :
        domain'[n][h] # NoDomain => domain'[n][h] = domain[n][h]
  BY <1>5
<1>7. DefinedWhole'
  BY <1>2, <1>5, <1>6 DEF MoveInv, DefinedWhole, Defined, Own, DiskFile
<1>8. w.deleteSource /\ (w.as \notin rushed => Defined(w.to, w.as))
  BY <1>4, <1>5 DEF Stage
<1>9. ASSUME NEW h \in Guest \ (CopyName \cup rushed)
      PROVE  \E n \in Node : domain'[n][h] # NoDomain
  <2>1. CASE h = w.guest BY <1>3, <1>5, <1>8, <1>9, <2>1 DEF Defined
  <2>2. CASE h # w.guest
    <3>1. PICK n \in Node : Defined(n, h) BY <1>9 DEF MoveInv, SomeHome
    <3> QED BY <1>5, <2>2, <3>1 DEF Defined
  <2> QED BY <2>1, <2>2
<1>10. SomeHome' BY <1>2, <1>9 DEF SomeHome, Defined
<1>11. Stage(o)'
  <2>1. work'[o] = w /\ step'[o] = "delete" /\ rushed' = rushed BY <1>2, <1>5
  <2>2. domain'[w.to][w.as] = domain[w.to][w.as] BY <1>3, <1>5
  <2> QED BY <1>5, <1>8, <2>1, <2>2 DEF Stage, Defined
<1> QED BY <1>1, <1>7, <1>10, <1>11, HostMoveInv

(* Disk files are unlinked only of a guest that is not defined.            *)
LEMMA UnlinkMoveInv ==
  ASSUME LocalMoves, MoveInv, Sound', NEW o \in Workflow, Unlink(o)
  PROVE  MoveInv'
<1> DEFINE w == work[o]
<1>1. Host(o) BY DEF Host
<1>2. w \in Work /\ Using(o) /\ UNCHANGED <<work, status, step, rushed>>
  BY <1>1, HostFrame
<1>3. Sound /\ Stage(o) BY <1>2 DEF MoveInv, Stages
<1>4. /\ step[o] = "delete" /\ domain' = domain /\ phase[o] = "half" /\ phase'[o] = "ok"
      /\ \A f \in File : data'[f] = data[f] \/ (f.pool = w.from /\ f.name = w.guest)
  BY <1>3, DeleteEffect
<1>5. ASSUME NEW n \in Node, NEW h \in Guest \ rushed, domain[n][h] # NoDomain
      PROVE  data'[Own(n, h)] # NoData
  <2>1. data[Own(n, h)] # NoData BY <1>5 DEF MoveInv, DefinedWhole, Defined
  <2>2. ~(n = w.from /\ h = w.guest) BY <1>3, <1>4, <1>5 DEF Stage, Defined
  <2>3. Own(n, h).pool = n /\ Own(n, h).name = h BY DEF Own, DiskFile
  <2> QED BY <1>4, <2>1, <2>2, <2>3, OwnIsFile
<1>6. DefinedWhole' BY <1>2, <1>4, <1>5 DEF DefinedWhole, Defined, Own, DiskFile
<1>7. SomeHome' BY <1>2, <1>4 DEF MoveInv, SomeHome, Defined
<1>8. Stage(o)'
  <2>1. work'[o] = w /\ step'[o] = "delete" /\ rushed' = rushed BY <1>2, <1>4
  <2> QED BY <1>3, <1>4, <2>1 DEF Stage, Defined
<1> QED BY <1>1, <1>6, <1>7, <1>8, HostMoveInv

LEMMA UserMoveInv ==
  ASSUME LocalMoves, MoveInv, Sound', NEW n \in Node, NEW g \in Guest, User(n, g)
  PROVE  MoveInv'
<1>1. UNCHANGED <<domain, work, status, step, phase, rushed>>
  BY DEF User, SwitchOn, SwitchOff, GuestWrite, flow
<1>2. \A f \in File : data[f] # NoData => data'[f] # NoData
  BY UserKeepsDisks DEF MoveInv, Sound
<1>3. \A m \in Node, h \in Guest : data[Own(m, h)] # NoData => data'[Own(m, h)] # NoData
  BY <1>2, OwnIsFile
<1>4. DefinedWhole' /\ SomeHome' /\ DisjointUse'
  BY <1>1, <1>3 DEF MoveInv, DefinedWhole, SomeHome, DisjointUse, Defined, Own, DiskFile,
     Using, Active, Busy, Touches
<1>5. ASSUME NEW p \in Workflow, Using(p)' PROVE Stage(p)'
  <2>1. Using(p) BY <1>1, <1>5 DEF Using, Active, Busy
  <2>2. Stage(p) BY <2>1 DEF MoveInv, Stages
  <2>3. work[p].to \in Node /\ work[p].as \in Guest
    BY <2>1, UsingWork, WorkFields DEF MoveInv
  <2> QED BY <1>1, <1>3, <2>2, <2>3, StageFrame DEF Defined
<1>6. Stages' BY <1>5 DEF Stages
<1> QED BY <1>4, <1>6 DEF MoveInv

LEMMA NextMoveInv == ASSUME LocalMoves PROVE MoveInv /\ [Next]_vars => MoveInv'
<1> SUFFICES ASSUME MoveInv, [Next]_vars PROVE MoveInv'
  OBVIOUS
<1>1. Sound' BY NextSound DEF MoveInv
<1>2. ASSUME NEW o \in Workflow, Vdm(o) PROVE MoveInv'
  BY <1>1, <1>2, BeginMoveInv, VdmMoveInv DEF Vdm
<1>3. ASSUME NEW o \in Workflow, Host(o) PROVE MoveInv'
  BY <1>1, <1>3, QuietHostMoveInv, RestoreMoveInv, UndefineMoveInv, UnlinkMoveInv DEF Host
<1>4. CASE Restart
  <2>1. PICK o \in Workflow : Active(o) BY <1>4 DEF Restart
  <2> QED BY <1>1, <1>4, VdmMoveInv
<1>5. ASSUME NEW n \in Node, NEW g \in Guest, User(n, g) PROVE MoveInv'
  BY <1>1, <1>5, UserMoveInv
<1>6. CASE UNCHANGED vars
  BY <1>1, <1>6 DEF vars, MoveInv, DefinedWhole, SomeHome, DisjointUse, Stages, Stage, Using,
     Active, Busy, Defined, Own, DiskFile, Touches
<1> QED BY <1>2, <1>3, <1>4, <1>5, <1>6 DEF Next

-----------------------------------------------------------------------------
(* What the places of a guest hold.                                        *)

LEMMA HoldsIs ==
  ASSUME Sound, NEW n \in Node, NEW h \in Guest, NEW g \in Guest
  PROVE  Holds(n, h, g) <=>
           Defined(n, h) /\ data[Own(n, h)] # NoData /\ data[Own(n, h)].of = g
<1>1. CASE Defined(n, h)
  <2>1. Resolve(n, domain[n][h][1]) = Own(n, h) BY <1>1, HomeFiles DEF Sound
  <2>2. data[Own(n, h)] # NoData => data[Own(n, h)].disk = 1 BY DEF Sound, RightDisks, Right
  <2> QED BY <1>1, <2>1, <2>2 DEF Holds
<1> QED BY <1>1 DEF Holds

(* The same of the next state.                                             *)
LEMMA HoldsIsNext ==
  ASSUME Sound', NEW n \in Node, NEW h \in Guest, NEW g \in Guest
  PROVE  Holds(n, h, g)' <=>
           Defined(n, h)' /\ data'[Own(n, h)] # NoData /\ data'[Own(n, h)].of = g
<1>1. CASE Defined(n, h)'
  <2>1. Local(domain[n][h], h)' BY <1>1 DEF Sound, HomePaths
  <2>2. domain'[n][h][1] = [pool |-> "local", name |-> h, disk |-> 1] BY <2>1 DEF Local
  <2>3. Resolve(n, domain'[n][h][1]) = Own(n, h) BY <2>2 DEF Resolve, Own, DiskFile
  <2>4. data'[Own(n, h)] # NoData => data'[Own(n, h)].disk = 1
    BY DEF Sound, RightDisks, Right, Own, DiskFile
  <2> QED BY <1>1, <2>3, <2>4 DEF Holds, Resolve
<1> QED BY <1>1 DEF Holds, Defined

LEMMA InvMeansSurvival ==
  ASSUME LocalMoves, MoveInv PROVE GuestSurvives
<1> SUFFICES ASSUME NEW g \in Guest \ (CopyName \cup rushed) PROVE CopiesOf(g) # {}
  BY DEF GuestSurvives
<1>1. PICK n \in Node : Defined(n, g) BY DEF MoveInv, SomeHome
<1>2. data[Own(n, g)] # NoData BY <1>1 DEF MoveInv, DefinedWhole
<1>3. data[Own(n, g)].of = g BY <1>2 DEF MoveInv, Sound, RightDisks, Right
<1>4. Holds(n, g, g) BY <1>1, <1>2, <1>3, HoldsIs DEF MoveInv
<1>5. <<n, g>> \in CopiesOf(g) BY <1>4 DEF CopiesOf
<1> QED BY <1>5

(* Whoever's requests fail, time out or are cut off by a restart of the    *)
(* VDM, every guest keeps a node that has its primary disk, however many   *)
(* disks it has, unless new work on it was accepted while a node was still *)
(* busy with it: for VMs on local pools and containers on any, for any     *)
(* number of nodes, guests and workflows.                                  *)
THEOREM NoGuestIsLost ==
  ASSUME LocalMoves PROVE Spec => []GuestSurvives
<1>1. Init => MoveInv BY InitMoveInv
<1>2. MoveInv /\ [Next]_vars => MoveInv' BY NextMoveInv
<1>3. MoveInv => GuestSurvives BY InvMeansSurvival
<1> QED BY <1>1, <1>2, <1>3, PTL DEF Spec

-----------------------------------------------------------------------------
(* No disk is set back.                                                    *)

(* Which disks of a guest nobody rushed a step may change: those of a      *)
(* guest that is not defined, and those a running guest writes to.         *)
LEMMA StepKeepsDisks ==
  ASSUME LocalMoves, MoveInv, [Next]_vars, NEW n \in Node, NEW g \in Guest \ rushed,
         Defined(n, g), NEW d \in Disk, data[DiskFile(n, g, d)] # NoData
  PROVE  \/ data'[DiskFile(n, g, d)] = data[DiskFile(n, g, d)]
         \/ \E m \in Node, h \in Guest : User(m, h)
<1> DEFINE f == DiskFile(n, g, d)
<1>1. f \in File /\ f.pool = n /\ f.name = g BY DiskFileIsFile DEF DiskFile
<1>2. Sound BY DEF MoveInv
<1>3. ASSUME NEW o \in Workflow, RestoreCheck(o) \/ RestoreWrite(o) \/ RestoreDefine(o)
      PROVE  data'[f] = data[f]
  <2> DEFINE w == work[o]
  <2>1. Using(o) /\ step[o] = "restore"
    BY <1>3 DEF RestoreCheck, RestoreWrite, RestoreDefine, Reached, Using, Busy
  <2>2. Stage(o) BY <2>1 DEF MoveInv, Stages
  <2>3. CASE f # Own(w.to, w.as) BY <1>1, <1>2, <1>3, <2>3, RestoreEffect
  <2>4. CASE f = Own(w.to, w.as)
    <3>1. n = w.to /\ g = w.as BY <2>4, DiskFileInjective DEF Own
    <3>2. ~RestoreCheck(o) BY <1>2, <3>1, RestoreEffect
    <3>3. ~RestoreWrite(o)
      <4>1. RestoreWrite(o) => phase[o] = "checked" BY DEF RestoreWrite, Reached
      <4> QED BY <2>1, <2>2, <3>1, <4>1 DEF Stage
    <3>4. RestoreDefine(o) => data' = data BY DEF RestoreDefine
    <3> QED BY <1>3, <3>2, <3>3, <3>4
  <2> QED BY <2>3, <2>4
<1>4. ASSUME NEW o \in Workflow, Unlink(o) PROVE data'[f] = data[f]
  <2> DEFINE w == work[o]
  <2>1. Using(o) /\ step[o] = "delete" /\ phase[o] = "half"
    BY <1>4 DEF Unlink, Reached, Using, Busy
  <2>2. Stage(o) BY <2>1 DEF MoveInv, Stages
  <2>3. ~(n = w.from /\ g = w.guest) BY <2>1, <2>2 DEF Stage
  <2>4. data'[f] = data[f] \/ (f.pool = w.from /\ f.name = w.guest)
    BY <1>1, <1>2, <1>4, DeleteEffect
  <2> QED BY <1>1, <2>3, <2>4
<1>5. CASE \E o \in Workflow : RestoreCheck(o) \/ RestoreWrite(o) \/ RestoreDefine(o)
  BY <1>3, <1>5
<1>6. CASE ~\E o \in Workflow : RestoreCheck(o) \/ RestoreWrite(o) \/ RestoreDefine(o)
  BY <1>1, <1>2, <1>4, <1>6, DataStep
<1> QED BY <1>5, <1>6

(* Where the disks of a defined guest are that hold anything.              *)
LEMMA DisksAreUnderItsName ==
  ASSUME Sound, NEW n \in Node, NEW g \in Guest, Defined(n, g),
         NEW f \in Files(n, g), data[f] # NoData
  PROVE  \E d \in Disk : f = DiskFile(n, g, d)
<1> DEFINE p == domain[n][g]
<1>1. PICK d \in DOMAIN p : f = DiskFile(n, p[d].name, d) /\ (d = 1 => f = Own(n, g))
  BY HomeFiles DEF Sound
<1>2. d \in Disk BY HomeFiles DEF Sound
<1>3. Behind(n, g, p) BY DEF Sound, StayBehind
<1>4. CASE d = 1 BY <1>1, <1>2, <1>4 DEF Own
<1>5. CASE d # 1
  <2>1. p[d].name = g BY <1>1, <1>3, <1>5 DEF Behind
  <2> QED BY <1>1, <1>2, <2>1
<1> QED BY <1>4, <1>5

(* A guest that stays defined keeps all its disks and what it wrote,       *)
(* whatever workflows restore, transfer or delete meanwhile, also a        *)
(* workflow of the guest itself; unless it got new work while a node was   *)
(* still busy with it.                                                     *)
THEOREM NoDiskIsSetBack ==
  ASSUME LocalMoves PROVE Spec => DisksNeverGoBack
<1>1. Init => MoveInv BY InitMoveInv
<1>2. MoveInv /\ [Next]_vars => MoveInv' BY NextMoveInv
<1>3. MoveInv /\ [Next]_vars =>
        [\A n \in Node, g \in Guest \ rushed :
           Defined(n, g) /\ domain'[n][g] = domain[n][g] =>
             \A f \in Files(n, g) :
               data[f] # NoData => /\ data'[f] # NoData
                                   /\ data'[f].of = data[f].of
                                   /\ data'[f].version >= data[f].version]_vars
  <2> SUFFICES ASSUME MoveInv, [Next]_vars, NEW n \in Node, NEW g \in Guest \ rushed,
                      Defined(n, g), domain'[n][g] = domain[n][g],
                      NEW f \in Files(n, g), data[f] # NoData
               PROVE  /\ data'[f] # NoData /\ data'[f].of = data[f].of
                      /\ data'[f].version >= data[f].version
    OBVIOUS
  <2>1. Sound /\ TypeOK /\ TypeOK' BY NextMoveInv DEF MoveInv, Sound
  <2>2. PICK d \in Disk : f = DiskFile(n, g, d) BY <2>1, DisksAreUnderItsName
  <2>3. f \in File BY <2>2, DiskFileIsFile
  <2>4. data[f].version \in Int
    BY <2>1, <2>3, ConstAssumption DEF TypeOK, Content
  <2>5. CASE data'[f] = data[f] BY <2>4, <2>5
  <2>6. CASE \E m \in Node, h \in Guest : User(m, h)
    BY <2>1, <2>3, <2>6, UserKeepsDisks
  <2> QED BY <2>2, <2>5, <2>6, StepKeepsDisks
<1> QED BY <1>1, <1>2, <1>3, PTL DEF Spec, DisksNeverGoBack

-----------------------------------------------------------------------------
(* A completed workflow has carried the guest over.                        *)

(* The file of h on n holds what the archive of o does, or something newer.*)
AtLeast(o, n, h) ==
  LET kept  == archive[o].content[1]
      found == data[Own(n, h)]
  IN found # NoData /\ found.of = kept.of /\ found.disk = kept.disk
     /\ found.version >= kept.version

Restored(o) == \/ step[o] = "restore" /\ phase[o] \in {"half", "ok"}
               \/ step[o] \in {"validate", "delete"}

(* What a workflow in use has done so far, to guests nobody rushed.        *)
Carried(o) ==
  LET w == work[o] IN
  /\ w.guest \notin rushed =>
       /\ HasBackup(o) /\ step[o] # "delete" => Intact(w.from, w.guest)
       /\ step[o] = "delete" /\ phase[o] \in {"half", "ok"} => ~Defined(w.from, w.guest)
  /\ w.as \notin rushed =>
       /\ Restored(o) => AtLeast(o, w.to, w.as)
       /\ Restored(o) /\ ~(step[o] = "restore" /\ phase[o] = "half") => Defined(w.to, w.as)

CarryInv == MoveInv /\ \A o \in Workflow : Using(o) => Carried(o)

(* Nothing of the first disk was lost or set back between two states.      *)
Kept(n, h) ==
  LET f == Own(n, h) IN
  data[f] # NoData => /\ data'[f] # NoData /\ data'[f].of = data[f].of
                      /\ data'[f].disk = data[f].disk
                      /\ data'[f].version >= data[f].version

LEMMA ArchivedDisk ==
  ASSUME Sound, NEW o \in Workflow, Using(o), HasBackup(o)
  PROVE  archive[o] # NoData /\ archive[o].content[1] \in Content
<1>1. archive[o] # NoData /\ archive[o] \in Archive
  BY UsingWork DEF Sound, TypeOK, Prepared
<1>2. archive[o].content \in PerDisk(Content) BY <1>1 DEF Archive
<1> QED BY <1>1, <1>2, PerDiskFacts

LEMMA RestoredHasBackup ==
  ASSUME NEW o \in Workflow, Restored(o) PROVE HasBackup(o)
BY DEF Restored, HasBackup

LEMMA KeptIfSame ==
  ASSUME Sound, NEW n \in Node, NEW h \in Guest, data'[Own(n, h)] = data[Own(n, h)]
  PROVE  Kept(n, h)
<1>1. data[Own(n, h)] # NoData => data[Own(n, h)] \in Content
  BY OwnIsFile DEF Sound, TypeOK
<1>2. data[Own(n, h)] # NoData => data[Own(n, h)].version \in Int
  BY <1>1, ConstAssumption DEF Content
<1> QED BY <1>2 DEF Kept

LEMMA IntactStays ==
  ASSUME Sound, NEW n \in Node, NEW g \in Guest, Intact(n, g), domain'[n][g] = domain[n][g],
         \A d \in Disk : data[DiskFile(n, g, d)] # NoData => data'[DiskFile(n, g, d)] # NoData
  PROVE  Intact(n, g)'
<1>1. Defined(n, g) BY DEF Intact
<1>2. ASSUME NEW f \in Files(n, g) PROVE data'[f] # NoData
  <2>1. data[f] # NoData BY DEF Intact
  <2>2. PICK d \in Disk : f = DiskFile(n, g, d) BY <1>1, <2>1, DisksAreUnderItsName
  <2> QED BY <2>1, <2>2
<1>3. Files(n, g)' = Files(n, g) BY DEF Files, Resolve
<1> QED BY <1>1, <1>2, <1>3 DEF Intact, Defined

(* What a workflow has done stays done while nobody else removes its       *)
(* guest or sets its disk back.                                            *)
LEMMA CarriedStays ==
  ASSUME Sound, Sound', NEW o \in Workflow, Using(o), Carried(o),
         work'[o] = work[o], step'[o] = step[o], phase'[o] = phase[o],
         archive'[o] = archive[o], rushed \subseteq rushed',
         work[o].guest \notin rushed =>
           LET n == work[o].from
               g == work[o].guest
           IN /\ domain'[n][g] = domain[n][g]
              /\ \A d \in Disk :
                   data[DiskFile(n, g, d)] # NoData => data'[DiskFile(n, g, d)] # NoData,
         work[o].as \notin rushed =>
           /\ domain'[work[o].to][work[o].as] = domain[work[o].to][work[o].as]
           /\ Kept(work[o].to, work[o].as)
  PROVE  Carried(o)'
<1> DEFINE w == work[o]
           f == Own(w.to, w.as)
<1>1. Restored(o)' <=> Restored(o) BY DEF Restored
<1>2. HasBackup(o)' <=> HasBackup(o) BY DEF HasBackup
<1>3. w \in Work /\ w.to \in Node /\ w.as \in Guest /\ w.from \in Node /\ w.guest \in Guest
  BY UsingWork, WorkFields
<1>4. ASSUME Restored(o), w.as \notin rushed PROVE AtLeast(o, w.to, w.as)'
  <2>1. f \in File BY <1>3, OwnIsFile
  <2>2. AtLeast(o, w.to, w.as) BY <1>4 DEF Carried
  <2>3. data[f] # NoData BY <2>2 DEF AtLeast
  <2>4. Kept(w.to, w.as) BY <1>4
  <2>5. data[f] \in Content /\ data'[f] \in Content
    BY <2>1, <2>3, <2>4 DEF Sound, TypeOK, Kept
  <2>6. archive[o].content[1] \in Content
    BY <1>4, ArchivedDisk, RestoredHasBackup
  <2>7. /\ data[f].version \in Int /\ data'[f].version \in Int
        /\ archive[o].content[1].version \in Int
    BY <2>5, <2>6, ConstAssumption DEF Content
  <2>8. /\ data'[f] # NoData
        /\ data'[f].of = archive[o].content[1].of /\ data'[f].disk = archive[o].content[1].disk
        /\ data'[f].version >= archive[o].content[1].version
    BY <2>2, <2>3, <2>4, <2>7 DEF AtLeast, Kept
  <2> QED BY <2>8 DEF AtLeast, Own, DiskFile
<1>5. ASSUME w.guest \notin rushed, Intact(w.from, w.guest) PROVE Intact(w.from, w.guest)'
  <2>1. PICK n \in Node, g \in Guest : n = w.from /\ g = w.guest BY <1>3
  <2>2. /\ Intact(n, g) /\ domain'[n][g] = domain[n][g]
        /\ \A d \in Disk : data[DiskFile(n, g, d)] # NoData => data'[DiskFile(n, g, d)] # NoData
    BY <1>5, <2>1
  <2>3. w'.from = n /\ w'.guest = g BY <2>1
  <2>4. Intact(n, g)' BY <2>2, IntactStays
  <2> QED BY <2>3, <2>4 DEF Intact, Defined, Files, Resolve
<1>6. w.guest \notin rushed => (Defined(w.from, w.guest)' <=> Defined(w.from, w.guest))
  BY DEF Defined
<1>7. w.as \notin rushed => (Defined(w.to, w.as)' <=> Defined(w.to, w.as))
  BY DEF Defined
<1>8. w' = w OBVIOUS
<1>9. w.guest \notin rushed' => w.guest \notin rushed OBVIOUS
<1>10. w.as \notin rushed' => w.as \notin rushed OBVIOUS
<1> HIDE DEF w
<1>11. w.guest \notin rushed' =>
         /\ HasBackup(o)' /\ step'[o] # "delete" => Intact(w.from, w.guest)'
         /\ step'[o] = "delete" /\ phase'[o] \in {"half", "ok"} => ~Defined(w.from, w.guest)'
  BY <1>2, <1>5, <1>6, <1>9 DEF Carried, w
<1>12. w.as \notin rushed' =>
         /\ Restored(o)' => AtLeast(o, w.to, w.as)'
         /\ Restored(o)' /\ ~(step'[o] = "restore" /\ phase'[o] = "half") => Defined(w.to, w.as)'
  BY <1>1, <1>4, <1>7, <1>10 DEF Carried, w
<1> QED BY <1>8, <1>11, <1>12 DEF Carried, w

(* Steps that define and remove nothing.                                   *)
LEMMA CarryFrame ==
  ASSUME LocalMoves, CarryInv, Sound', NEW o \in Workflow, Using(o),
         work'[o] = work[o], step'[o] = step[o], phase'[o] = phase[o],
         archive'[o] = archive[o], rushed \subseteq rushed', UNCHANGED domain,
         data' = data \/ \E n \in Node, g \in Guest : User(n, g)
  PROVE  Carried(o)'
<1> DEFINE w == work[o]
<1>1. Sound /\ Carried(o) BY DEF CarryInv, MoveInv
<1>2. w.to \in Node /\ w.as \in Guest /\ w.from \in Node /\ w.guest \in Guest
  BY <1>1, UsingWork, WorkFields
<1>3. \A f \in File : data[f] # NoData => data'[f] # NoData
  BY <1>1, UserKeepsDisks DEF Sound
<1>4. \A d \in Disk : DiskFile(w.from, w.guest, d) \in File
  BY <1>2, DiskFileIsFile
<1>5. \A d \in Disk : data[DiskFile(w.from, w.guest, d)] # NoData =>
                        data'[DiskFile(w.from, w.guest, d)] # NoData
  BY <1>3, <1>4
<1>6. Kept(w.to, w.as)
  <2>1. CASE data' = data BY <1>1, <1>2, <2>1, KeptIfSame
  <2>2. CASE \E n \in Node, g \in Guest : User(n, g)
    <3>1. Own(w.to, w.as) \in File /\ TypeOK /\ TypeOK'
      BY <1>1, <1>2, OwnIsFile DEF Sound
    <3> QED BY <2>2, <3>1, UserKeepsDisks DEF Kept
  <2> QED BY <2>1, <2>2
<1> QED BY <1>1, <1>5, <1>6, CarriedStays

(* A node request of one workflow leaves what another has done.            *)
LEMMA OthersKeepCarried ==
  ASSUME LocalMoves, CarryInv, Sound', NEW o \in Workflow, NEW p \in Workflow, o # p,
         Host(o), Using(p)
  PROVE  Carried(p)'
<1> DEFINE w == work[p]
<1>1. MoveInv /\ Sound /\ Carried(p) BY DEF CarryInv, MoveInv
<1>2. /\ Using(o) /\ UNCHANGED <<work, step, rushed>> /\ phase'[p] = phase[p]
      /\ archive'[p] = archive[p]
  BY <1>1, HostFrame, HostTouches
<1>3. /\ w.to \in Node /\ w.as \in Guest /\ w.from \in Node /\ w.guest \in Guest
  BY <1>1, UsingWork, WorkFields
<1>4. /\ w.guest \notin rushed => <<w.guest, w.from>> \notin Touches(work[o])
      /\ w.as \notin rushed => <<w.as, w.to>> \notin Touches(work[o])
  BY <1>1, <1>2, Apart DEF MoveInv
<1>5. \A n \in Node, h \in Guest : <<h, n>> \notin Touches(work[o]) =>
        /\ domain'[n][h] = domain[n][h]
        /\ \A d \in Disk : data'[DiskFile(n, h, d)] = data[DiskFile(n, h, d)]
  BY <1>1, HostTouches
<1>6. 1 \in Disk BY ConstAssumption DEF Disk
<1>7. w.guest \notin rushed =>
        /\ domain'[w.from][w.guest] = domain[w.from][w.guest]
        /\ \A d \in Disk : data[DiskFile(w.from, w.guest, d)] # NoData =>
                             data'[DiskFile(w.from, w.guest, d)] # NoData
  BY <1>3, <1>4, <1>5
<1>8. w.as \notin rushed => /\ domain'[w.to][w.as] = domain[w.to][w.as]
                            /\ Kept(w.to, w.as)
  <2>1. w.as \notin rushed => /\ domain'[w.to][w.as] = domain[w.to][w.as]
                              /\ data'[Own(w.to, w.as)] = data[Own(w.to, w.as)]
    BY <1>3, <1>4, <1>5, <1>6 DEF Own
  <2> QED BY <1>1, <1>3, <2>1, KeptIfSame
<1> QED BY <1>1, <1>2, <1>7, <1>8, CarriedStays

LEMMA VdmCarries ==
  ASSUME LocalMoves, CarryInv, Sound', NEW o \in Workflow,
         (\E w \in Work : Begin(o, w)) \/ Proceed(o) \/ Complete(o) \/ GiveUp(o) \/ Restart,
         NEW p \in Workflow, Using(p)'
  PROVE  Carried(p)'
<1>0. Sound BY DEF CarryInv, MoveInv
<1>1. TypeOK BY <1>0 DEF Sound
<1>2. UNCHANGED <<domain, data, archive>> /\ rushed \subseteq rushed'
  BY DEF Begin, Proceed, Complete, GiveUp, Restart, guests
<1>3. CASE p = o /\ \E w \in Work : Begin(o, w)
  <2>1. step'[p] = "prepare" BY <1>1, <1>3 DEF Begin, TypeOK
  <2> QED BY <2>1 DEF Carried, Restored, HasBackup
<1>4. CASE Proceed(p)
  <2>1. step[p] \in Step BY <1>1 DEF TypeOK
  <2>2. /\ step'[p] = Following(step[p]) /\ phase'[p] = "sent" /\ phase[p] = "ok"
        /\ ~LastStep(p) /\ UNCHANGED <<work, rushed>> /\ Using(p)
    BY <1>1, <1>4 DEF Proceed, Using, TypeOK
  <2>3. Carried(p) BY <2>2 DEF CarryInv
  <2> DEFINE w == work[p]
  <2>4. /\ Intact(w.from, w.guest)' <=> Intact(w.from, w.guest)
        /\ Defined(w.to, w.as)' <=> Defined(w.to, w.as)
        /\ AtLeast(p, w.to, w.as)' <=> AtLeast(p, w.to, w.as)
    BY <1>2, <2>2 DEF Intact, Defined, Files, Resolve, AtLeast, Own, DiskFile
  <2>5. CASE step[p] = "prepare"
    <3>1. step'[p] = "backup" BY <2>2, <2>5 DEF Following
    <3> QED BY <2>2, <3>1 DEF Carried, Restored, HasBackup
  <2>6. CASE step[p] \in {"backup", "handover"}
    <3>1. step'[p] \in {"handover", "restore"} BY <2>2, <2>6 DEF Following
    <3>2. w.guest \notin rushed => Intact(w.from, w.guest)
      BY <2>2, <2>3, <2>6 DEF Carried, HasBackup
    <3> QED BY <2>2, <2>4, <3>1, <3>2 DEF Carried, Restored
  <2>7. CASE step[p] \in {"restore", "validate"}
    <3>1. step'[p] \in {"validate", "delete"} BY <2>2, <2>7 DEF Following
    <3>2. /\ w.guest \notin rushed => Intact(w.from, w.guest)
          /\ w.as \notin rushed => Defined(w.to, w.as) /\ AtLeast(p, w.to, w.as)
      BY <2>2, <2>3, <2>7 DEF Carried, HasBackup, Restored
    <3> QED BY <2>2, <2>4, <3>1, <3>2 DEF Carried
  <2> QED BY <2>1, <2>2, <2>5, <2>6, <2>7 DEF Step, LastStep
<1>5. CASE ~(p = o /\ \E w \in Work : Begin(o, w)) /\ ~Proceed(p)
  <2>1. /\ work'[p] = work[p] /\ step'[p] = step[p] /\ phase'[p] = phase[p]
        /\ status'[p] # status[p] => status[p] = "running"
    BY <1>1, <1>5 DEF Begin, Proceed, Complete, GiveUp, Restart, Active, TypeOK
  <2>2. Using(p) BY <2>1 DEF Using, Active, Busy
  <2> QED BY <1>2, <2>1, <2>2, CarryFrame
<1> QED BY <1>3, <1>4, <1>5

(* A node request that changes no guest.                                   *)
LEMMA QuietHostCarries ==
  ASSUME LocalMoves, CarryInv, NEW o \in Workflow,
         Serve(o) \/ Backup(o) \/ Validate(o) \/ Break(o)
  PROVE  Carried(o)'
<1> DEFINE w == work[o]
<1>1. MoveInv /\ Sound /\ TypeOK BY DEF CarryInv, MoveInv, Sound
<1>2. Host(o) BY DEF Host
<1>3. Using(o) /\ UNCHANGED <<work, step, rushed, domain, data>>
  BY <1>1, <1>2, HostFrame DEF Serve, Backup, Validate, Break, guests
<1>4. Carried(o) BY <1>3 DEF CarryInv
<1>5. /\ Intact(w.from, w.guest)' <=> Intact(w.from, w.guest)
      /\ Defined(w.from, w.guest)' <=> Defined(w.from, w.guest)
      /\ Defined(w.to, w.as)' <=> Defined(w.to, w.as)
  BY <1>3 DEF Intact, Defined, Files, Resolve
<1>6. CASE Backup(o)
  <2>1. step[o] = "backup" /\ Intact(w.from, w.guest) BY <1>6 DEF Backup, Reached
  <2> QED BY <1>3, <1>5, <2>1 DEF Carried, Restored
<1>7. CASE Serve(o) \/ Validate(o) \/ Break(o)
  <2>1. UNCHANGED archive /\ phase'[o] \in {"ok", "error"}
    BY <1>1, <1>7 DEF Serve, Validate, Break, Answer, TypeOK
  <2>2. AtLeast(o, w.to, w.as)' <=> AtLeast(o, w.to, w.as)
    BY <1>3, <2>1 DEF AtLeast, Own, DiskFile
  <2>3. phase'[o] = "ok" =>
          /\ step[o] \in {"prepare", "handover", "validate"}
          /\ step[o] = "validate" => Defined(w.to, w.as)
    BY <1>1, <1>7 DEF Serve, Validate, Break, Reached, Answer, TypeOK
  <2>4. HasBackup(o)' => HasBackup(o)
    BY <1>3, <2>1, <2>3 DEF HasBackup
  <2>5. Restored(o)' => Restored(o) /\ step[o] \in {"validate", "delete"}
    BY <1>3, <2>1, <2>3 DEF Restored
  <2>6. w.guest \notin rushed =>
          /\ HasBackup(o)' /\ step'[o] # "delete" => Intact(w.from, w.guest)'
          /\ step'[o] = "delete" /\ phase'[o] \in {"half", "ok"} => ~Defined(w.from, w.guest)'
    BY <1>3, <1>4, <1>5, <2>1, <2>3, <2>4 DEF Carried
  <2>7. w.as \notin rushed =>
          (Restored(o)' => AtLeast(o, w.to, w.as)' /\ Defined(w.to, w.as)')
    BY <1>4, <1>5, <2>2, <2>5 DEF Carried
  <2> QED BY <1>3, <2>6, <2>7 DEF Carried
<1> QED BY <1>6, <1>7

LEMMA RestoreCarries ==
  ASSUME LocalMoves, CarryInv, Sound', NEW o \in Workflow,
         RestoreCheck(o) \/ RestoreWrite(o) \/ RestoreDefine(o)
  PROVE  Carried(o)'
<1> DEFINE w == work[o]
<1>1. MoveInv /\ Sound BY DEF CarryInv, MoveInv
<1>2. Host(o) BY DEF Host
<1>3. Using(o) /\ UNCHANGED <<work, step, rushed, archive>>
  BY <1>1, <1>2, HostFrame DEF RestoreCheck, RestoreWrite, RestoreDefine
<1>4. Carried(o) /\ Stage(o) BY <1>3 DEF CarryInv, MoveInv, Stages
<1>5. /\ w \in Work /\ w.to \in Node /\ w.as \in Guest /\ w.from \in Node /\ w.guest \in Guest
      /\ w.from # w.to
  BY <1>1, <1>3, UsingWork, WorkFields
<1>6. /\ step[o] = "restore" /\ archive[o].content[1] \in Content
      /\ \A f \in File : f # Own(w.to, w.as) => data'[f] = data[f]
      /\ \A n \in Node, h \in Guest : ~(n = w.to /\ h = w.as) => domain'[n][h] = domain[n][h]
  BY <1>1, RestoreEffect
<1>7. w.guest \notin rushed => Intact(w.from, w.guest)'
  <2>1. w.guest \notin rushed => Intact(w.from, w.guest)
    BY <1>4, <1>6 DEF Carried, HasBackup
  <2>2. PICK n \in Node, g \in Guest : n = w.from /\ g = w.guest BY <1>5
  <2>3. domain'[n][g] = domain[n][g] BY <1>5, <1>6, <2>2
  <2>4. ASSUME NEW d \in Disk PROVE data'[DiskFile(n, g, d)] = data[DiskFile(n, g, d)]
    <3>1. DiskFile(n, g, d) # Own(w.to, w.as) BY <1>5, <2>2, DiskFileInjective DEF Own
    <3> QED BY <1>6, <3>1, DiskFileIsFile
  <2>5. Intact(n, g) => Intact(n, g)' BY <1>1, <2>3, <2>4, IntactStays
  <2>6. w'.from = n /\ w'.guest = g BY <1>3, <2>2
  <2> QED BY <2>1, <2>2, <2>5, <2>6 DEF Intact, Defined, Files, Resolve
<1>8. CASE RestoreCheck(o)
  <2>1. phase'[o] = "checked" BY <1>1, <1>8, RestoreEffect
  <2> QED BY <1>3, <1>6, <1>7, <2>1 DEF Carried, Restored
<1>9. CASE RestoreWrite(o)
  <2>1. /\ phase[o] = "checked" /\ phase'[o] = "half"
        /\ ~Defined(w.to, w.as) => data'[Own(w.to, w.as)] = archive[o].content[1]
    BY <1>1, <1>9, RestoreEffect
  <2>2. w.as \notin rushed => data'[Own(w.to, w.as)] = archive[o].content[1]
    BY <1>4, <1>6, <2>1 DEF Stage
  <2>3. archive[o].content[1].version \in Int /\ archive[o].content[1] # NoData
    BY <1>6, ConstAssumption, ModelValueAssumption DEF Content
  <2>4. w.as \notin rushed => AtLeast(o, w.to, w.as)'
    BY <1>3, <2>2, <2>3 DEF AtLeast, Own, DiskFile
  <2> QED BY <1>3, <1>6, <1>7, <2>1, <2>4 DEF Carried, Restored
<1>10. CASE RestoreDefine(o)
  <2>1. /\ phase[o] = "half" /\ phase'[o] = "ok" /\ data' = data
        /\ domain'[w.to][w.as] # NoDomain
    BY <1>1, <1>10, RestoreEffect
  <2>2. w.as \notin rushed => AtLeast(o, w.to, w.as)
    BY <1>4, <1>6, <2>1 DEF Carried, Restored
  <2>3. AtLeast(o, w.to, w.as)' <=> AtLeast(o, w.to, w.as)
    BY <1>3, <2>1 DEF AtLeast, Own, DiskFile
  <2>4. Defined(w.to, w.as)' BY <1>3, <2>1 DEF Defined
  <2> QED BY <1>3, <1>6, <1>7, <2>1, <2>2, <2>3, <2>4 DEF Carried, Restored
<1> QED BY <1>8, <1>9, <1>10

LEMMA DeleteCarries ==
  ASSUME LocalMoves, CarryInv, NEW o \in Workflow, Undefine(o) \/ Unlink(o)
  PROVE  Carried(o)'
<1> DEFINE w == work[o]
<1>1. MoveInv /\ Sound BY DEF CarryInv, MoveInv
<1>2. Host(o) BY DEF Host
<1>3. Using(o) /\ UNCHANGED <<work, step, rushed, archive>>
  BY <1>1, <1>2, HostFrame DEF Undefine, Unlink
<1>4. Carried(o) /\ Stage(o) BY <1>3 DEF CarryInv, MoveInv, Stages
<1>5. /\ w \in Work /\ w.to \in Node /\ w.as \in Guest /\ w.from \in Node /\ w.guest \in Guest
      /\ w.from # w.to
  BY <1>1, <1>3, UsingWork, WorkFields
<1>6. step[o] = "delete" /\ domain'[w.to][w.as] = domain[w.to][w.as]
  BY <1>1, <1>5, DeleteEffect
<1>7. data'[Own(w.to, w.as)] = data[Own(w.to, w.as)]
  <2>1. Own(w.to, w.as) \in File /\ Own(w.to, w.as).pool = w.to
    BY <1>5, OwnIsFile DEF Own, DiskFile
  <2> QED BY <1>1, <1>5, <2>1, DeleteEffect
<1>8. w.guest \notin rushed => domain'[w.from][w.guest] = NoDomain
  <2>1. Undefine(o) => domain'[w.from][w.guest] = NoDomain BY <1>1, DeleteEffect
  <2>2. Unlink(o) => domain' = domain /\ phase[o] = "half" BY <1>1, DeleteEffect
  <2> QED BY <1>4, <1>6, <2>1, <2>2 DEF Stage, Defined
<1>9. w.as \notin rushed => AtLeast(o, w.to, w.as) /\ Defined(w.to, w.as)
  BY <1>4, <1>6 DEF Carried, Restored
<1>10. /\ AtLeast(o, w.to, w.as)' <=> AtLeast(o, w.to, w.as)
       /\ Defined(w.to, w.as)' <=> Defined(w.to, w.as)
  BY <1>3, <1>6, <1>7 DEF AtLeast, Own, DiskFile, Defined
<1>11. w.guest \notin rushed => ~Defined(w.from, w.guest)' BY <1>3, <1>8 DEF Defined
<1> QED BY <1>3, <1>6, <1>9, <1>10, <1>11 DEF Carried

LEMMA NextCarryInv == ASSUME LocalMoves PROVE CarryInv /\ [Next]_vars => CarryInv'
<1> SUFFICES ASSUME CarryInv, [Next]_vars PROVE CarryInv'
  OBVIOUS
<1>1. MoveInv' /\ Sound' BY NextMoveInv DEF CarryInv, MoveInv
<1> SUFFICES ASSUME NEW p \in Workflow, Using(p)' PROVE Carried(p)'
  BY <1>1 DEF CarryInv
<1>2. ASSUME NEW o \in Workflow, Vdm(o) \/ Restart PROVE Carried(p)'
  BY <1>1, <1>2, VdmCarries DEF Vdm
<1>3. ASSUME NEW o \in Workflow, Host(o) PROVE Carried(p)'
  <2>1. CASE p = o
    BY <1>1, <1>3, <2>1, QuietHostCarries, RestoreCarries, DeleteCarries DEF Host
  <2>2. CASE p # o
    <3>1. Using(p) BY <1>3, HostFrame DEF CarryInv
    <3> QED BY <1>1, <1>3, <2>2, <3>1, OthersKeepCarried
  <2> QED BY <2>1, <2>2
<1>4. ASSUME NEW n \in Node, NEW g \in Guest, User(n, g) PROVE Carried(p)'
  <2>1. UNCHANGED <<domain, work, status, step, phase, archive, rushed>>
    BY <1>4 DEF User, SwitchOn, SwitchOff, GuestWrite, flow
  <2>2. Using(p) BY <2>1 DEF Using, Active, Busy
  <2> QED BY <1>1, <1>4, <2>1, <2>2, CarryFrame
<1>5. CASE UNCHANGED vars
  <2>1. UNCHANGED <<domain, data, work, status, step, phase, archive, rushed>>
    BY <1>5 DEF vars
  <2>2. Using(p) BY <2>1 DEF Using, Active, Busy
  <2> QED BY <1>1, <2>1, <2>2, CarryFrame
<1>6. Restart => \E o \in Workflow : Active(o) BY DEF Restart
<1> QED BY <1>2, <1>3, <1>4, <1>5, <1>6 DEF Next

(* A workflow that reports "completed" has left on the target, as primary  *)
(* disk, what the backup held or something newer, and has removed the      *)
(* source or left it there with all its disks, as it was asked to; unless  *)
(* new work on the guest was accepted while it was still in use.           *)
THEOREM CompletedMovesHaveMoved ==
  ASSUME LocalMoves PROVE Spec => CompletedMeansMoved
<1>1. Init => CarryInv
  BY InitMoveInv DEF Init, CarryInv, Using, Active
<1>2. CarryInv /\ [Next]_vars => CarryInv' BY NextCarryInv
<1>3. CarryInv /\ [Next]_vars =>
        [\A o \in Workflow :
           Active(o) /\ status'[o] = "completed"
             /\ {work[o].guest, work[o].as} \cap rushed = {} =>
             LET w == work[o]
                 kept  == archive[o].content[1]
                 found == data[Resolve(w.to, domain[w.to][w.as][1])]
             IN
             /\ Defined(w.to, w.as)
             /\ found # NoData /\ found.of = kept.of /\ found.disk = kept.disk
             /\ found.version >= kept.version
             /\ IF w.deleteSource THEN ~Defined(w.from, w.guest)
                ELSE Intact(w.from, w.guest)]_vars
  <2> SUFFICES ASSUME CarryInv, [Next]_vars, NEW o \in Workflow,
                      Active(o), status'[o] = "completed",
                      {work[o].guest, work[o].as} \cap rushed = {}
               PROVE  LET w == work[o]
                          kept  == archive[o].content[1]
                          found == data[Resolve(w.to, domain[w.to][w.as][1])]
                      IN
                      /\ Defined(w.to, w.as)
                      /\ found # NoData /\ found.of = kept.of /\ found.disk = kept.disk
                      /\ found.version >= kept.version
                      /\ IF w.deleteSource THEN ~Defined(w.from, w.guest)
                         ELSE Intact(w.from, w.guest)
    OBVIOUS
  <2> DEFINE w == work[o]
  <2>0. MoveInv /\ Sound /\ TypeOK BY DEF CarryInv, MoveInv, Sound
  <2>1. Complete(o)
    <3>1. status[o] = "running" BY DEF Active
    <3>2. status'[o] # status[o] BY <3>1
    <3> QED BY <2>0, <3>1, <3>2
      DEF Next, Vdm, Host, User, Begin, Proceed, Complete, GiveUp, Restart, Serve, Backup,
          RestoreCheck, RestoreWrite, RestoreDefine, Validate, Undefine, Unlink, Break,
          SwitchOn, SwitchOff, GuestWrite, flow, vars, TypeOK
  <2>2. Using(o) BY DEF Using
  <2>3. Carried(o) /\ Stage(o) BY <2>2 DEF CarryInv, MoveInv, Stages
  <2>4. w \in Work /\ w.to \in Node /\ w.as \in Guest
    BY <2>0, <2>2, UsingWork, WorkFields
  <2>5. phase[o] = "ok" /\ (step[o] = "delete" \/ (step[o] = "validate" /\ ~w.deleteSource))
    BY <2>1 DEF Complete, LastStep
  <2>6. w.guest \notin rushed /\ w.as \notin rushed OBVIOUS
  <2>7. Defined(w.to, w.as) /\ AtLeast(o, w.to, w.as)
    BY <2>3, <2>5, <2>6 DEF Carried, Restored
  <2>8. IF w.deleteSource THEN ~Defined(w.from, w.guest) ELSE Intact(w.from, w.guest)
    BY <2>3, <2>5, <2>6 DEF Carried, Stage, HasBackup
  <2>9. Resolve(w.to, domain[w.to][w.as][1]) = Own(w.to, w.as)
    BY <2>0, <2>4, <2>7, HomeFiles DEF Sound
  <2> QED BY <2>7, <2>8, <2>9 DEF AtLeast
<1> QED BY <1>1, <1>2, <1>3, PTL DEF Spec, CompletedMeansMoved

-----------------------------------------------------------------------------
(* Copies come and go one at a time.                                       *)

Original == Guest \ CopyName
CopyPlace == Node \X Guest

Same(n, h) == \A g \in Guest : Holds(n, h, g)' <=> Holds(n, h, g)

LEMMA SameIfUntouched ==
  ASSUME Sound, Sound', NEW n \in Node, NEW h \in Guest,
         domain'[n][h] = domain[n][h],
         data'[Own(n, h)] # NoData <=> data[Own(n, h)] # NoData,
         data[Own(n, h)] # NoData => data'[Own(n, h)].of = data[Own(n, h)].of
  PROVE  Same(n, h)
<1>1. Defined(n, h)' <=> Defined(n, h) BY DEF Defined
<1> QED BY <1>1, HoldsIs, HoldsIsNext DEF Same

(* A step changes what one place holds, at most.                           *)
LEMMA OnePlaceChanges ==
  ASSUME LocalMoves, MoveInv, [Next]_vars, CopyPlace # {}
  PROVE  \E n \in Node, h \in Guest :
           \A m \in Node, k \in Guest : ~(m = n /\ k = h) => Same(m, k)
<1>0. Sound /\ Sound' BY NextMoveInv DEF MoveInv
<1>1. ASSUME NEW o \in Workflow, RestoreCheck(o) \/ RestoreWrite(o) \/ RestoreDefine(o)
      PROVE  \E n \in Node, h \in Guest :
               \A m \in Node, k \in Guest : ~(m = n /\ k = h) => Same(m, k)
  <2> DEFINE w == work[o]
  <2>1. w \in Work BY <1>0, <1>1, RestoreEffect
  <2>2. PICK n \in Node, h \in Guest : n = w.to /\ h = w.as BY <2>1, WorkFields
  <2>3. ASSUME NEW m \in Node, NEW k \in Guest, ~(m = n /\ k = h) PROVE Same(m, k)
    <3>1. domain'[m][k] = domain[m][k] BY <1>0, <1>1, <2>2, <2>3, RestoreEffect
    <3>2. Own(m, k) # Own(n, h) BY <2>3, DiskFileInjective DEF Own
    <3>3. Own(m, k) \in File BY OwnIsFile
    <3>4. data'[Own(m, k)] = data[Own(m, k)]
      BY <1>0, <1>1, <2>2, <3>2, <3>3, RestoreEffect
    <3> QED BY <1>0, <3>1, <3>4, SameIfUntouched
  <2> QED BY <2>3
<1>2. ASSUME NEW o \in Workflow, Undefine(o) \/ Unlink(o)
      PROVE  \E n \in Node, h \in Guest :
               \A m \in Node, k \in Guest : ~(m = n /\ k = h) => Same(m, k)
  <2> DEFINE w == work[o]
  <2>1. w \in Work BY <1>0, <1>2, DeleteEffect
  <2>2. PICK n \in Node, h \in Guest : n = w.from /\ h = w.guest BY <2>1, WorkFields
  <2>3. ASSUME NEW m \in Node, NEW k \in Guest, ~(m = n /\ k = h) PROVE Same(m, k)
    <3>1. domain'[m][k] = domain[m][k] BY <1>0, <1>2, <2>2, <2>3, DeleteEffect
    <3>2. Own(m, k) \in File /\ Own(m, k).pool = m /\ Own(m, k).name = k
      BY OwnIsFile DEF Own, DiskFile
    <3>3. data'[Own(m, k)] = data[Own(m, k)]
      BY <1>0, <1>2, <2>2, <2>3, <3>2, DeleteEffect
    <3> QED BY <1>0, <3>1, <3>3, SameIfUntouched
  <2> QED BY <2>3
<1>3. CASE /\ ~\E o \in Workflow : RestoreCheck(o) \/ RestoreWrite(o) \/ RestoreDefine(o)
           /\ ~\E o \in Workflow : Undefine(o) \/ Unlink(o)
  <2>1. domain' = domain
    BY <1>3 DEF Next, Vdm, Host, User, Begin, Proceed, Complete, GiveUp, Restart, Serve,
       Backup, Validate, Break, SwitchOn, SwitchOff, GuestWrite, guests, vars
  <2>2. ASSUME NEW m \in Node, NEW k \in Guest PROVE Same(m, k)
    <3>1. Own(m, k) \in File BY OwnIsFile
    <3>2. data'[Own(m, k)] = data[Own(m, k)] \/ \E n \in Node, g \in Guest : User(n, g)
      BY <1>0, <1>3, <3>1, DataStep
    <3>3. /\ data'[Own(m, k)] # NoData <=> data[Own(m, k)] # NoData
          /\ data[Own(m, k)] # NoData => data'[Own(m, k)].of = data[Own(m, k)].of
      BY <1>0, <3>1, <3>2, UserKeepsDisks DEF Sound
    <3> QED BY <1>0, <2>1, <3>3, SameIfUntouched
  <2> QED BY <2>2 DEF CopyPlace
<1> QED BY <1>1, <1>2, <1>3

LEMMA CopyStep ==
  ASSUME LocalMoves, MoveInv, [Next]_vars
  PROVE  [Copies!Next]_<<[g \in Guest \ CopyName |-> CopiesOf(g)], rushed \ CopyName>>
<1> DEFINE copies == [g \in Original |-> CopiesOf(g)]
           forsaken == rushed \ CopyName
<1>1. MoveInv' /\ TypeOK /\ TypeOK' BY NextMoveInv DEF MoveInv, Sound
<1>2. rushed \subseteq rushed'
  BY DEF Next, Vdm, Host, User, Begin, Proceed, Complete, GiveUp, Restart, Serve, Backup,
     RestoreCheck, RestoreWrite, RestoreDefine, Validate, Undefine, Unlink, Break,
     SwitchOn, SwitchOff, GuestWrite, vars
<1>3. forsaken \subseteq forsaken' /\ forsaken' \subseteq Original
  BY <1>1, <1>2 DEF TypeOK, Original
<1>4. \A g \in Original : CopiesOf(g) \subseteq CopyPlace /\ CopiesOf(g)' \subseteq CopyPlace
  BY DEF CopiesOf, CopyPlace
<1>5. copies' = [g \in Original |-> CopiesOf(g)'] BY DEF Original
<1>6. copies' \in [Original -> SUBSET CopyPlace] BY <1>4, <1>5
<1>7. ASSUME CopyPlace = {} PROVE UNCHANGED <<copies, forsaken>>
  <2>1. \A g \in Original : CopiesOf(g)' = CopiesOf(g) BY <1>4, <1>7
  <2>2. copies' = copies BY <1>5, <2>1
  <2>3. \A n \in Node, h \in Guest : <<n, h>> \in CopyPlace BY DEF CopyPlace
  <2>4. Node = {} \/ Guest = {} BY <1>7, <2>3
  <2>5. \A h \in Guest : h \in CopyName \cup rushed BY <2>4 DEF MoveInv, SomeHome
  <2>6. forsaken = Original BY <1>1, <2>5 DEF TypeOK, Original
  <2>7. forsaken' = Original BY <1>3, <2>6
  <2> QED BY <2>2, <2>6, <2>7
<1>8. ASSUME CopyPlace # {} PROVE Copies!Next
  <2>1. PICK n \in Node, h \in Guest :
          \A m \in Node, k \in Guest : ~(m = n /\ k = h) => Same(m, k)
    BY <1>8, OnePlaceChanges
  <2> DEFINE p == <<n, h>>
  <2>2. ASSUME NEW g \in Original \ forsaken'
        PROVE  \/ CopiesOf(g)' = CopiesOf(g)
               \/ CopiesOf(g) # {} /\ p \notin CopiesOf(g) /\ CopiesOf(g)' = CopiesOf(g) \cup {p}
               \/ p \in CopiesOf(g) /\ CopiesOf(g) # {p} /\ CopiesOf(g)' = CopiesOf(g) \ {p}
    <3>1. g \in Guest \ (CopyName \cup rushed) /\ g \in Guest \ (CopyName \cup rushed')
      BY <1>2, <2>2 DEF Original
    <3>2. CopiesOf(g) # {} BY <3>1, InvMeansSurvival DEF GuestSurvives
    <3>3. CopiesOf(g)' # {}
      <4>1. PICK m \in Node : Defined(m, g)' BY <1>1, <3>1 DEF MoveInv, SomeHome
      <4>2. data'[Own(m, g)] # NoData
        BY <1>1, <3>1, <4>1 DEF MoveInv, DefinedWhole, Own, DiskFile
      <4>3. data'[Own(m, g)].of = g
        BY <1>1, <3>1, <4>2 DEF MoveInv, Sound, RightDisks, Right, Own, DiskFile
      <4>4. Sound' BY <1>1 DEF MoveInv
      <4>5. Holds(m, g, g)' BY <3>1, <4>1, <4>2, <4>3, <4>4, HoldsIsNext
      <4>6. <<m, g>> \in CopiesOf(g)' BY <3>1, <4>5 DEF CopiesOf
      <4> QED BY <4>6
    <3>4. \A q \in CopyPlace : q # p => (q \in CopiesOf(g)' <=> q \in CopiesOf(g))
      BY <2>1, <3>1 DEF Same, CopiesOf, CopyPlace
    <3>5. CopiesOf(g) \subseteq CopyPlace /\ CopiesOf(g)' \subseteq CopyPlace BY <1>4
    <3>6. CASE p \in CopiesOf(g) <=> p \in CopiesOf(g)'
      BY <3>4, <3>5, <3>6
    <3>7. CASE p \notin CopiesOf(g) /\ p \in CopiesOf(g)'
      BY <3>2, <3>4, <3>5, <3>7
    <3>8. CASE p \in CopiesOf(g) /\ p \notin CopiesOf(g)'
      <4>1. CopiesOf(g)' = CopiesOf(g) \ {p} BY <3>4, <3>5, <3>8
      <4>2. CopiesOf(g) # {p} BY <3>3, <4>1
      <4> QED BY <3>8, <4>1, <4>2
    <3> QED BY <3>6, <3>7, <3>8
  <2>3. ASSUME NEW g \in Original \ forsaken'
        PROVE  copies'[g] = copies[g] \/ Copies!Add(g, p) \/ Copies!Remove(g, p)
    BY <1>5, <2>2, <2>3 DEF Copies!Add, Copies!Remove, Original
  <2>4. p \in CopyPlace BY DEF CopyPlace
  <2> QED BY <1>3, <1>6, <2>3, <2>4 DEF Copies!Next, Original, CopyPlace
<1> QED BY <1>7, <1>8 DEF Original

LEMMA CopyInit ==
  ASSUME LocalMoves, Init PROVE Copies!Init
<1>1. MoveInv /\ Sound BY InitMoveInv DEF MoveInv
<1>2. PICK home \in [Guest -> Node], where \in [Guest -> InitialPool], size \in [Guest -> Disk] :
        Placed(home, where, size)
  BY DEF Init
<1>3. \A h \in Guest : FirstPath(h, where, size) # NoDomain
  BY FirstPathFacts, ModelValueAssumption
<1>4. \A n \in Node, h \in Guest : Defined(n, h) <=> h \notin CopyName /\ home[h] = n
  BY <1>2, <1>3 DEF Placed, Defined, Exists
<1>5. rushed = {} BY DEF Init
<1>6. ASSUME NEW n \in Node, NEW h \in Guest, Defined(n, h)
      PROVE  data[Own(n, h)] # NoData /\ data[Own(n, h)].of = h
  <2>1. data[Own(n, h)] # NoData BY <1>1, <1>5, <1>6 DEF MoveInv, DefinedWhole
  <2> QED BY <1>1, <1>4, <1>6, <2>1 DEF Sound, RightDisks, Right
<1>7. \A g \in Original, n \in Node, h \in Guest : Holds(n, h, g) <=> h = g /\ n = home[g]
  BY <1>1, <1>4, <1>6, HoldsIs DEF Original
<1>8. \A g \in Original : CopiesOf(g) = {<<home[g], g>>}
  BY <1>7 DEF CopiesOf, Original
<1> DEFINE at == [g \in Original |-> <<home[g], g>>]
<1>9. at \in [Original -> Node \X Guest] BY DEF Original
<1>10. [g \in Original |-> CopiesOf(g)] = [g \in Original |-> {at[g]}] BY <1>8
<1> QED BY <1>5, <1>9, <1>10 DEF Copies!Init, Original

(* Seen through the copies of each guest, moves and clones are additions   *)
(* and removals in one place at a time, none of which removes the last     *)
(* copy of a guest, except of guests that got new work while in use.       *)
THEOREM MovesImplementCopySet ==
  ASSUME LocalMoves PROVE Spec => ImplementsCopySet
<1>1. Init => MoveInv BY InitMoveInv
<1>2. MoveInv /\ [Next]_vars => MoveInv' BY NextMoveInv
<1>3. Init => Copies!Init BY CopyInit
<1>4. MoveInv /\ [Next]_vars =>
        [Copies!Next]_<<[g \in Guest \ CopyName |-> CopiesOf(g)], rushed \ CopyName>>
  BY CopyStep
<1> QED BY <1>1, <1>2, <1>3, <1>4, PTL DEF Spec, ImplementsCopySet, Copies!Spec
=============================================================================
