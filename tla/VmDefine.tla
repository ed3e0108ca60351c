------------------------------- MODULE VmDefine -------------------------------
(***************************************************************************)
(* The libvirt definition of one machine under the calls of the runner     *)
(* that read it, change it and define it again (apps/runner/src/handlers/  *)
(* qemu.ts).  Each cycle has other commands between its read and its       *)
(* define; withVmDefineLock keeps the cycles inside it apart by chaining   *)
(* promises in a map.  Some cycles do not use it, devices are attached by  *)
(* commands of libvirt that rewrite the definition themselves, and a       *)
(* deletion takes it away.                                                 *)
(*                                                                         *)
(* A setting holds the request that set it last: two requests never ask    *)
(* for the same thing, so an overwritten change always shows.              *)
(***************************************************************************)
EXTENDS FiniteSets

CONSTANTS
  Request,      \* calls to the runner, each made at most once
  Kinds,        \* what may be asked for: a subset of AllKinds
  NoRequest,    \* no promise in the map, nothing waited for
  Unset,        \* a setting as the machine was created, or a missing password
  NoDevice,     \* the machine has no SPICE display
  NoDomain      \* the machine is not defined

Locked == {"vnc", "spice", "console"}
Bypassing == {"start", "update", "reorder", "iso", "repair"}
Commands == {"attach", "detach", "stop", "delete"}
AllKinds == Locked \cup Bypassing \cup Commands

Displays == {"vnc", "spice"}
Settings == Displays \cup {"audio", "tuning", "hardware", "boot", "disk"}

ASSUME RequestAssumption ==
  /\ Kinds \subseteq AllKinds
  /\ {NoRequest, Unset, NoDevice} \cap Request = {}
  /\ Unset # NoDevice

Value == Request \cup {Unset, NoDevice}
Definition == [set : [Settings -> Value], devices : SUBSET Request]

ASSUME NoDomainAssumption == NoDomain \notin Definition

VARIABLES
  definition, \* the persistent definition
  live,       \* what the running machine was started with, NoDomain when off
  display,    \* the passwords that open the displays of the running machine
  tail,       \* vmDefineLocks: whose section the next one has to wait for
  prev,       \* the section each section waits for
  kind,       \* what each request asks for
  pc,         \* how far each request is
  base,       \* the definition each cycle has read
  password,   \* the password each console request found or made
  crossed,    \* history: somebody the lock does not hold changed what it looked at
  misread,    \* history: has read something else than the definition as it is
  unseen,     \* history: could not see whether the machine runs
  disturbed,  \* history: some define undid a change that was not its own
  before      \* history: the sections that were in line before each section

lockVars == <<tail, prev, before>>
machineVars == <<definition, live, display>>
historyVars == <<crossed, misread, unseen, disturbed>>
vars == <<machineVars, lockVars, kind, pc, base, password, historyVars>>

-----------------------------------------------------------------------------
Steps == {"idle", "queued", "begin", "attached", "checked", "read", "defined",
          "live", "push", "destroyed", "ok", "failed"}

TypeOK ==
  /\ definition \in Definition \cup {NoDomain}
  /\ live \in Definition \cup {NoDomain}
  /\ display \in [Displays -> Value]
  /\ tail \in Request \cup {NoRequest}
  /\ prev \in [Request -> Request \cup {NoRequest}]
  /\ kind \in [Request -> AllKinds \cup {"none"}]
  /\ pc \in [Request -> Steps]
  /\ base \in [Request -> Definition \cup {NoDomain}]
  /\ password \in [Request -> Value]
  /\ crossed \in [Request -> BOOLEAN]
  /\ misread \in [Request -> BOOLEAN]
  /\ unseen \in [Request -> BOOLEAN]
  /\ disturbed \in BOOLEAN
  /\ before \in [Request -> SUBSET Request]

Created ==
  [set |-> [s \in Settings |-> IF s = "spice" THEN NoDevice ELSE Unset],
   devices |-> {}]

Init ==
  /\ definition = Created
  /\ live = NoDomain
  /\ display = [k \in Displays |-> Unset]
  /\ tail = NoRequest
  /\ prev = [o \in Request |-> NoRequest]
  /\ kind = [o \in Request |-> "none"]
  /\ pc = [o \in Request |-> "idle"]
  /\ base = [o \in Request |-> NoDomain]
  /\ password = [o \in Request |-> Unset]
  /\ crossed = [o \in Request |-> FALSE]
  /\ misread = [o \in Request |-> FALSE]
  /\ unseen = [o \in Request |-> FALSE]
  /\ disturbed = FALSE
  /\ before = [o \in Request |-> {}]

-----------------------------------------------------------------------------
(* The lock: a section runs when the one before it has ended, however it    *)
(* ended, and takes its entry out of the map unless another came after it.  *)
Lock(o) == kind[o] \in Locked
Waiting(o) == Lock(o) /\ pc[o] = "queued"
InSection(o) == Lock(o) /\ pc[o] = "read"
Unfinished == {o \in Request : Waiting(o) \/ InSection(o)}

Bug_EnterAnytime(o) == Waiting(o)

Bug_EnterAfterSuccess(o) ==
  Waiting(o) /\ (prev[o] # NoRequest => pc[prev[o]] = "ok")

MayEnter(o) == Waiting(o) /\ prev[o] \notin Unfinished

Enqueue(o) ==
  /\ prev' = [prev EXCEPT ![o] = tail]
  /\ tail' = o
  /\ before' = [before EXCEPT ![o] = {p \in Request : Lock(p)}]

Bug_ReleaseAny(o) ==
  /\ tail' = NoRequest
  /\ UNCHANGED <<prev, before>>

Release(o) ==
  /\ tail' = IF tail = o THEN NoRequest ELSE tail
  /\ UNCHANGED <<prev, before>>

-----------------------------------------------------------------------------
(* Reading and defining.                                                    *)
Redacted(d) ==
  [d EXCEPT !.set["vnc"] = Unset,
            !.set["spice"] = IF d.set["spice"] = NoDevice THEN NoDevice ELSE Unset]

Current == IF live = NoDomain THEN definition ELSE live

Bug_DumpPlain(o) == Redacted(definition)

(* What each kind of cycle asks libvirt for.  A repair asks for the plain   *)
(* dump, a start for that of the running machine if it runs.                *)
Dump(o) ==
  CASE kind[o] = "repair" -> Redacted(Current)
    [] kind[o] = "start" -> Current
    [] OTHER -> definition

(* What it is content with when that command fails, for want of the flag    *)
(* --security-info or for any other reason.                                 *)
Fallback(o) ==
  CASE kind[o] \in Displays -> Current
    [] kind[o] \in {"start", "repair"} -> Redacted(Current)
    [] OTHER -> Redacted(definition)

Read(o) ==
  \E answered \in BOOLEAN :
    /\ base' = [base EXCEPT ![o] = IF answered THEN Dump(o) ELSE Fallback(o)]
    /\ misread' = [misread EXCEPT ![o] =
         \/ ~answered /\ Fallback(o) # Dump(o)
         \/ kind[o] = "repair"
         \/ kind[o] = "start" /\ live # NoDomain]

(* The settings a define of a request is there to change. *)
Own(k) ==
  CASE k \in Displays -> {k}
    [] k = "console" -> {"spice", "audio"}
    [] k = "start" -> {"tuning"}
    [] k = "update" -> {"tuning", "hardware"}
    [] k = "reorder" -> {"tuning", "boot"}
    [] k = "iso" -> {"boot"}
    [] k = "repair" -> {"disk"}
    [] OTHER -> {}

(* A display added by a console request has no password yet. *)
NewValue(o, s) == IF kind[o] = "console" /\ s = "spice" THEN Unset ELSE o

Modified(o) ==
  [base[o] EXCEPT !.set =
     [s \in Settings |-> IF s \in Own(kind[o]) THEN NewValue(o, s) ELSE @[s]]]

ChangesOnly(d, e, S) ==
  /\ d # NoDomain
  /\ e.devices = d.devices
  /\ \A s \in Settings \ S : e.set[s] = d.set[s]

(* The requests that have read, or looked at, what they will define. *)
Window == {o \in Request : pc[o] \in {"checked", "read"}}

Cross(o) ==
  crossed' = [p \in Request |->
    p # o /\ (crossed[p] \/ (p \in Window /\ ~(Lock(p) /\ Lock(o))))]

Write(o) ==
  /\ definition' = Modified(o)
  /\ disturbed' = (disturbed \/ (Lock(o) /\ misread[o])
                            \/ ~ChangesOnly(definition, Modified(o), Own(kind[o])))
  /\ Cross(o)
  /\ base' = [base EXCEPT ![o] = NoDomain]
  /\ misread' = [misread EXCEPT ![o] = FALSE]
  /\ UNCHANGED unseen

(* A call that ends without a define forgets what it has read. *)
Leave(o) ==
  /\ base' = [base EXCEPT ![o] = NoDomain]
  /\ crossed' = [crossed EXCEPT ![o] = FALSE]
  /\ misread' = [misread EXCEPT ![o] = FALSE]
  /\ UNCHANGED <<unseen, disturbed>>

Goto(o, step) == pc' = [pc EXCEPT ![o] = step]

-----------------------------------------------------------------------------
(* A request reaches the runner. *)
Arrive(o, k) ==
  /\ pc[o] = "idle"
  /\ kind' = [kind EXCEPT ![o] = k]
  /\ IF k \in Locked
     THEN Goto(o, "queued") /\ Enqueue(o)
     ELSE Goto(o, "begin") /\ UNCHANGED lockVars
  /\ UNCHANGED <<machineVars, base, password, historyVars>>

(* ensureVncPassword, ensureSpicePassword and ensureSpiceConsole: the read  *)
(* that opens the section.                                                  *)
EnterSection(o) ==
  /\ MayEnter(o)
  /\ definition # NoDomain
  /\ Read(o)
  /\ Goto(o, "read")
  /\ UNCHANGED <<machineVars, lockVars, kind, password, crossed, unseen, disturbed>>

(* A console request ends after its section and asks for a password with a  *)
(* request of its own; the others go on to the running machine.             *)
AfterSection(k) == IF k = "console" THEN "ok" ELSE "live"

Found(o) ==
  CASE kind[o] = "vnc" -> base[o].set["vnc"] # Unset
    [] kind[o] = "spice" -> base[o].set["spice"] \in Request
    [] kind[o] = "console" -> base[o].set["spice"] # NoDevice

(* The section finds what it is there to ensure. *)
KeepFound(o) ==
  /\ InSection(o) /\ Found(o)
  /\ password' = [password EXCEPT
       ![o] = IF kind[o] = "console" THEN @ ELSE base[o].set[kind[o]]]
  /\ Leave(o)
  /\ Goto(o, AfterSection(kind[o]))
  /\ Release(o)
  /\ UNCHANGED <<machineVars, kind>>

(* It does not, and defines the machine anew. *)
DefineInSection(o) ==
  /\ InSection(o) /\ ~Found(o)
  /\ ~(kind[o] = "spice" /\ base[o].set["spice"] = NoDevice)
  /\ password' = [password EXCEPT ![o] = IF kind[o] = "console" THEN @ ELSE o]
  /\ Write(o)
  /\ Goto(o, AfterSection(kind[o]))
  /\ Release(o)
  /\ UNCHANGED <<live, display, kind>>

(* The section throws: no machine, no SPICE display, or virsh fails.  *)
SectionFails(o) ==
  /\ MayEnter(o) \/ InSection(o)
  /\ Leave(o)
  /\ Goto(o, "failed")
  /\ Release(o)
  /\ UNCHANGED <<machineVars, kind, password>>

(* A state reading, and the monitor commands that give a running machine    *)
(* the password.  A display that is only in the definition has to wait; a   *)
(* machine whose state or dump cannot be read is taken for one that is off. *)
LooksLive(o) ==
  /\ pc[o] = "live"
  /\ \/ /\ Goto(o, IF live # NoDomain /\ live.set[kind[o]] # NoDevice
                   THEN "push" ELSE "ok")
        /\ UNCHANGED unseen
     \/ /\ Goto(o, "ok")
        /\ unseen' = [unseen EXCEPT ![o] = TRUE]
  /\ UNCHANGED <<machineVars, lockVars, kind, base, password, crossed, misread, disturbed>>

SetPassword(o) ==
  /\ pc[o] = "push"
  /\ live # NoDomain
  /\ display' = [display EXCEPT ![kind[o]] = password[o]]
  /\ Goto(o, "ok")
  /\ UNCHANGED <<definition, live, lockVars, kind, base, password, historyVars>>

(* The monitor refuses, which it does when the machine has been stopped. *)
MonitorFails(o) ==
  /\ pc[o] = "push"
  /\ Goto(o, "failed")
  /\ UNCHANGED <<machineVars, lockVars, kind, base, password, historyVars>>

-----------------------------------------------------------------------------
(* Cycles outside the lock: vmAction "start", updateVmConfig, which also    *)
(* reorders the boot devices, the boot order of attachIso, repairVmDisk.    *)
Checks == {"start", "repair"}

(* A start resumes a paused machine, a repair refuses one that runs.  A     *)
(* start goes on with one that runs, and both with one whose state they     *)
(* cannot read.                                                             *)
CheckState(o) ==
  /\ pc[o] = "begin" /\ kind[o] \in Checks
  /\ \/ Goto(o, "checked")
     \/ live # NoDomain /\ Goto(o, IF kind[o] = "start" THEN "ok" ELSE "failed")
  /\ UNCHANGED <<machineVars, lockVars, kind, base, password, historyVars>>

Bug_AddUnnamed(o, d) ==
  IF d = NoDomain THEN d ELSE [d EXCEPT !.devices = @ \cup {NoDevice}]

AddDevice(o, d) == IF d = NoDomain THEN d ELSE [d EXCEPT !.devices = @ \cup {o}]

(* attachIso puts the disc in with a command of libvirt; attachDisk,        *)
(* attachNetwork and attachUsbDevice are no more than that.                 *)
Attach(o) ==
  /\ pc[o] = "begin" /\ kind[o] \in {"iso", "attach"}
  /\ definition # NoDomain
  /\ definition' = AddDevice(o, definition)
  /\ live' = AddDevice(o, live)
  /\ Cross(o)
  /\ Goto(o, IF kind[o] = "iso" THEN "attached" ELSE "ok")
  /\ UNCHANGED <<display, lockVars, kind, base, password, misread, unseen, disturbed>>

ReadsAt(k) ==
  CASE k = "iso" -> "attached"
    [] k \in Checks -> "checked"
    [] OTHER -> "begin"

ReadOutside(o) ==
  /\ kind[o] \in Bypassing /\ pc[o] = ReadsAt(kind[o])
  /\ definition # NoDomain
  /\ Read(o)
  /\ Goto(o, "read")
  /\ UNCHANGED <<machineVars, lockVars, kind, password, crossed, unseen, disturbed>>

DefineOutside(o) ==
  /\ kind[o] \in Bypassing /\ pc[o] = "read"
  /\ Write(o)
  /\ Goto(o, IF kind[o] = "start" THEN "defined" ELSE "ok")
  /\ UNCHANGED <<live, display, lockVars, kind, password>>

(* virsh start fails when the machine already runs. *)
SwitchOn(o) ==
  /\ pc[o] = "defined"
  /\ live = NoDomain /\ definition # NoDomain
  /\ live' = definition
  /\ display' = [k \in Displays |-> definition.set[k]]
  /\ Cross(o)
  /\ Goto(o, "ok")
  /\ UNCHANGED <<definition, lockVars, kind, base, password, misread, unseen, disturbed>>

-----------------------------------------------------------------------------
(* Commands of libvirt. *)

(* detachDisk leaves the running machine its disk, the others do not. *)
Detach(o) ==
  /\ pc[o] = "begin" /\ kind[o] = "detach"
  /\ definition # NoDomain
  /\ \E d \in definition.devices :
       /\ definition' = [definition EXCEPT !.devices = @ \ {d}]
       /\ \/ UNCHANGED live
          \/ live # NoDomain /\ live' = [live EXCEPT !.devices = @ \ {d}]
  /\ Cross(o)
  /\ Goto(o, "ok")
  /\ UNCHANGED <<display, lockVars, kind, base, password, misread, unseen, disturbed>>

Stop(o) ==
  /\ pc[o] = "begin" /\ kind[o] \in {"stop", "delete"}
  /\ live' = NoDomain
  /\ display' = [k \in Displays |-> Unset]
  /\ Goto(o, IF kind[o] = "stop" THEN "ok" ELSE "destroyed")
  /\ UNCHANGED <<definition, lockVars, kind, base, password, historyVars>>

(* deleteVm takes the definition away once the machine is off. *)
Undefine(o) ==
  /\ pc[o] = "destroyed"
  /\ live = NoDomain
  /\ definition' = NoDomain
  /\ Cross(o)
  /\ Goto(o, "ok")
  /\ UNCHANGED <<live, display, lockVars, kind, base, password, misread, unseen, disturbed>>

(* Any command of a call outside the lock may fail, and fails without a     *)
(* machine; the call ends there.                                            *)
CallFails(o) ==
  /\ ~Lock(o) /\ pc[o] \notin {"idle", "ok", "failed"}
  /\ Leave(o)
  /\ Goto(o, "failed")
  /\ UNCHANGED <<machineVars, lockVars, kind, password>>

(* The service manager restarts the runner: calls and promises are gone,    *)
(* libvirt keeps the machine.                                               *)
RunnerRestarts ==
  /\ pc' = [o \in Request |-> IF pc[o] = "idle" \/ pc[o] = "ok" THEN pc[o] ELSE "failed"]
  /\ base' = [o \in Request |-> NoDomain]
  /\ crossed' = [o \in Request |-> FALSE]
  /\ misread' = [o \in Request |-> FALSE]
  /\ tail' = NoRequest
  /\ UNCHANGED <<machineVars, prev, before, kind, password, unseen, disturbed>>

-----------------------------------------------------------------------------
Section(o) == EnterSection(o) \/ KeepFound(o) \/ DefineInSection(o) \/ SectionFails(o)
Console(o) == LooksLive(o) \/ SetPassword(o) \/ MonitorFails(o)
Cycle(o) == CheckState(o) \/ Attach(o) \/ ReadOutside(o) \/ DefineOutside(o) \/ SwitchOn(o)
Command(o) == Detach(o) \/ Stop(o) \/ Undefine(o) \/ CallFails(o)
Progress(o) == Section(o) \/ Console(o) \/ Cycle(o) \/ Command(o)

Next ==
  \/ \E o \in Request, k \in Kinds : Arrive(o, k)
  \/ \E o \in Request : Progress(o)
  \/ RunnerRestarts

Spec == Init /\ [][Next]_vars

(* Every command of virsh ends, well or not. *)
FairSpec == Spec /\ \A o \in Request : WF_vars(Progress(o))

-----------------------------------------------------------------------------
(* Nobody inside the lock loses a change of somebody else inside it, and    *)
(* nobody at all undoes a change that came before his own read: a define    *)
(* changes the settings it is there for and no other.  The defines the code *)
(* does lose changes with are excused by name: one that a cycle outside the *)
(* lock, a command of libvirt or a start has crossed between its first look *)
(* and its define, and one that was made from something else than the       *)
(* definition as it is: a repair, a start of a running machine, and any     *)
(* cycle whose dump has failed and that took the other one.                 *)
Defines(o) == DefineInSection(o) \/ DefineOutside(o)

DefineChangesOnlyItsOwn ==
  [][\A o \in Request : Defines(o) /\ ~crossed[o] /\ ~misread[o]
       => ChangesOnly(definition, definition', Own(kind[o]))]_vars

(* The definition as something the sections work on, one at a time.         *)
Sections == [o \in Request |-> IF InSection(o) THEN {"definition"} ELSE {}]

Exclusive ==
  INSTANCE ExclusiveWork WITH Job <- Request, Item <- {"definition"}, work <- Sections

(* withVmDefineLock: the chained promises, in whatever order sections come, *)
(* throw and are lost with the runner, are a lock.                          *)
ImplementsExclusiveWork == Exclusive!Spec

(* A password handed out opens the display of the running machine, whoever  *)
(* asked first and whether it was running at the time, as long as no define *)
(* has undone somebody's change or made a password without seeing the one   *)
(* that was there.  Excused by name is a call that could not see the        *)
(* machine: it hands out a password it has pushed to nobody.                *)
HandedPasswordOpens ==
  ~disturbed =>
    \A o \in Request :
      /\ kind[o] \in Displays /\ pc[o] = "ok" /\ ~unseen[o]
      /\ live # NoDomain /\ live.set[kind[o]] # NoDevice
      => display[kind[o]] = password[o]

(* Every call is answered: a section that fails lets the next one in.       *)
EveryCallEnds ==
  \A o \in Request : pc[o] # "idle" ~> pc[o] \in {"ok", "failed"}
=============================================================================
