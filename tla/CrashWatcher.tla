----------------------------- MODULE CrashWatcher -----------------------------
(***************************************************************************)
(* The crash watcher of a node (apps/api/src/crashWatcher.ts): it polls    *)
(* the runner for the state of every guest, takes a passage from running   *)
(* to something that is not live for a crash unless the API ordered it,    *)
(* writes the crash down and starts the guest again, at most MaxAttempts   *)
(* times in a window.                                                      *)
(*                                                                         *)
(* The watcher, the handlers of the API and the commands of the runner are *)
(* asynchronous: a guest may stop, be started or be stopped again between  *)
(* the reading of its state, its diagnosis and its restart, and the API    *)
(* may be restarted in between, which empties everything but the database. *)
(* Time passes in Ticks; marks and rows carry their age, so that the       *)
(* clock needs no bound.                                                   *)
(***************************************************************************)
EXTENDS Integers, FiniteSets

CONSTANTS
  Guests,       \* the virtual machines and containers of the node
  MaxAttempts,  \* crash.maxAttempts
  Window,       \* crash.windowMinutes, in Ticks
  Ttl,          \* EXPECTED_TRANSITION_TTL_MS, in Ticks
  MaxJobs       \* bound: orders the API has in flight on one guest

ASSUME WatchAssumption ==
  /\ MaxAttempts \in Nat \ {0}
  /\ Window \in Nat \ {0}
  /\ Ttl \in Nat \ {0}
  /\ MaxJobs \in Nat \ {0}

VARIABLES
  vms,        \* the QEMU guests, whose stops libvirt explains; the rest is LXC's
  state,      \* what each guest does: running, paused or stopped
  reason,     \* what libvirt says of its last stop: clean or crash
  jobs,       \* the commands the runner executes on each guest
  marks,      \* expectedTransitions: ticks each mark has left, 0 for none
  previous,   \* the guests the last completed round saw running
  phase,      \* the API is off, or its watcher idle, listing or handling
  heard,      \* what the round's two listings say of each guest
  pending,    \* unexpected stops this round has not looked at yet
  restarting, \* the guest whose startGuest is awaited, with the slot of its row
  rows,       \* ages of the restart rows of guest_crash_events, by slot
  started,    \* history: ages of the starts the watcher ordered, by slot
  logged      \* history: crash rows of a guest since it was read running

guestVars == <<vms, state, reason, jobs>>
watchVars == <<previous, phase, heard, pending, restarting>>
logVars == <<rows, started, logged>>
vars == <<guestVars, marks, watchVars, logVars>>

\* Room for the rows in the window, and for one too many. An age of Window is
\* that of a slot without a row, or with one that has left the window.
Slots == 0 .. MaxAttempts
Ages == [Slots -> 0 .. Window]
InWindow(ages) == {s \in Slots : ages[s] < Window}

TypeOK ==
  /\ vms \subseteq Guests
  /\ state \in [Guests -> {"running", "paused", "stopped"}]
  /\ reason \in [Guests -> {"clean", "crash"}]
  /\ jobs \in [Guests -> SUBSET {"stop", "restart", "attach", "start"}]
  /\ marks \in [Guests -> 0 .. Ttl]
  /\ previous \subseteq Guests
  /\ phase \in {"off", "idle", "listing", "handling"}
  /\ heard \in [Guests -> {"skipped", "asked", "absent", "running", "paused",
                           "stopped", "unknown"}]
  /\ pending \subseteq Guests
  /\ restarting \subseteq Guests \X Slots
  /\ \A r, q \in restarting : r = q
  /\ rows \in [Guests -> Ages]
  /\ started \in [Guests -> Ages]
  /\ logged \in [Guests -> 0 .. 2]

Init ==
  /\ vms \in SUBSET Guests
  /\ state \in [Guests -> {"running", "stopped"}]
  /\ reason = [g \in Guests |-> "clean"]
  /\ jobs = [g \in Guests |-> {}]
  /\ marks = [g \in Guests |-> 0]
  /\ previous = {}
  /\ phase = "idle"
  /\ heard = [g \in Guests |-> "skipped"]
  /\ pending = {}
  /\ restarting = {}
  /\ rows = [g \in Guests |-> [s \in Slots |-> Window]]
  /\ started = [g \in Guests |-> [s \in Slots |-> Window]]
  /\ logged = [g \in Guests |-> 0]

-------------------------------------------------------------------------------
(* The guests and the runner *)

\* Guest g stops, and libvirt remembers why; it may have stopped before.
Falls(g, why) ==
  \/ /\ state[g] # "stopped"
     /\ state' = [state EXCEPT ![g] = "stopped"]
     /\ reason' = [reason EXCEPT ![g] = why]
  \/ /\ state[g] = "stopped"
     /\ UNCHANGED <<state, reason>>

\* The guest dies, or halts of its own accord.
GuestStops(g) ==
  /\ state[g] # "stopped"
  /\ \E why \in {"clean", "crash"} : Falls(g, why)
  /\ UNCHANGED <<vms, jobs, marks, watchVars, logVars>>

\* The stop actions; virsh destroy, the last resort, leaves "destroyed".
RunnerStops(g) ==
  /\ "stop" \in jobs[g]
  /\ \E why \in {"clean", "crash"} : Falls(g, why)
  /\ jobs' = [jobs EXCEPT ![g] = @ \ {"stop"}]
  /\ UNCHANGED <<vms, marks, watchVars, logVars>>

\* A restart of the API, or the restart that gives a container its device:
\* the guest is stopped, and the same call starts it next.
RunnerHalts(g) ==
  \E job \in jobs[g] \intersect {"restart", "attach"} :
    /\ IF job = "attach" /\ state[g] # "running"
       THEN /\ jobs' = [jobs EXCEPT ![g] = @ \ {job}]
            /\ UNCHANGED <<state, reason>>
       ELSE /\ jobs' = [jobs EXCEPT ![g] = (@ \ {job}) \union {"start"}]
            /\ Falls(g, "clean")
    /\ UNCHANGED <<vms, marks, watchVars, logVars>>

\* A start, which the guest survives or not.
RunnerStarts(g) ==
  /\ "start" \in jobs[g]
  /\ jobs' = [jobs EXCEPT ![g] = @ \ {"start"}]
  /\ \/ UNCHANGED <<state, reason>>
     \/ /\ state' = [state EXCEPT ![g] = "running"]
        /\ reason' = [reason EXCEPT ![g] = "clean"]
  /\ UNCHANGED <<vms, marks, watchVars, logVars>>

\* Freezing a guest, which the API orders as it orders a stop, and back.
RunnerPauses(g) ==
  /\ phase # "off"
  /\ \/ /\ state[g] = "running"
        /\ state' = [state EXCEPT ![g] = "paused"]
        /\ marks' = [marks EXCEPT ![g] = Ttl]
     \/ /\ state[g] = "paused"
        /\ state' = [state EXCEPT ![g] = "running"]
        /\ UNCHANGED marks
  /\ UNCHANGED <<vms, reason, jobs, watchVars, logVars>>

-------------------------------------------------------------------------------
(* The API *)

\* Mutant: a mark outlives its time to live.
Bug_MarkTooLong(g, job) == [marks EXCEPT ![g] = Ttl + 1]

\* markExpectedTransition, then the command: runQemuAction, runLxcAction, and
\* createTask for the tasks that stop the guest. Starting leaves no mark, and
\* neither does attaching a device to a container.
Mark(g, job) ==
  IF job \in {"stop", "restart"} THEN [marks EXCEPT ![g] = Ttl] ELSE marks

Order(g, job) ==
  /\ phase # "off"
  /\ Cardinality(jobs[g]) < MaxJobs
  /\ job = "attach" => g \notin vms
  /\ jobs' = [jobs EXCEPT ![g] = @ \union {job}]
  /\ marks' = Mark(g, job)
  /\ UNCHANGED <<vms, state, reason, watchVars, logVars>>

\* The API stops: its marks, its last round and the round under way are lost.
\* A start that was awaited goes on in the runner and no row will tell of it.
ApiStops ==
  /\ phase # "off"
  /\ phase' = "off"
  /\ marks' = [g \in Guests |-> 0]
  /\ previous' = {}
  /\ heard' = [g \in Guests |-> "skipped"]
  /\ pending' = {}
  /\ restarting' = {}
  /\ started' = [g \in Guests |-> [s \in Slots |->
                   IF <<g, s>> \in restarting THEN Window ELSE started[g][s]]]
  /\ UNCHANGED <<guestVars, rows, logged>>

ApiStarts ==
  /\ phase = "off"
  /\ phase' = "idle"
  /\ UNCHANGED <<guestVars, marks, previous, heard, pending, restarting, logVars>>

-------------------------------------------------------------------------------
(* The watcher *)

\* collectStates asks for both families at once. A call that fails or times
\* out takes its whole family out of the round; lxc-ls may also fail inside
\* the runner, and then the family is there without any container.
BeginRound(answering) ==
  /\ phase = "idle"
  /\ phase' = "listing"
  /\ \E containers \in {"asked", "absent"} :
       heard' = [g \in Guests |-> IF g \notin answering THEN "skipped"
                                  ELSE IF g \in vms THEN "asked" ELSE containers]
  /\ UNCHANGED <<guestVars, marks, previous, pending, restarting, logVars>>

Families == {vms, Guests \ vms}

SomeRound == \E families \in SUBSET Families : BeginRound(UNION families)

\* The runner reads one guest. Its own commands on it may fail: it then
\* answers "unknown".
ReadGuest(g) ==
  /\ phase = "listing"
  /\ heard[g] = "asked"
  /\ \E answer \in {state[g], "unknown"} :
       /\ heard' = [heard EXCEPT ![g] = answer]
       /\ logged' = IF answer = "running" THEN [logged EXCEPT ![g] = 0] ELSE logged
  /\ UNCHANGED <<guestVars, marks, previous, phase, pending, restarting, rows, started>>

IsLiveState(answer) == answer \in {"running", "paused"}

\* Guests a round sees down that the last one saw running.
Fallen == {g \in previous : heard[g] # "skipped" /\ heard[g] # "absent"
                            /\ ~IsLiveState(heard[g])}

\* Mutant: the families that did not answer are forgotten with the rest.
Bug_MergedForgets == {g \in Guests : heard[g] = "running"}

\* Mutant: a guest stays in the reference states until it is heard live.
Bug_MergedKeepsFallen == {g \in Guests : heard[g] = "running" \/ g \in Fallen}

\* The states the next round compares with: what was heard, and what was known
\* of the families that did not answer.
Merged == {g \in Guests : \/ heard[g] = "running"
                          \/ heard[g] = "skipped" /\ g \in previous}

\* The answers are in: stops are told from ordered ones, whose marks they
\* consume, and the reference states are replaced before any diagnosis.
Observe ==
  /\ phase = "listing"
  /\ \A g \in Guests : heard[g] # "asked"
  /\ pending' = {g \in Fallen : marks[g] = 0}
  /\ marks' = [g \in Guests |-> IF g \in Fallen THEN 0 ELSE marks[g]]
  /\ previous' = Merged
  /\ heard' = [g \in Guests |-> "skipped"]
  /\ phase' = "handling"
  /\ UNCHANGED <<guestVars, restarting, logVars>>

\* diagnose: libvirt vouches for a clean stop of a VM, when it answers.
LooksClean(g) == g \in vms /\ state[g] = "stopped" /\ reason[g] = "clean"

DiagnoseClean(g) ==
  /\ phase = "handling"
  /\ restarting = {}
  /\ g \in pending
  /\ LooksClean(g)
  /\ pending' = pending \ {g}
  /\ UNCHANGED <<guestVars, marks, previous, phase, heard, restarting, logVars>>

\* Mutant: the quota is compared with >.
Bug_QuotaOffByOne(g) == Cardinality(InWindow(rows[g])) > MaxAttempts

\* alreadyTried >= maxAttempts
QuotaReached(g) == Cardinality(InWindow(rows[g])) >= MaxAttempts

FreeSlot(g) == CHOOSE s \in Slots : rows[g][s] = Window

\* handleUnexpectedStop up to its second await: the crash is written down;
\* where the policy of the guest asks for it and the quota allows, it is
\* started. A failed repair of its ISO sources keeps the command from the
\* runner, and the attempt counts all the same.
RecordCrash(g) ==
  /\ phase = "handling"
  /\ restarting = {}
  /\ g \in pending
  /\ pending' = pending \ {g}
  /\ logged' = [logged EXCEPT ![g] = IF @ = 2 THEN 2 ELSE @ + 1]
  /\ \/ UNCHANGED <<jobs, restarting, started>>
     \/ /\ ~QuotaReached(g)
        /\ restarting' = {<<g, FreeSlot(g)>>}
        /\ started' = [started EXCEPT ![g][FreeSlot(g)] = 0]
        /\ \E sent \in {{}, {"start"}} : jobs' = [jobs EXCEPT ![g] = @ \union sent]
  /\ UNCHANGED <<vms, state, reason, marks, previous, phase, heard, rows>>

\* startGuest resolves, fails, or times out: a restart or restart-failed row,
\* which count alike.
RecordRestart(g) ==
  /\ \E s \in Slots :
       /\ <<g, s>> \in restarting
       /\ rows' = [rows EXCEPT ![g][s] = 0]
  /\ restarting' = {}
  /\ UNCHANGED <<guestVars, marks, previous, phase, heard, pending, started, logged>>

EndRound ==
  /\ phase = "handling"
  /\ pending = {}
  /\ restarting = {}
  /\ phase' = "idle"
  /\ UNCHANGED <<guestVars, marks, previous, heard, pending, restarting, logVars>>

-------------------------------------------------------------------------------
\* Ages a Tick later.
Older(ages) == [s \in Slots |-> IF ages[s] < Window THEN ages[s] + 1 ELSE Window]

Tick ==
  /\ marks' = [g \in Guests |-> IF marks[g] = 0 THEN 0 ELSE marks[g] - 1]
  /\ rows' = [g \in Guests |-> Older(rows[g])]
  /\ started' = [g \in Guests |-> Older(started[g])]
  /\ UNCHANGED <<guestVars, watchVars, logged>>

Next ==
  \/ \E g \in Guests :
       \/ GuestStops(g)
       \/ RunnerStops(g)
       \/ RunnerHalts(g)
       \/ RunnerStarts(g)
       \/ RunnerPauses(g)
       \/ \E job \in {"stop", "restart", "attach", "start"} : Order(g, job)
       \/ ReadGuest(g)
       \/ DiagnoseClean(g)
       \/ RecordCrash(g)
       \/ RecordRestart(g)
  \/ ApiStops
  \/ ApiStarts
  \/ SomeRound
  \/ Observe
  \/ EndRound
  \/ Tick

\* The steps of the watcher go on as long as the API runs, every call of the
\* runner being bounded by a timeout; and the runner is not out of reach for
\* ever.
Fairness ==
  /\ \A g \in Guests :
       /\ WF_vars(ReadGuest(g))
       /\ WF_vars(DiagnoseClean(g) \/ RecordCrash(g))
       /\ WF_vars(RecordRestart(g))
  /\ WF_vars(Observe)
  /\ WF_vars(EndRound)
  /\ SF_vars(BeginRound(Guests))

Spec == Init /\ [][Next]_vars
LiveSpec == Spec /\ Fairness

-------------------------------------------------------------------------------
(* Properties *)

\* However the API stops, times out or lags, the watcher never orders more than
\* MaxAttempts starts of a guest within one window, not counting those an API
\* stop cut between the order and its row (countRecentRestarts counts rows,
\* which are written after the start they tell of).
RestartsAreBounded == \A g \in Guests : Cardinality(InWindow(started[g])) <= MaxAttempts

\* One stop is written down once: a second crash row takes a second reading
\* that says running (tick replaces its reference states before it diagnoses).
OncePerStop == \A g \in Guests : logged[g] <= 1

\* A crash of a guest the last round saw running, and which nobody has ordered
\* to stop, ends up in the journal unless the guest is started, the API
\* stops, an order marks the guest or the round finds the container absent or
\* the guest frozen: a round whose call fails keeps the former states.
UnexplainedStop(g) ==
  /\ phase # "off"
  /\ g \in previous
  /\ state[g] = "stopped"
  /\ reason[g] = "crash"
  /\ marks[g] = 0

CrashIsRecorded ==
  \A g \in Guests :
    UnexplainedStop(g) ~> \/ logged[g] > 0
                          \/ state[g] # "stopped"
                          \/ phase = "off"
                          \/ marks[g] > 0
                          \/ heard[g] \in {"absent", "paused"}
===============================================================================
