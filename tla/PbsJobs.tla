------------------------------- MODULE PbsJobs -------------------------------
(***************************************************************************)
(* A daily job of the VDM that backs the guests of all nodes up to a       *)
(* Proxmox Backup Server, one after another.  For each guest the VDM asks  *)
(* the guest's node for a task and polls it until it ends; the node's API  *)
(* runs the task by a call of its runner, which does the work.  VDM, API   *)
(* and runner stop and start on their own: a task outlives the VDM that    *)
(* asked for it, its row in task_history outlives the API, and the work    *)
(* outlives the call.                                                      *)
(*                                                                         *)
(* Of time only the slots matter: an even time is a stretch before the     *)
(* day's slot, an odd one the stretch after it.                            *)
(***************************************************************************)
EXTENDS Naturals, FiniteSets

CONSTANTS
  Node,      \* enabled nodes
  Guest,     \* guests the job covers
  Home,      \* the node of each guest
  Container, \* those of them that are containers; the others are machines
  Selected,  \* the guests it names; the others come from the nodes' listings
  Task,      \* node tasks, by the order they are made in
  Run,       \* runs of the job, by the order they begin in
  Days,      \* the days it is planned on
  MaxTime,   \* bound: the model stops the clock here
  NoGuest,   \* a run between two guests
  NoTask,    \* a run without a node task
  NoRun      \* a task asked for by somebody else

ASSUME PbsAssumption ==
  /\ Home \in [Guest -> Node]
  /\ Container \subseteq Guest /\ Selected \subseteq Guest
  /\ Task \subseteq Nat /\ Run \subseteq Nat
  /\ Days \subseteq Nat /\ MaxTime \in Nat
  /\ NoGuest \notin Guest /\ NoTask \notin Task /\ NoRun \notin Run

VARIABLES
  time,     \* which slots have passed
  vdmUp,    \* the VDM is running
  busy,     \* vdmPbsJobsRunning has the job
  job,      \* the job's row: the time of its last run, its last status
  step,     \* how far each run is
  run,      \* the guests of each run: wanted, still to do, failed; nodes skipped
  cur,      \* the guest each run is at
  follow,   \* the node task it has asked for
  apiUp,    \* the API of each node is running
  row,      \* the tasks, as backgroundTasks and task_history have them
  guest,    \* the guest of each task
  poster,   \* the run that asked for each task
  inFlight, \* pbsBackupsInFlight of the APIs
  call,     \* tasks whose API waits for the runner
  work,     \* what the runner does for each task
  began,    \* history: when each run began
  unlisted  \* history: what each run misses on nodes it has not skipped

jobVars == <<busy, job>>
runVars == <<step, run, cur, follow, began, unlisted>>
vdmVars == <<vdmUp, jobVars, runVars>>
taskVars == <<row, guest, poster, inFlight, call, work>>
nodeVars == <<apiUp, taskVars>>
vars == <<time, vdmVars, nodeVars>>

-----------------------------------------------------------------------------
Active == {"listing", "next", "post", "following"}
JobStatus == {"never", "running", "ok", "partial", "failed"}
Targets == [wanted : SUBSET Guest, todo : SUBSET Guest,
            failed : SUBSET Guest, skipped : SUBSET Node]

TypeOK ==
  /\ time \in 0 .. MaxTime
  /\ vdmUp \in BOOLEAN /\ busy \in BOOLEAN
  /\ job \in [ran : 0 .. MaxTime, status : JobStatus]
  /\ step \in [Run -> Active \cup {"idle", "ended", "lost"}]
  /\ run \in [Run -> Targets]
  /\ cur \in [Run -> Guest \cup {NoGuest}]
  /\ follow \in [Run -> Task \cup {NoTask}]
  /\ apiUp \in [Node -> BOOLEAN]
  /\ row \in [Task -> {"none", "running", "completed", "failed"}]
  /\ guest \in [Task -> Guest \cup {NoGuest}]
  /\ poster \in [Task -> Run \cup {NoRun}]
  /\ inFlight \subseteq Guest
  /\ call \subseteq Task
  /\ work \in [Task -> {"none", "working", "done", "broken"}]
  /\ began \in [Run -> 0 .. MaxTime]
  /\ unlisted \in [Run -> SUBSET Guest]

Nothing == [wanted |-> {}, todo |-> {}, failed |-> {}, skipped |-> {}]

Init ==
  /\ time = 0
  /\ vdmUp = TRUE /\ busy = FALSE
  /\ job = [ran |-> 0, status |-> "never"]
  /\ step = [r \in Run |-> "idle"]
  /\ run = [r \in Run |-> Nothing]
  /\ cur = [r \in Run |-> NoGuest]
  /\ follow = [r \in Run |-> NoTask]
  /\ apiUp = [n \in Node |-> TRUE]
  /\ row = [t \in Task |-> "none"]
  /\ guest = [t \in Task |-> NoGuest]
  /\ poster = [t \in Task |-> NoRun]
  /\ inFlight = {} /\ call = {}
  /\ work = [t \in Task |-> "none"]
  /\ began = [r \in Run |-> 0]
  /\ unlisted = [r \in Run |-> {}]

-----------------------------------------------------------------------------
(* The node: a task of its API and the runner's work for it.                *)
On(n, t) == guest[t] \in Guest /\ Home[guest[t]] = n

Bug_NotRefused(t, g) ==
  /\ row' = [row EXCEPT ![t] = "running"]
  /\ inFlight' = inFlight \cup {g}
  /\ call' = call \cup {t}
  /\ work' = [work EXCEPT ![t] = "working"]

(* A second backup of a guest is refused, and its refusal leaves the first *)
(* one's mark alone.                                                       *)
Execute(t, g) ==
  \/ /\ g \in inFlight
     /\ row' = [row EXCEPT ![t] = "failed"]
     /\ UNCHANGED <<inFlight, call, work>>
  \/ /\ g \notin inFlight
     /\ row' = [row EXCEPT ![t] = "running"]
     /\ inFlight' = inFlight \cup {g}
     /\ call' = call \cup {t}
     /\ work' = [work EXCEPT ![t] = "working"]

(* startPbsGuestBackup: the id is new in the history of the node. *)
StartGuestBackup(t, g, by) ==
  /\ apiUp[Home[g]]
  /\ guest[t] = NoGuest /\ \A u \in Task : u < t => guest[u] # NoGuest
  /\ guest' = [guest EXCEPT ![t] = g]
  /\ poster' = [poster EXCEPT ![t] = by]
  /\ Execute(t, g)

(* The node's panel or its own jobs, or a request of the VDM that arrives  *)
(* late or whose answer is lost.                                           *)
LocalBackup(t, g) ==
  /\ StartGuestBackup(t, g, NoRun)
  /\ UNCHANGED <<apiUp, time, vdmVars>>

RunnerEnds(t, end) ==
  /\ work[t] = "working"
  /\ work' = [work EXCEPT ![t] = end]
  /\ UNCHANGED <<row, guest, poster, inFlight, call, apiUp, time, vdmVars>>

RunnerStores(t) == RunnerEnds(t, "done")
RunnerFails(t) == RunnerEnds(t, "broken")

RunnerRestarts(n) ==
  /\ \E t \in Task : On(n, t) /\ work[t] = "working"
  /\ work' = [t \in Task |-> IF On(n, t) /\ work[t] = "working" THEN "broken" ELSE work[t]]
  /\ UNCHANGED <<row, guest, poster, inFlight, call, apiUp, time, vdmVars>>

Settle(t, status) ==
  /\ row' = [row EXCEPT ![t] = status]
  /\ call' = call \ {t}
  /\ inFlight' = inFlight \ {guest[t]}
  /\ UNCHANGED <<guest, poster, work>>

(* The runner's answer, or the end of its socket.                          *)
CallReturns(t) ==
  /\ t \in call /\ work[t] \in {"done", "broken"}
  /\ Settle(t, IF work[t] = "done" THEN "completed" ELSE "failed")
  /\ UNCHANGED <<apiUp, time, vdmVars>>

(* The API gives up after BACKUP_TIMEOUT_MS; the runner knows nothing of   *)
(* it and goes on.                                                         *)
CallTimesOut(t) ==
  /\ t \in call
  /\ Settle(t, "failed")
  /\ UNCHANGED <<apiUp, time, vdmVars>>

(* An API that stops forgets its tasks and marks; the rows stay as they    *)
(* are and nothing settles them when it starts.                            *)
ApiStops(n) ==
  /\ apiUp[n]
  /\ apiUp' = [apiUp EXCEPT ![n] = FALSE]
  /\ call' = {t \in call : ~On(n, t)}
  /\ inFlight' = {g \in inFlight : Home[g] # n}
  /\ UNCHANGED <<row, guest, poster, work, time, vdmVars>>

ApiStarts(n) ==
  /\ ~apiUp[n]
  /\ apiUp' = [apiUp EXCEPT ![n] = TRUE]
  /\ UNCHANGED <<taskVars, time, vdmVars>>

-----------------------------------------------------------------------------
(* The job's row and its schedule.                                          *)
IsSlot(d) == d % 2 = 1 /\ d \div 2 \in Days
IsDue == IsSlot(time) /\ job.ran < time

Bug_MayRun == TRUE
MayRun == ~busy

Bug_NextSlot(j) == [j EXCEPT !.ran = time + 2, !.status = "running"]
Started(j) == [j EXCEPT !.ran = time, !.status = "running"]

Bug_RunAgain(j) == IF j.status = "running" THEN [j EXCEPT !.status = "failed", !.ran = 0] ELSE j

(* The statement at the start of the VDM. *)
Interrupted(j) == IF j.status = "running" THEN [j EXCEPT !.status = "failed"] ELSE j

Bug_IgnoreSkipped(w) ==
  CASE w.failed = w.wanted -> "failed"
    [] w.failed # w.wanted /\ w.failed # {} -> "partial"
    [] OTHER -> "ok"

Summary(w) ==
  CASE w.failed = w.wanted -> "failed"
    [] w.failed # w.wanted /\ (w.failed # {} \/ w.skipped # {}) -> "partial"
    [] OTHER -> "ok"

Begin(r) ==
  /\ vdmUp /\ MayRun
  /\ step[r] = "idle" /\ \A q \in Run : q < r => step[q] # "idle"
  /\ busy' = TRUE
  /\ job' = Started(job)
  /\ step' = [step EXCEPT ![r] = "listing"]
  /\ began' = [began EXCEPT ![r] = time]
  /\ UNCHANGED <<run, cur, follow, unlisted, vdmUp, time, nodeVars>>

(* The tick of the scheduler, and the route of the panel. *)
SchedulerTick(r) == IsDue /\ Begin(r)
RunNow(r) == Begin(r)

-----------------------------------------------------------------------------
(* A run: listing, then one guest after another.                            *)
At(r, s) == vdmUp /\ step[r] = s
Goto(r, s) == step' = [step EXCEPT ![r] = s]

(* What the nodes answer: each is asked for its machines and for its       *)
(* containers.  A node that is offline or fails one of the two requests is *)
(* skipped, but what it has answered before is kept; a runner whose lxc-ls *)
(* fails answers that there are no containers.                             *)
Kind(g) == <<Home[g], g \in Container>>

Answered(skipped, listed) ==
  /\ {n \in Node : ~apiUp[n]} \subseteq skipped
  /\ \A g \in listed : apiUp[Home[g]]
  /\ \A g, h \in Guest : Kind(g) = Kind(h) => (g \in listed <=> h \in listed)
  /\ \A g \in Guest \ Container : g \in listed \/ Home[g] \in skipped

List(r) ==
  /\ At(r, "listing")
  /\ \E S \in SUBSET Node, L \in SUBSET Guest :
       /\ Answered(S, L)
       /\ LET W == Selected \cup L
          IN /\ run' = [run EXCEPT ![r] =
                          [wanted |-> W, todo |-> W, failed |-> {}, skipped |-> S]]
             /\ unlisted' = [unlisted EXCEPT ![r] = {g \in Guest \ W : Home[g] \notin S}]
  /\ Goto(r, "next")
  /\ UNCHANGED <<cur, follow, began, jobVars, vdmUp, time, nodeVars>>

Take(r) ==
  /\ At(r, "next")
  /\ \E g \in run[r].todo :
       /\ cur' = [cur EXCEPT ![r] = g]
       /\ run' = [run EXCEPT ![r].todo = @ \ {g}]
  /\ Goto(r, "post")
  /\ UNCHANGED <<follow, began, unlisted, jobVars, vdmUp, time, nodeVars>>

(* The guest is over, with or without a snapshot. *)
Over(r, F) ==
  /\ run' = [run EXCEPT ![r].failed = @ \cup F]
  /\ cur' = [cur EXCEPT ![r] = NoGuest]
  /\ follow' = [follow EXCEPT ![r] = NoTask]
  /\ Goto(r, "next")
  /\ UNCHANGED <<began, unlisted, jobVars, vdmUp, time, nodeVars>>

NodeAccepts(r, t) ==
  /\ At(r, "post")
  /\ StartGuestBackup(t, cur[r], r)
  /\ follow' = [follow EXCEPT ![r] = t]
  /\ Goto(r, "following")
  /\ UNCHANGED <<run, cur, began, unlisted, jobVars, vdmUp, time, apiUp>>

(* No such node, another task of the VDM has the guest, no client on the   *)
(* node, the request or its answer is lost or late.                        *)
PostFails(r) == At(r, "post") /\ Over(r, {cur[r]})

(* followNodePbsTask: the poll that ends it.  A task that runs, or a node  *)
(* that does not answer, is polled again ...                               *)
PollEnds(r) ==
  /\ At(r, "following") /\ apiUp[Home[cur[r]]]
  /\ \/ row[follow[r]] = "completed" /\ Over(r, {})
     \/ row[follow[r]] \in {"failed", "none"} /\ Over(r, {cur[r]})

(* ... until PBS_POLL_GRACE_MS of silence or PBS_TASK_TIMEOUT_MS in all    *)
(* have passed.                                                            *)
Bug_NeverGivesUp(r) == At(r, "following") /\ ~apiUp[Home[cur[r]]] /\ Over(r, {cur[r]})
GivesUp(r) == At(r, "following") /\ Over(r, {cur[r]})

Finish(r, status) ==
  /\ job' = [job EXCEPT !.status = status]
  /\ busy' = FALSE
  /\ Goto(r, "ended")
  /\ run' = [run EXCEPT ![r] = Nothing]
  /\ UNCHANGED <<cur, follow, began, unlisted, vdmUp, time, nodeVars>>

Summarize(r) == At(r, "next") /\ run[r].todo = {} /\ Finish(r, Summary(run[r]))

(* The remote is gone, or its secret cannot be read. *)
RunThrows(r) == At(r, "listing") /\ Finish(r, "failed")

VdmStops ==
  /\ vdmUp
  /\ vdmUp' = FALSE
  /\ busy' = FALSE
  /\ step' = [r \in Run |-> IF step[r] \in Active THEN "lost" ELSE step[r]]
  /\ run' = [r \in Run |-> Nothing]
  /\ cur' = [r \in Run |-> NoGuest]
  /\ follow' = [r \in Run |-> NoTask]
  /\ UNCHANGED <<job, began, unlisted, time, nodeVars>>

VdmStarts ==
  /\ ~vdmUp
  /\ vdmUp' = TRUE
  /\ job' = Interrupted(job)
  /\ UNCHANGED <<busy, runVars, time, nodeVars>>

TimePasses ==
  /\ time < MaxTime
  /\ time' = time + 1
  /\ UNCHANGED <<vdmVars, nodeVars>>

-----------------------------------------------------------------------------
Progress(r) ==
  \/ List(r) \/ Take(r) \/ PostFails(r) \/ PollEnds(r) \/ GivesUp(r)
  \/ Summarize(r) \/ RunThrows(r)
Runs(r) ==
  \/ SchedulerTick(r) \/ RunNow(r)
  \/ Progress(r) \/ \E t \in Task : NodeAccepts(r, t)
Runner(t) == RunnerStores(t) \/ RunnerFails(t)
Api(t) == CallReturns(t) \/ CallTimesOut(t)
Machine(n) == RunnerRestarts(n) \/ ApiStops(n) \/ ApiStarts(n)

Next ==
  \/ \E r \in Run : Runs(r)
  \/ \E t \in Task : Runner(t) \/ Api(t) \/ \E g \in Guest : LocalBackup(t, g)
  \/ \E n \in Node : Machine(n)
  \/ VdmStops \/ VdmStarts \/ TimePasses

Spec == Init /\ [][Next]_vars

(* The VDM's process goes on and is started again, its timers fire and its *)
(* requests end.  Nothing is asked of the nodes.                           *)
FairSpec ==
  /\ Spec
  /\ \A r \in Run : WF_vars(Progress(r))
  /\ WF_vars(\E r \in Run : SchedulerTick(r))
  /\ WF_vars(VdmStarts)

-----------------------------------------------------------------------------
InProgress == {r \in Run : step[r] \in Active}

Bought(r, g) == \E t \in Task : poster[t] = r /\ guest[t] = g /\ work[t] = "done"

Last(r) == step[r] # "idle" /\ \A q \in Run : step[q] # "idle" => q <= r

(* A job that says ok has put a snapshot of every guest it covers on the    *)
(* backup server, each in a task its last run asked for: whatever was       *)
(* skipped, refused, lost, given up or restarted on the way would show.     *)
(* Excused are the containers of a node whose lxc-ls failed: the job does   *)
(* not hear of it (listContainers) and says ok without them.                *)
OkMeansStored ==
  job.status = "ok" =>
    \E r \in Run : /\ Last(r) /\ step[r] = "ended"
                   /\ \A g \in Guest \ unlisted[r] : Bought(r, g)

(* The node runs no two calls for one guest, however many are asked for.    *)
OneBackupPerGuest ==
  \A t, u \in call : guest[t] = guest[u] => t = u

(* No two runs of a job are in progress at once, also when the VDM stops    *)
(* in the middle of one.  What a run has given up may go on beside it.      *)
RunsAlone ==
  \A r, q \in InProgress : r = q

(* The scheduler starts a job once a slot, and not if somebody has run it   *)
(* after the slot, also when the VDM was stopped in the middle of the run.  *)
OncePerSlot ==
  [][\A r \in Run : SchedulerTick(r) =>
       \A q \in Run : step[q] # "idle" => began[q] < time]_vars

(* A slot that is due, because the VDM was busy or down when it came, is    *)
(* served while it lasts, by a VDM that does not stop again and again:      *)
(* whatever becomes of the nodes, the run before it ends (runVdmPbsJob).     *)
SlotIsServed ==
  <>[]vdmUp => (IsDue ~> ~IsDue \/ \A r \in Run : step[r] # "idle")
=============================================================================
