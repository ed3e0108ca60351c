--------------------------- MODULE PbsJobs_proofs ---------------------------
(***************************************************************************)
(* What a job's status, its schedule and the node's mark for a backup are  *)
(* worth, for any number of nodes, guests, tasks and runs.                 *)
(***************************************************************************)
EXTENDS PbsJobs, TLAPS

USE DEF JobStatus, Targets, Active, Nothing

-----------------------------------------------------------------------------
\* Where a run has its guest and its task.
Stages ==
  \A r \in Run :
    /\ step[r] \in {"post", "following"} => cur[r] \in Guest
    /\ step[r] = "following" => follow[r] \in Task

TypeInv == TypeOK /\ Stages

\* The values of run.
LEMMA TargetsUpdate ==
  /\ Nothing \in Targets
  /\ \A w \in Targets, S \in SUBSET Guest :
       /\ [w EXCEPT !.todo = w.todo \ S] \in Targets
       /\ [w EXCEPT !.failed = w.failed \cup S] \in Targets
  OBVIOUS

LEMMA TypeInit == Init => TypeInv
<1> SUFFICES ASSUME Init PROVE TypeInv
  OBVIOUS
<1>1. run \in [Run -> Targets]
  BY TargetsUpdate DEF Init
<1>2. job \in [ran : 0 .. MaxTime, status : JobStatus] /\ time \in 0 .. MaxTime
  BY PbsAssumption DEF Init
<1>3. began \in [Run -> 0 .. MaxTime]
  BY PbsAssumption DEF Init
<1>4. QED
  BY <1>1, <1>2, <1>3 DEF Init, TypeInv, TypeOK, Stages

\* A new task of a node, or its refusal.
LEMMA TypeStart ==
  ASSUME TypeInv, NEW t \in Task, NEW g \in Guest, NEW by \in Run \cup {NoRun},
         StartGuestBackup(t, g, by)
  PROVE /\ row' \in [Task -> {"none", "running", "completed", "failed"}]
        /\ guest' \in [Task -> Guest \cup {NoGuest}]
        /\ poster' \in [Task -> Run \cup {NoRun}]
        /\ inFlight' \subseteq Guest
        /\ call' \subseteq Task
        /\ work' \in [Task -> {"none", "working", "done", "broken"}]
  BY DEF TypeInv, TypeOK, StartGuestBackup, Execute

\* A guest of a run that is over, in whatever way.
LEMMA TypeOver ==
  ASSUME TypeInv, NEW r \in Run, NEW F \in SUBSET Guest, Over(r, F)
  PROVE TypeInv'
<1> USE DEF TypeInv, TypeOK, Stages, Over, Goto, jobVars, nodeVars, taskVars
<1>1. run' \in [Run -> Targets]
  <2>1. [run[r] EXCEPT !.failed = run[r].failed \cup F] \in Targets
    BY TargetsUpdate
  <2>2. run' = [run EXCEPT ![r] = [run[r] EXCEPT !.failed = run[r].failed \cup F]]
    OBVIOUS
  <2>3. QED
    BY <2>1, <2>2
<1>2. step' \in [Run -> Active \cup {"idle", "ended", "lost"}]
  OBVIOUS
<1>3. cur' \in [Run -> Guest \cup {NoGuest}] /\ follow' \in [Run -> Task \cup {NoTask}]
  OBVIOUS
<1>4. Stages'
  OBVIOUS
<1>5. QED
  BY <1>1, <1>2, <1>3, <1>4

LEMMA TypeStep == TypeInv /\ [Next]_vars => TypeInv'
<1> SUFFICES ASSUME TypeInv, [Next]_vars PROVE TypeInv'
  OBVIOUS
<1> USE DEF jobVars, runVars, vdmVars, taskVars, nodeVars
<1>1. ASSUME NEW r \in Run, Begin(r) PROVE TypeInv'
  BY <1>1 DEF Begin, Started, TypeInv, TypeOK, Stages
<1>2. ASSUME NEW r \in Run, List(r) PROVE TypeInv'
  <2>1. run' \in [Run -> Targets] /\ unlisted' \in [Run -> SUBSET Guest]
    BY <1>2, PbsAssumption DEF List, TypeInv, TypeOK
  <2>2. QED
    BY <1>2, <2>1 DEF List, Goto, TypeInv, TypeOK, Stages
<1>3. ASSUME NEW r \in Run, Take(r) PROVE TypeInv'
  <2>1. PICK g \in run[r].todo : /\ cur' = [cur EXCEPT ![r] = g]
                                 /\ run' = [run EXCEPT ![r].todo = @ \ {g}]
    BY <1>3 DEF Take
  <2>2. g \in Guest
    BY <2>1 DEF TypeInv, TypeOK
  <2>3. run' \in [Run -> Targets]
    <3>1. [run[r] EXCEPT !.todo = run[r].todo \ {g}] \in Targets
      BY <2>2, TargetsUpdate DEF TypeInv, TypeOK
    <3>2. run' = [run EXCEPT ![r] = [run[r] EXCEPT !.todo = run[r].todo \ {g}]]
      BY <2>1
    <3>3. QED
      BY <3>1, <3>2 DEF TypeInv, TypeOK
  <2>4. QED
    BY <1>3, <2>1, <2>2, <2>3 DEF Take, Goto, TypeInv, TypeOK, Stages
<1>4. ASSUME NEW r \in Run, PostFails(r) \/ PollEnds(r) \/ GivesUp(r) PROVE TypeInv'
  <2>1. cur[r] \in Guest
    BY <1>4 DEF PostFails, PollEnds, GivesUp, At, TypeInv, Stages
  <2>2. Over(r, {}) \/ Over(r, {cur[r]})
    BY <1>4 DEF PostFails, PollEnds, GivesUp
  <2>3. QED
    BY <2>1, <2>2, TypeOver
<1>5. ASSUME NEW r \in Run, NEW t \in Task, NodeAccepts(r, t) PROVE TypeInv'
  <2>1. cur[r] \in Guest
    BY <1>5 DEF NodeAccepts, At, TypeInv, Stages
  <2>2. StartGuestBackup(t, cur[r], r)
    BY <1>5 DEF NodeAccepts
  <2>3. /\ row' \in [Task -> {"none", "running", "completed", "failed"}]
        /\ guest' \in [Task -> Guest \cup {NoGuest}]
        /\ poster' \in [Task -> Run \cup {NoRun}]
        /\ inFlight' \subseteq Guest
        /\ call' \subseteq Task
        /\ work' \in [Task -> {"none", "working", "done", "broken"}]
    BY <2>1, <2>2, TypeStart
  <2>4. QED
    BY <1>5, <2>1, <2>3 DEF NodeAccepts, Goto, TypeInv, TypeOK, Stages
<1>6. ASSUME NEW r \in Run, NEW s \in JobStatus, Finish(r, s) PROVE TypeInv'
  BY <1>6 DEF Finish, Goto, TypeInv, TypeOK, Stages
<1>7. ASSUME NEW r \in Run, Summarize(r) \/ RunThrows(r) PROVE TypeInv'
  BY <1>6, <1>7 DEF Summarize, RunThrows, Summary
<1>8. ASSUME NEW t \in Task, NEW g \in Guest, LocalBackup(t, g) PROVE TypeInv'
  <2>1. StartGuestBackup(t, g, NoRun)
    BY <1>8 DEF LocalBackup
  <2>2. QED
    BY <1>8, <2>1, TypeStart DEF LocalBackup, TypeInv, TypeOK, Stages
<1>9. ASSUME NEW t \in Task, Runner(t) PROVE TypeInv'
  BY <1>9 DEF Runner, RunnerStores, RunnerFails, RunnerEnds, TypeInv, TypeOK, Stages
<1>10. ASSUME NEW t \in Task, Api(t) PROVE TypeInv'
  BY <1>10 DEF Api, CallReturns, CallTimesOut, Settle, TypeInv, TypeOK, Stages
<1>11. ASSUME NEW n \in Node, Machine(n) PROVE TypeInv'
  <2>1. CASE RunnerRestarts(n)
    BY <2>1 DEF RunnerRestarts, TypeInv, TypeOK, Stages
  <2>2. CASE ApiStops(n) \/ ApiStarts(n)
    BY <2>2 DEF ApiStops, ApiStarts, TypeInv, TypeOK, Stages
  <2>3. QED
    BY <1>11, <2>1, <2>2 DEF Machine
<1>12. ASSUME VdmStops PROVE TypeInv'
  <2>1. run' \in [Run -> Targets]
    BY <1>12, TargetsUpdate DEF VdmStops
  <2>2. step' \in [Run -> Active \cup {"idle", "ended", "lost"}]
    BY <1>12 DEF VdmStops, TypeInv, TypeOK
  <2>3. \A r \in Run : step'[r] \notin {"post", "following"}
    BY <1>12 DEF VdmStops, TypeInv, TypeOK
  <2>4. QED
    BY <1>12, <2>1, <2>2, <2>3 DEF VdmStops, TypeInv, TypeOK, Stages
<1>13. ASSUME VdmStarts PROVE TypeInv'
  <2>1. job' \in [ran : 0 .. MaxTime, status : JobStatus]
    BY <1>13 DEF VdmStarts, Interrupted, TypeInv, TypeOK
  <2>2. QED
    BY <1>13, <2>1 DEF VdmStarts, TypeInv, TypeOK, Stages
<1>14. ASSUME TimePasses PROVE TypeInv'
  BY <1>14, PbsAssumption DEF TimePasses, TypeInv, TypeOK, Stages
<1>15. ASSUME UNCHANGED vars PROVE TypeInv'
  BY <1>15 DEF vars, TypeInv, TypeOK, Stages
<1>16. QED
  BY <1>1, <1>2, <1>3, <1>4, <1>5, <1>7, <1>8, <1>9, <1>10, <1>11, <1>12, <1>13, <1>14, <1>15
  DEF Next, Runs, SchedulerTick, RunNow, Progress

\* The types of all variables, TypeOK.
THEOREM TypeCorrect == Spec => []TypeOK
<1>1. TypeInv => TypeOK
  BY DEF TypeInv
<1>2. QED
  BY <1>1, TypeInit, TypeStep, PTL DEF Spec

-----------------------------------------------------------------------------
\* The runs one after another: the mark of a run is in memory as long as it
\* goes on, which is the last one begun, and the row has its time.
TurnInv ==
  /\ TypeInv
  /\ \A r \in InProgress : busy /\ vdmUp
  /\ RunsAlone
  /\ \A q, r \in Run : q < r /\ step[r] # "idle" => step[q] # "idle"
  /\ \A r \in InProgress : Last(r)
  /\ job.ran <= time
  /\ \A r \in Run : step[r] # "idle" => began[r] <= job.ran

LEMMA TurnInit == Init => TurnInv
  BY TypeInit, PbsAssumption DEF Init, TurnInv, InProgress, RunsAlone, Last

LEMMA TurnStep == TurnInv /\ [Next]_vars => TurnInv'
<1> SUFFICES ASSUME TurnInv, [Next]_vars PROVE TurnInv'
  OBVIOUS
<1>a. TypeInv'
  BY TypeStep DEF TurnInv
<1>b. TypeOK
  BY DEF TurnInv, TypeInv
<1> USE DEF TurnInv, InProgress, RunsAlone, Last, jobVars, runVars, vdmVars, taskVars, nodeVars
\* A step within a run.
<1>1. ASSUME NEW r \in InProgress, NEW s \in Active, Goto(r, s),
             UNCHANGED <<busy, job, vdmUp, time, began>>
      PROVE TurnInv'
  BY <1>1, <1>a, <1>b DEF Goto, TypeOK
\* A step of somebody else.
<1>2. ASSUME UNCHANGED <<vdmVars, time>> PROVE TurnInv'
  BY <1>2, <1>a
<1>3. ASSUME NEW r \in Run, Begin(r) PROVE TurnInv'
  <2>1. /\ InProgress = {} /\ step[r] = "idle" /\ \A q \in Run : q < r => step[q] # "idle"
        /\ busy' /\ vdmUp'
        /\ step' = [step EXCEPT ![r] = "listing"] /\ step'[r] = "listing"
        /\ \A q \in Run \ {r} : step'[q] = step[q]
        /\ job'.ran = time /\ time' = time
        /\ began' = [began EXCEPT ![r] = time]
    BY <1>3, <1>b DEF Begin, MayRun, Started, TypeOK
  <2>2. \A q \in Run : step'[q] # "idle" => q <= r
    BY <2>1, PbsAssumption
  <2>3. InProgress' = {r}
    BY <2>1
  <2>4. RunsAlone' /\ \A q \in InProgress' : busy' /\ vdmUp' /\ Last(q)'
    BY <2>1, <2>2, <2>3
  <2>5. \A q, p \in Run : q < p /\ step'[p] # "idle" => step'[q] # "idle"
    BY <2>1, PbsAssumption
  <2>6. job'.ran <= time' /\ \A q \in Run : step'[q] # "idle" => began'[q] <= job'.ran
    BY <2>1, <1>b, PbsAssumption DEF TypeOK
  <2>7. QED
    BY <2>4, <2>5, <2>6, <1>a
<1>4. ASSUME NEW r \in Run, List(r) \/ Take(r) PROVE TurnInv'
  BY <1>1, <1>4 DEF List, Take, At
<1>5. ASSUME NEW r \in Run, PostFails(r) \/ PollEnds(r) \/ GivesUp(r) PROVE TurnInv'
  BY <1>1, <1>5 DEF PostFails, PollEnds, GivesUp, At, Over
<1>6. ASSUME NEW r \in Run, NEW t \in Task, NodeAccepts(r, t) PROVE TurnInv'
  BY <1>1, <1>6 DEF NodeAccepts, At
<1>7. ASSUME NEW r \in InProgress, NEW s, Finish(r, s) PROVE TurnInv'
  <2>1. \A q \in Run : step'[q] \notin Active /\ (step'[q] # "idle" <=> step[q] # "idle")
    BY <1>7, <1>b DEF Finish, Goto, TypeOK
  <2>2. job'.ran = job.ran /\ UNCHANGED <<time, began>>
    BY <1>7, <1>b DEF Finish, TypeOK
  <2>3. QED
    BY <2>1, <2>2, <1>a
<1>8. ASSUME NEW r \in Run, Summarize(r) \/ RunThrows(r) PROVE TurnInv'
  BY <1>7, <1>8 DEF Summarize, RunThrows, At
<1>9. ASSUME NEW t \in Task, NEW g \in Guest, LocalBackup(t, g) PROVE TurnInv'
  BY <1>2, <1>9 DEF LocalBackup
<1>10. ASSUME NEW t \in Task, Runner(t) \/ Api(t) PROVE TurnInv'
  BY <1>2, <1>10 DEF Runner, RunnerStores, RunnerFails, RunnerEnds, Api, CallReturns, CallTimesOut
<1>11. ASSUME NEW n \in Node, Machine(n) PROVE TurnInv'
  BY <1>2, <1>11 DEF Machine, RunnerRestarts, ApiStops, ApiStarts
<1>12. ASSUME VdmStops PROVE TurnInv'
  BY <1>12, <1>a, <1>b DEF VdmStops, TypeOK
<1>13. ASSUME VdmStarts PROVE TurnInv'
  BY <1>13, <1>a, <1>b DEF VdmStarts, Interrupted, TypeOK
<1>14. ASSUME TimePasses PROVE TurnInv'
  BY <1>14, <1>a, <1>b, PbsAssumption DEF TimePasses, TypeOK
<1>15. ASSUME UNCHANGED vars PROVE TurnInv'
  BY <1>2, <1>15 DEF vars
<1>16. QED
  BY <1>3, <1>4, <1>5, <1>6, <1>8, <1>9, <1>10, <1>11, <1>12, <1>13, <1>14, <1>15
  DEF Next, Runs, SchedulerTick, RunNow, Progress

\* RunsAlone: a job never runs beside itself.
THEOREM RunsExclude == Spec => []RunsAlone
<1>1. TurnInv => RunsAlone
  BY DEF TurnInv
<1>2. QED
  BY <1>1, TurnInit, TurnStep, PTL DEF Spec

\* OncePerSlot: what the scheduler starts has not run since its slot.
THEOREM SlotsOnce == Spec => OncePerSlot
<1>1. TurnInv /\ [Next]_vars =>
        [\A r \in Run : SchedulerTick(r) =>
           \A q \in Run : step[q] # "idle" => began[q] < time]_vars
  BY DEF TurnInv, TypeInv, TypeOK, SchedulerTick, IsDue
<1>2. QED
  BY <1>1, TurnInit, TurnStep, PTL DEF Spec, OncePerSlot

-----------------------------------------------------------------------------
\* The mark of a backup is there while the API waits for it.
MarkInv ==
  /\ TypeInv
  /\ \A t \in call : guest[t] \in inFlight
  /\ OneBackupPerGuest

LEMMA MarkInit == Init => MarkInv
  BY TypeInit DEF Init, MarkInv, OneBackupPerGuest

LEMMA MarkStart ==
  ASSUME MarkInv, NEW t \in Task, NEW g \in Guest, NEW by, StartGuestBackup(t, g, by),
         TypeInv'
  PROVE MarkInv'
<1> USE DEF MarkInv, TypeInv, TypeOK, OneBackupPerGuest, StartGuestBackup
<1>1. t \notin call
  BY PbsAssumption
<1>2. guest'[t] = g /\ \A u \in Task : u # t => guest'[u] = guest[u]
  OBVIOUS
<1>3. CASE g \in inFlight
  BY <1>1, <1>2, <1>3 DEF Execute
<1>4. CASE g \notin inFlight
  BY <1>1, <1>2, <1>4 DEF Execute
<1>5. QED
  BY <1>3, <1>4

LEMMA MarkStep == MarkInv /\ [Next]_vars => MarkInv'
<1> SUFFICES ASSUME MarkInv, [Next]_vars PROVE MarkInv'
  OBVIOUS
<1>a. TypeInv'
  BY TypeStep DEF MarkInv
<1> USE DEF jobVars, runVars, vdmVars, taskVars, nodeVars
<1>1. ASSUME UNCHANGED <<call, guest, inFlight>> PROVE MarkInv'
  BY <1>1, <1>a DEF MarkInv, OneBackupPerGuest
<1>2. ASSUME NEW r \in Run, Runs(r) PROVE MarkInv'
  <2>1. ASSUME NEW t \in Task, NodeAccepts(r, t) PROVE MarkInv'
    <3>1. cur[r] \in Guest /\ StartGuestBackup(t, cur[r], r)
      BY <2>1 DEF NodeAccepts, At, MarkInv, TypeInv, Stages
    <3>2. QED
      BY <3>1, <1>a, MarkStart
  <2>2. ASSUME ~\E t \in Task : NodeAccepts(r, t) PROVE UNCHANGED <<call, guest, inFlight>>
    BY <1>2, <2>2
    DEF Runs, SchedulerTick, RunNow, Begin, Progress, List, Take, PostFails, PollEnds,
        GivesUp, Over, Summarize, RunThrows, Finish
  <2>3. QED
    BY <1>1, <2>1, <2>2
<1>3. ASSUME NEW t \in Task, NEW g \in Guest, LocalBackup(t, g) PROVE MarkInv'
  BY <1>3, <1>a, MarkStart DEF LocalBackup
<1>4. ASSUME NEW t \in Task, Runner(t) PROVE MarkInv'
  BY <1>1, <1>4 DEF Runner, RunnerStores, RunnerFails, RunnerEnds
<1>5. ASSUME NEW t \in call, NEW s, Settle(t, s) PROVE MarkInv'
  BY <1>5, <1>a DEF Settle, MarkInv, OneBackupPerGuest
<1>6. ASSUME NEW t \in Task, Api(t) PROVE MarkInv'
  BY <1>5, <1>6 DEF Api, CallReturns, CallTimesOut
<1>7. ASSUME NEW n \in Node, Machine(n) PROVE MarkInv'
  <2>1. ASSUME ApiStops(n) PROVE MarkInv'
    BY <2>1, <1>a DEF ApiStops, On, MarkInv, TypeInv, TypeOK, OneBackupPerGuest
  <2>2. QED
    BY <1>1, <1>7, <2>1 DEF Machine, RunnerRestarts, ApiStarts
<1>8. ASSUME VdmStops \/ VdmStarts \/ TimePasses \/ UNCHANGED vars PROVE MarkInv'
  BY <1>1, <1>8 DEF VdmStops, VdmStarts, TimePasses, vars
<1>9. QED
  BY <1>2, <1>3, <1>4, <1>6, <1>7, <1>8 DEF Next

\* OneBackupPerGuest: the API never waits for two backups of one guest.
THEOREM BackupsExclude == Spec => []OneBackupPerGuest
<1>1. MarkInv => OneBackupPerGuest
  BY DEF MarkInv
<1>2. QED
  BY <1>1, MarkInit, MarkStep, PTL DEF Spec

-----------------------------------------------------------------------------
\* What a run knows of its guests: those it is through with have a snapshot or
\* are counted as failed, those it does not want are on a node it has skipped,
\* or are containers it was not told of.
Working == {"next", "post", "following"}

Done(r) == run[r].wanted \ (run[r].todo \cup run[r].failed \cup {cur[r]})

Accounts ==
  /\ \A t \in Task : row[t] = "completed" => work[t] = "done"
  /\ \A t \in Task : guest[t] = NoGuest => work[t] = "none"
  /\ \A r \in Run : step[r] = "following" =>
       poster[follow[r]] = r /\ guest[follow[r]] = cur[r]
  /\ \A r \in Run : step[r] \in {"idle", "listing", "next"} => cur[r] = NoGuest
  /\ \A r \in Run : step[r] \in Working =>
       /\ \A g \in Done(r) : Bought(r, g)
       /\ \A g \in Guest \ run[r].wanted : Home[g] \in run[r].skipped \/ g \in unlisted[r]

StatusInv == TurnInv /\ Accounts /\ OkMeansStored

LEMMA StatusInit == Init => StatusInv
  BY TurnInit DEF Init, StatusInv, Accounts, OkMeansStored, Working

\* A task that stored a snapshot stays what it is.
Kept == \A t \in Task : work[t] = "done" =>
          work'[t] = "done" /\ poster'[t] = poster[t] /\ guest'[t] = guest[t]

LEMMA BoughtKept ==
  ASSUME Kept, NEW r \in Run, NEW g \in Guest, Bought(r, g)
  PROVE Bought(r, g)'
  BY DEF Kept, Bought

\* As long as the row does not become "ok", it keeps its reason.
LEMMA OkKept ==
  ASSUME OkMeansStored, Kept, job'.status = "ok" => job.status = "ok",
         \A r \in Run : /\ step'[r] # "idle" <=> step[r] # "idle"
                        /\ step[r] = "ended" => step'[r] = "ended" /\ unlisted'[r] = unlisted[r]
  PROVE OkMeansStored'
<1> SUFFICES ASSUME job'.status = "ok"
             PROVE \E r \in Run : /\ Last(r)' /\ step'[r] = "ended"
                                  /\ \A g \in Guest \ unlisted'[r] : Bought(r, g)'
  BY DEF OkMeansStored
<1>1. PICK r \in Run : /\ Last(r) /\ step[r] = "ended"
                       /\ \A g \in Guest \ unlisted[r] : Bought(r, g)
  BY DEF OkMeansStored
<1>2. step'[r] = "ended" /\ unlisted'[r] = unlisted[r]
  BY <1>1
<1>a. Last(r)'
  <2>1. step'[r] # "idle"
    BY <1>2
  <2>2. \A q \in Run : step'[q] # "idle" => q <= r
    BY <1>1 DEF Last
  <2>3. QED
    BY <2>1, <2>2 DEF Last
<1>3. \A g \in Guest \ unlisted'[r] : Bought(r, g)'
  BY <1>1, <1>2, BoughtKept
<1>4. QED
  BY <1>2, <1>a, <1>3

\* A step of the nodes only.
LEMMA StatusNode ==
  ASSUME StatusInv, TurnInv', Kept, UNCHANGED vdmVars,
         \A t \in Task : row'[t] = "completed" => work'[t] = "done",
         \A t \in Task : guest'[t] = NoGuest => work'[t] = "none",
         \A t \in Task : guest[t] # NoGuest => guest'[t] = guest[t] /\ poster'[t] = poster[t]
  PROVE StatusInv'
<1> USE DEF StatusInv, TurnInv, vdmVars, runVars, jobVars
<1>1. \A r \in Run : step'[r] = "following" =>
        poster'[follow'[r]] = r /\ guest'[follow'[r]] = cur'[r]
  <2> SUFFICES ASSUME NEW r \in Run, step[r] = "following"
               PROVE poster'[follow[r]] = r /\ guest'[follow[r]] = cur[r]
    OBVIOUS
  <2>1. follow[r] \in Task /\ cur[r] \in Guest
    BY DEF TypeInv, Stages
  <2>2. poster[follow[r]] = r /\ guest[follow[r]] = cur[r] /\ cur[r] # NoGuest
    BY <2>1, PbsAssumption DEF Accounts
  <2>3. QED
    BY <2>1, <2>2
<1>2. \A r \in Run : step'[r] \in Working =>
        \A g \in Done(r)' : Bought(r, g)'
  BY BoughtKept DEF Accounts, Done, TypeInv, TypeOK
<1>3. Accounts'
  BY <1>1, <1>2 DEF Accounts, Working
<1>4. OkMeansStored'
  BY OkKept
<1>5. QED
  BY <1>3, <1>4

\* A step of one run that leaves the nodes and the row alone.
LEMMA StatusRun ==
  ASSUME StatusInv, TurnInv', UNCHANGED nodeVars, NEW r \in Run, NEW s \in Active,
         Goto(r, s), step[r] \in Active, job'.status = "ok" => job.status = "ok",
         \A q \in Run \ {r} : /\ run'[q] = run[q] /\ cur'[q] = cur[q]
                              /\ follow'[q] = follow[q] /\ unlisted'[q] = unlisted[q],
         s = "following" => poster[follow'[r]] = r /\ guest[follow'[r]] = cur'[r],
         s \in {"listing", "next"} => cur'[r] = NoGuest,
         s \in Working =>
           /\ \A g \in Done(r)' : Bought(r, g)
           /\ \A g \in Guest \ run'[r].wanted : Home[g] \in run'[r].skipped \/ g \in unlisted'[r]
  PROVE StatusInv'
<1> USE DEF StatusInv, TurnInv, nodeVars, taskVars, Goto
<1>1. step' = [step EXCEPT ![r] = s] /\ step \in [Run -> Active \cup {"idle", "ended", "lost"}]
  BY DEF TypeInv, TypeOK
<1>2. \A q \in Run, g \in Guest : Bought(q, g)' <=> Bought(q, g)
  BY DEF Bought
<1>3. \A g \in Done(r)' : g \in Guest
  BY DEF Done, TypeInv, TypeOK
<1>4. \A q \in Run \ {r} : Done(q)' = Done(q) /\ step'[q] = step[q] /\ Done(q) \subseteq Guest
  BY <1>1 DEF Done, TypeInv, TypeOK
<1>5. Accounts'
  <2>1. \A q \in Run : step'[q] = "following" =>
          poster'[follow'[q]] = q /\ guest'[follow'[q]] = cur'[q]
    BY <1>1, <1>4 DEF Accounts
  <2>2. \A q \in Run : step'[q] \in {"idle", "listing", "next"} => cur'[q] = NoGuest
    BY <1>1, <1>4 DEF Accounts
  <2>3. \A q \in Run : step'[q] \in Working => \A g \in Done(q)' : Bought(q, g)'
    BY <1>1, <1>2, <1>3, <1>4 DEF Accounts
  <2>4. \A q \in Run : step'[q] \in Working =>
          \A g \in Guest \ run'[q].wanted : Home[g] \in run'[q].skipped \/ g \in unlisted'[q]
    BY <1>1, <1>4 DEF Accounts
  <2>5. QED
    BY <2>1, <2>2, <2>3, <2>4 DEF Accounts
<1>6. OkMeansStored'
  <2>1. Kept
    BY DEF Kept
  <2>2. \A q \in Run : /\ step'[q] # "idle" <=> step[q] # "idle"
                       /\ step[q] = "ended" => step'[q] = "ended" /\ unlisted'[q] = unlisted[q]
    BY <1>1
  <2>3. QED
    BY <2>1, <2>2, OkKept
<1>7. QED
  BY <1>5, <1>6

\* A guest of a run is over; unless it failed, its snapshot is there.
LEMMA StatusOver ==
  ASSUME StatusInv, TurnInv', NEW r \in Run, NEW F \in SUBSET Guest, Over(r, F),
         step[r] \in {"post", "following"},
         cur[r] \in F \/ Bought(r, cur[r])
  PROVE StatusInv'
<1> USE DEF StatusInv, TurnInv, TypeInv, TypeOK, Over
<1>1. /\ run'[r].wanted = run[r].wanted /\ run'[r].todo = run[r].todo
      /\ run'[r].failed = run[r].failed \cup F /\ run'[r].skipped = run[r].skipped
      /\ cur'[r] = NoGuest
  OBVIOUS
<1>2. \A g \in Done(r)' : g \in Done(r) \/ (g = cur[r] /\ g \notin F)
  BY <1>1 DEF Done
<1>3. \A g \in Done(r)' : Bought(r, g)
  BY <1>2 DEF Accounts, Working
<1>4. \A g \in Guest \ run'[r].wanted : Home[g] \in run'[r].skipped \/ g \in unlisted'[r]
  BY <1>1 DEF Accounts, Working
<1>5. \A q \in Run \ {r} : run'[q] = run[q] /\ cur'[q] = cur[q] /\ follow'[q] = follow[q]
  OBVIOUS
<1>6. QED
  BY <1>1, <1>3, <1>4, <1>5, StatusRun DEF jobVars

\* The row is "ok" at the end of a run only if nothing was skipped or failed.
LEMMA StatusEnds ==
  ASSUME StatusInv, TurnInv', NEW r \in Run, NEW s \in JobStatus, Finish(r, s),
         step[r] \in Active,
         s = "ok" => \A g \in Guest \ unlisted[r] : Bought(r, g)
  PROVE StatusInv'
<1> USE DEF StatusInv, TurnInv, TypeInv, TypeOK, Finish, Goto, nodeVars, taskVars
<1>1. \A q \in Run, g \in Guest : Bought(q, g)' <=> Bought(q, g)
  BY DEF Bought
<1>2. job'.status = s /\ step'[r] = "ended"
  OBVIOUS
<1>3. \A q \in Run \ {r} : Done(q)' = Done(q) /\ step'[q] = step[q] /\ run'[q] = run[q]
                           /\ Done(q) \subseteq Guest
  BY DEF Done
<1>4. Accounts'
  <2>1. \A q \in Run : step'[q] \in Working => \A g \in Done(q)' : Bought(q, g)'
    BY <1>1, <1>2, <1>3 DEF Accounts, Working
  <2>2. \A q \in Run : step'[q] \in Working =>
          \A g \in Guest \ run'[q].wanted : Home[g] \in run'[q].skipped \/ g \in unlisted'[q]
    BY <1>2, <1>3 DEF Accounts, Working
  <2>3. \A q \in Run : step'[q] \in {"next", "following"} => q # r
    BY <1>2
  <2>4. QED
    BY <1>3, <2>1, <2>2, <2>3 DEF Accounts
<1>5. OkMeansStored'
  <2>1. Last(r)'
    BY <1>2, <1>3 DEF InProgress, Last
  <2>2. QED
    BY <1>1, <1>2, <2>1 DEF OkMeansStored
<1>6. QED
  BY <1>4, <1>5

\* An order to a node: the task is new, so no snapshot changes hands.
LEMMA StartKeeps ==
  ASSUME StatusInv, NEW t \in Task, NEW g \in Guest, NEW by \in Run \cup {NoRun},
         StartGuestBackup(t, g, by)
  PROVE /\ Kept
        /\ \A u \in Task : row'[u] = "completed" => work'[u] = "done"
        /\ \A u \in Task : guest'[u] = NoGuest => work'[u] = "none"
        /\ \A u \in Task \ {t} : guest'[u] = guest[u] /\ poster'[u] = poster[u]
        /\ guest'[t] = g /\ poster'[t] = by /\ guest[t] = NoGuest
<1> USE DEF StatusInv, TurnInv, TypeInv, TypeOK, StartGuestBackup
<1>1. guest'[t] = g /\ poster'[t] = by /\ guest[t] = NoGuest /\ work[t] = "none"
  BY DEF Accounts
<1>2. \A u \in Task \ {t} : /\ guest'[u] = guest[u] /\ poster'[u] = poster[u]
                            /\ row'[u] = row[u] /\ work'[u] = work[u]
  BY DEF Execute
<1>3. row'[t] # "completed"
  BY DEF Execute
<1>4. g # NoGuest
  BY PbsAssumption
<1>5. QED
  BY <1>1, <1>2, <1>3, <1>4 DEF Kept, Accounts

LEMMA StatusAccept ==
  ASSUME StatusInv, TurnInv', NEW r \in Run, NEW t \in Task, NodeAccepts(r, t)
  PROVE StatusInv'
<1> USE DEF StatusInv, TurnInv, NodeAccepts, At, Goto, jobVars
<1>1. cur[r] \in Guest /\ StartGuestBackup(t, cur[r], r) /\ step[r] = "post"
  BY DEF TypeInv, Stages
<1>2. /\ Kept
      /\ \A u \in Task : row'[u] = "completed" => work'[u] = "done"
      /\ \A u \in Task : guest'[u] = NoGuest => work'[u] = "none"
      /\ \A u \in Task \ {t} : guest'[u] = guest[u] /\ poster'[u] = poster[u]
      /\ guest'[t] = cur[r] /\ poster'[t] = r /\ guest[t] = NoGuest
  BY <1>1, StartKeeps
<1>3. /\ step' = [step EXCEPT ![r] = "following"] /\ follow' = [follow EXCEPT ![r] = t]
      /\ UNCHANGED <<run, cur>>
      /\ step \in [Run -> Active \cup {"idle", "ended", "lost"}]
      /\ follow \in [Run -> Task \cup {NoTask}]
  BY DEF TypeInv, TypeOK
<1>4. \A q \in Run : step'[q] = "following" =>
        poster'[follow'[q]] = q /\ guest'[follow'[q]] = cur'[q]
  <2> SUFFICES ASSUME NEW q \in Run, step'[q] = "following"
               PROVE poster'[follow'[q]] = q /\ guest'[follow'[q]] = cur'[q]
    OBVIOUS
  <2>1. CASE q = r
    BY <1>2, <1>3, <2>1
  <2>2. CASE q # r
    <3>1. step[q] = "following" /\ follow'[q] = follow[q]
      BY <1>3, <2>2
    <3>2. follow[q] \in Task /\ poster[follow[q]] = q /\ guest[follow[q]] = cur[q]
      BY <3>1 DEF TypeInv, Stages, Accounts
    <3>3. cur[q] # NoGuest
      BY <3>1, PbsAssumption DEF TypeInv, Stages
    <3>4. QED
      BY <1>2, <1>3, <3>1, <3>2, <3>3
  <2>3. QED
    BY <2>1, <2>2
<1>5. \A q \in Run : step'[q] \in Working => step[q] \in Working
  BY <1>1, <1>3 DEF Working
<1>6. \A q \in Run : Done(q)' = Done(q) /\ Done(q) \subseteq Guest
  BY <1>3 DEF Done, TypeInv, TypeOK
<1>7. \A q \in Run : step'[q] \in Working => \A g \in Done(q)' : Bought(q, g)'
  BY <1>2, <1>5, <1>6, BoughtKept DEF Accounts
<1>8. Accounts'
  BY <1>2, <1>3, <1>4, <1>5, <1>7 DEF Accounts
<1>9. OkMeansStored'
  BY <1>1, <1>2, <1>3, OkKept
<1>10. QED
  BY <1>8, <1>9

LEMMA StatusStep == StatusInv /\ [Next]_vars => StatusInv'
<1> SUFFICES ASSUME StatusInv, [Next]_vars PROVE StatusInv'
  OBVIOUS
<1>a. TurnInv /\ TypeInv /\ TypeOK /\ TurnInv'
  BY TurnStep DEF StatusInv, TurnInv, TypeInv
<1>1. ASSUME NEW r \in Run, Begin(r) PROVE StatusInv'
  <2>1. /\ step' = [step EXCEPT ![r] = "listing"] /\ job'.status = "running"
        /\ UNCHANGED <<run, cur, follow, unlisted, nodeVars>>
    BY <1>1, <1>a DEF Begin, Started, TypeOK
  <2>2. \A q \in Run : step'[q] \in Working => step'[q] = step[q]
    BY <2>1, <1>a DEF TypeOK, Working
  <2>3. \A q \in Run :
          /\ step'[q] = "following" => step[q] = "following"
          /\ step'[q] \in {"idle", "listing", "next"} => step[q] \in {"idle", "listing", "next"}
    BY <1>1, <2>1, <1>a DEF Begin, TypeOK
  <2>4. Accounts'
    BY <2>1, <2>2, <2>3 DEF Accounts, StatusInv, Done, Bought, nodeVars, taskVars
  <2>5. QED
    BY <1>a, <2>1, <2>4 DEF StatusInv, OkMeansStored
<1>2. ASSUME NEW r \in Run, List(r) PROVE StatusInv'
  <2>1. PICK S \in SUBSET Node, L \in SUBSET Guest :
          LET W == Selected \cup L
          IN /\ run' = [run EXCEPT ![r] =
                          [wanted |-> W, todo |-> W, failed |-> {}, skipped |-> S]]
             /\ unlisted' = [unlisted EXCEPT ![r] = {g \in Guest \ W : Home[g] \notin S}]
    BY <1>2 DEF List
  <2>2. /\ run'[r].todo = run'[r].wanted /\ run'[r].skipped = S
        /\ run'[r].wanted = Selected \cup L
        /\ unlisted'[r] = {g \in Guest \ (Selected \cup L) : Home[g] \notin S}
        /\ \A q \in Run \ {r} : run'[q] = run[q] /\ unlisted'[q] = unlisted[q]
    BY <2>1, <1>a DEF TypeOK
  <2>7. \A g \in Guest \ run'[r].wanted : Home[g] \in run'[r].skipped \/ g \in unlisted'[r]
    BY <2>2
  <2>3. Done(r)' = {}
    BY <2>2 DEF Done
  <2>4. cur'[r] = cur[r] /\ step[r] = "listing" /\ UNCHANGED <<cur, follow>>
    BY <1>2 DEF List, At
  <2>5. cur'[r] = NoGuest
    BY <2>4 DEF StatusInv, Accounts
  <2>6. QED
    BY <1>2, <1>a, <2>2, <2>3, <2>4, <2>5, <2>7, StatusRun DEF List, jobVars
<1>3. ASSUME NEW r \in Run, Take(r) PROVE StatusInv'
  <2>1. PICK g \in run[r].todo : /\ cur' = [cur EXCEPT ![r] = g]
                                 /\ run' = [run EXCEPT ![r].todo = @ \ {g}]
    BY <1>3 DEF Take
  <2>2. /\ run'[r].wanted = run[r].wanted /\ run'[r].todo = run[r].todo \ {g}
        /\ run'[r].failed = run[r].failed /\ run'[r].skipped = run[r].skipped
        /\ cur'[r] = g
        /\ \A q \in Run \ {r} : run'[q] = run[q] /\ cur'[q] = cur[q]
    BY <2>1, <1>a DEF TypeOK
  <2>3. step[r] = "next" /\ cur[r] = NoGuest /\ UNCHANGED <<follow, unlisted>>
    BY <1>3 DEF Take, At, StatusInv, Accounts
  <2>4. Done(r)' \subseteq Done(r)
    <3>1. run[r].wanted \subseteq Guest
      BY <1>a DEF TypeOK
    <3>2. QED
      BY <2>2, <2>3, <3>1, PbsAssumption DEF Done
  <2>5. /\ \A h \in Done(r)' : Bought(r, h)
        /\ \A h \in Guest \ run'[r].wanted : Home[h] \in run'[r].skipped \/ h \in unlisted'[r]
    BY <2>2, <2>3, <2>4 DEF StatusInv, Accounts, Working
  <2>6. QED
    BY <1>3, <1>a, <2>2, <2>3, <2>5, StatusRun DEF Take, jobVars
<1>4. ASSUME NEW r \in Run, PostFails(r) \/ PollEnds(r) \/ GivesUp(r) PROVE StatusInv'
  <2>1. step[r] \in {"post", "following"} /\ cur[r] \in Guest
    BY <1>4, <1>a DEF PostFails, PollEnds, GivesUp, At, TypeInv, Stages
  <2>2. CASE Over(r, {cur[r]})
    BY <2>1, <2>2, <1>a, StatusOver
  <2>3. CASE step[r] = "following" /\ row[follow[r]] = "completed" /\ Over(r, {})
    <3>1. Bought(r, cur[r])
      BY <2>3, <1>a DEF StatusInv, Accounts, Bought, TypeInv, Stages
    <3>2. QED
      BY <2>1, <2>3, <3>1, <1>a, StatusOver
  <2>4. QED
    BY <1>4, <2>2, <2>3 DEF PostFails, PollEnds, GivesUp, At
<1>5. ASSUME NEW r \in Run, NEW t \in Task, NodeAccepts(r, t) PROVE StatusInv'
  BY <1>5, <1>a, StatusAccept
<1>6. ASSUME NEW r \in Run, Summarize(r) PROVE StatusInv'
  <2>1. step[r] = "next" /\ run[r].todo = {} /\ cur[r] = NoGuest /\ Finish(r, Summary(run[r]))
    BY <1>6 DEF Summarize, At, StatusInv, Accounts
  <2>2. ASSUME Summary(run[r]) = "ok" PROVE \A g \in Guest \ unlisted[r] : Bought(r, g)
    <3>1. run[r].failed = {} /\ run[r].skipped = {}
      BY <2>2 DEF Summary
    <3>2. \A g \in Guest \ unlisted[r] : g \in run[r].wanted
      BY <2>1, <3>1 DEF StatusInv, Accounts, Working
    <3>3. \A g \in Guest \ unlisted[r] : g \in Done(r)
      BY <2>1, <3>1, <3>2, PbsAssumption DEF Done
    <3>4. QED
      BY <2>1, <3>3 DEF StatusInv, Accounts, Working
  <2>3. Summary(run[r]) \in JobStatus
    BY DEF Summary
  <2>4. QED
    BY <2>1, <2>2, <2>3, <1>a, StatusEnds
<1>7. ASSUME NEW r \in Run, RunThrows(r) PROVE StatusInv'
  BY <1>7, <1>a, StatusEnds DEF RunThrows, At
<1>8. ASSUME NEW t \in Task, NEW g \in Guest, LocalBackup(t, g) PROVE StatusInv'
  <2>1. StartGuestBackup(t, g, NoRun) /\ UNCHANGED vdmVars
    BY <1>8 DEF LocalBackup
  <2>2. /\ Kept
        /\ \A u \in Task : row'[u] = "completed" => work'[u] = "done"
        /\ \A u \in Task : guest'[u] = NoGuest => work'[u] = "none"
        /\ \A u \in Task \ {t} : guest'[u] = guest[u] /\ poster'[u] = poster[u]
        /\ guest'[t] = g /\ guest[t] = NoGuest
    BY <2>1, StartKeeps
  <2>3. QED
    BY <1>a, <2>1, <2>2, StatusNode
<1>9. ASSUME UNCHANGED <<guest, poster, vdmVars>>,
             \A t \in Task : work[t] = "done" => work'[t] = "done",
             \A t \in Task : work[t] = "none" => work'[t] = "none",
             \A t \in Task : row'[t] = "completed" => row[t] = "completed" \/ work[t] = "done"
      PROVE StatusInv'
  BY <1>9, <1>a, StatusNode DEF Kept, StatusInv, Accounts
<1>10. ASSUME NEW t \in Task, Runner(t) PROVE StatusInv'
  BY <1>9, <1>10, <1>a DEF Runner, RunnerStores, RunnerFails, RunnerEnds, TypeOK
<1>11. ASSUME NEW t \in Task, Api(t) PROVE StatusInv'
  <2>1. UNCHANGED <<guest, poster, vdmVars, work>>
    BY <1>11 DEF Api, CallReturns, CallTimesOut, Settle
  <2>2. \A u \in Task : row'[u] = "completed" => row[u] = "completed" \/ work[u] = "done"
    BY <1>11, <1>a DEF Api, CallReturns, CallTimesOut, Settle, TypeOK
  <2>3. QED
    BY <1>9, <2>1, <2>2
<1>12. ASSUME NEW n \in Node, Machine(n) PROVE StatusInv'
  <2>1. UNCHANGED <<guest, poster, vdmVars, row>>
    BY <1>12 DEF Machine, RunnerRestarts, ApiStops, ApiStarts, taskVars
  <2>2. \A t \in Task : work[t] \in {"done", "none"} => work'[t] = work[t]
    BY <1>12, <1>a DEF Machine, RunnerRestarts, ApiStops, ApiStarts, taskVars, TypeOK
  <2>3. QED
    BY <1>9, <2>1, <2>2
<1>13. ASSUME VdmStops PROVE StatusInv'
  <2>1. /\ \A r \in Run : step'[r] \notin Active
        /\ \A r \in Run : step[r] = "ended" => step'[r] = "ended"
        /\ \A r \in Run : step'[r] # "idle" <=> step[r] # "idle"
        /\ \A r \in Run : cur'[r] = NoGuest
        /\ UNCHANGED <<job, unlisted, nodeVars>>
    BY <1>13, <1>a DEF VdmStops, TypeOK
  <2>2. Accounts'
    BY <2>1 DEF StatusInv, Accounts, Working, nodeVars, taskVars
  <2>3. OkMeansStored'
    BY <2>1, OkKept DEF StatusInv, Kept, nodeVars, taskVars
  <2>4. QED
    BY <1>a, <2>2, <2>3 DEF StatusInv
<1>14. ASSUME VdmStarts PROVE StatusInv'
  <2>1. job'.status = "ok" => job.status = "ok"
    BY <1>14, <1>a DEF VdmStarts, Interrupted, TypeOK
  <2>2. UNCHANGED <<runVars, nodeVars>>
    BY <1>14 DEF VdmStarts
  <2>3. OkMeansStored'
    BY <2>1, <2>2, OkKept DEF StatusInv, Kept, runVars, nodeVars, taskVars
  <2>4. Accounts'
    BY <2>2 DEF StatusInv, Accounts, Done, Bought, runVars, nodeVars, taskVars
  <2>5. QED
    BY <1>a, <2>3, <2>4 DEF StatusInv
<1>15. ASSUME TimePasses \/ UNCHANGED vars PROVE StatusInv'
  BY <1>9, <1>15 DEF TimePasses, vars, nodeVars, taskVars
<1>16. QED
  BY <1>1, <1>2, <1>3, <1>4, <1>5, <1>6, <1>7, <1>8, <1>10, <1>11, <1>12, <1>13, <1>14, <1>15
  DEF Next, Runs, SchedulerTick, RunNow, Progress

\* OkMeansStored: a job that says ok has a snapshot, made for its last run, of
\* every guest it covers but the containers that run was not told of.
THEOREM OkIsStored == Spec => []OkMeansStored
<1>1. StatusInv => OkMeansStored
  BY DEF StatusInv
<1>2. QED
  BY <1>1, StatusInit, StatusStep, PTL DEF Spec
=============================================================================
