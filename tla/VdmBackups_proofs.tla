-------------------------- MODULE VdmBackups_proofs --------------------------
(***************************************************************************)
(* Proofs about VdmBackups for any number of backups, guests,              *)
(* administrators and days: type correctness, that retention never takes   *)
(* the last archive of a repository, that a completed backup is in the     *)
(* catalogue, and that no archive is forgotten before it is gone.          *)
(*                                                                         *)
(* Retention: whatever it deletes was superseded by a backup with a later  *)
(* created_at when the list was read, and stays so; whatever else is       *)
(* deleted somebody chose. Deletion: a request is about the item its       *)
(* sender works on, and after a confirmed one the file cannot come back,   *)
(* as the node had finished with the backup before it had an item.         *)
(***************************************************************************)
EXTENDS VdmBackups, FiniteSetTheorems, TLAPS

(* Some later backup was catalogued.                                       *)
Superseded(b) == \E c \in Backup : Newer(b, c)
Born          == {b \in Backup : born[b] # 0}

(* It may go: it is superseded, or somebody chose to delete it.            *)
Doomed(b) == born[b] # 0 /\ (b \in hand \/ Superseded(b))

SomeLimit == Daily + Weekly + Monthly > 0

Ages ==
  /\ \A b \in Backup : outcome[b] = "none" \/ flow[b] \in {"backup", "catalogue"}
                         => born[b] = 0
  /\ \A b \in Backup : item[b] # "none" => born[b] # 0
  /\ \A b \in Backup : born[b] <= Cardinality(Born)

Victims ==
  /\ \A p \in Proc : op[p] = "prune" => \A v \in todo[p] : born[v] # 0 /\ Superseded(v)
  /\ \A p \in Proc : op[p] = "delete" => todo[p] \subseteq hand
  /\ \A d \in deletes : Doomed(d.of)

Archives ==
  /\ \A b \in Backup : flow[b] = "catalogue" => node[b] = "done"
  /\ \A b \in Backup : node[b] = "done"
       => b \in file \/ b \in hand \/ Doomed(b)
  /\ \A b \in Backup : born[b] # 0 => item[b] # "none" \/ Doomed(b)
  /\ \A b \in Backup : born[b] # 0 => node[b] = "done"

IInv == TypeOK /\ Ages /\ Victims /\ Archives

-----------------------------------------------------------------------------
(* Types.                                                                  *)

LEMMA AbandonTyping ==
  ASSUME TypeOK, NEW p \in Proc, Abandon(p)
  PROVE  deletes' \subseteq Request
BY DEF Abandon, Unanswered, Mine, Request, TypeOK

LEMMA StoppedTyping ==
  ASSUME TypeOK, Stopped
  PROVE  /\ outcome' \in [Backup -> {"none", "active", "completed", "failed", "recovery-required"}]
         /\ flow' \in [Backup -> {"none", "backup", "catalogue", "prune", "ended"}]
         /\ op' \in [Proc -> {"idle", "prune", "delete", "verify", "checksum", "summed"}]
         /\ todo' \in [Proc -> SUBSET Backup]
         /\ deletes' \subseteq Request
<1>1. deletes' \subseteq Request
  BY DEF Stopped, Unanswered, Request, TypeOK
<1> QED BY <1>1 DEF Stopped, TypeOK

(* The number of catalogued backups, and how Record changes it.            *)
LEMMA BornIsFinite ==
  ASSUME TypeOK
  PROVE  /\ IsFiniteSet(Born) /\ Cardinality(Born) \in Nat
         /\ Cardinality(Born) <= MaxBackup
<1>1. IsFiniteSet(Backup) /\ Cardinality(Backup) = MaxBackup
  BY FS_Interval, ConstAssumption DEF Backup
<1>2. Born \subseteq Backup
  BY DEF Born
<1> QED BY <1>1, <1>2, FS_Subset, FS_CardinalityType

LEMMA RecordAdds ==
  ASSUME TypeOK, NEW b \in Backup, born[b] = 0
  PROVE  Cardinality(Born) < MaxBackup
<1>1. IsFiniteSet(Backup) /\ Cardinality(Backup) = MaxBackup
  BY FS_Interval, ConstAssumption DEF Backup
<1>2. Born \cup {b} \subseteq Backup /\ b \notin Born
  BY DEF Born
<1>3. Cardinality(Born \cup {b}) = Cardinality(Born) + 1
  BY <1>2, BornIsFinite, FS_AddElement
<1>4. Cardinality(Born \cup {b}) <= Cardinality(Backup)
  BY <1>1, <1>2, FS_Subset
<1> QED BY <1>1, <1>3, <1>4, BornIsFinite, ConstAssumption

LEMMA InitTypeOK == Init => TypeOK
BY ConstAssumption DEF Init, TypeOK, Time

LEMMA NextTypeOK == TypeOK /\ Ages /\ [Next]_vars => TypeOK'
<1> SUFFICES ASSUME TypeOK, Ages, [Next]_vars PROVE TypeOK'
  OBVIOUS
<1> USE DEF stored, tasks, items, ops
<1>1. ASSUME NEW b \in Backup, NEW g \in Guest, StartBackup(b, g) \/ RunScheduled(b, g)
      PROVE  TypeOK'
  <2>1. CASE StartBackup(b, g)
    BY <2>1 DEF StartBackup, Begin, TypeOK
  <2>2. CASE ~Busy(g) /\ Begin(b, g, "job") /\ UNCHANGED <<op, todo, deletes>>
    BY <1>1, <2>2 DEF StartBackup, RunScheduled, Begin, TypeOK
  <2>3. CASE RunScheduled(b, g) /\ Stopped /\ UNCHANGED <<node, guestOf, sched>>
    BY <2>3, StoppedTyping DEF RunScheduled, TypeOK
  <2> QED BY <1>1, <2>1, <2>2, <2>3 DEF RunScheduled
<1>2. ASSUME NEW b \in Backup, NodeBacksUp(b) \/ Answered(b) \/ Fail(b) \/ NodeAdminDelete(b)
      PROVE  TypeOK'
  BY <1>2 DEF NodeBacksUp, Answered, Fail, NodeAdminDelete, TypeOK
<1>3. ASSUME NEW b \in Backup, NEW known \in BOOLEAN, Record(b, known)
      PROVE  TypeOK'
  <2>1. born[b] = 0 BY <1>3 DEF Record, Ages
  <2>2. 1 + Cardinality(Born) \in 0 .. MaxBackup
    BY <2>1, RecordAdds, BornIsFinite, ConstAssumption
  <2>3. born' \in [Backup -> 0 .. MaxBackup]
    BY <1>3, <2>2 DEF Record, Born, TypeOK
  <2> QED BY <1>3, <2>3 DEF Record, TypeOK, Time
<1>4. ASSUME NEW p \in Proc, PruneStart(p) \/ PruneEnd(p) PROVE TypeOK'
  BY <1>4 DEF PruneStart, PruneEnd, Excess, Items, TypeOK
<1>5. ASSUME NEW p \in Proc, NEW v \in Backup, PruneAsk(p, v) PROVE TypeOK'
  BY <1>5 DEF PruneAsk, Ask, Request, TypeOK
<1>6. ASSUME NEW p \in Proc, NEW v \in Backup, PruneDone(p, v) PROVE TypeOK'
  BY <1>6 DEF PruneDone, Forget, Mine, TypeOK
<1>7. ASSUME NEW p \in Proc, NEW v \in Backup, PruneFail(p, v) PROVE TypeOK'
  <2>1. deletes' \subseteq Request BY <1>7, AbandonTyping DEF PruneFail
  <2> QED BY <1>7, <2>1 DEF PruneFail, Mark, TypeOK
<1>8. ASSUME NEW p \in Admin, NEW b \in Backup, DeleteStart(p, b) \/ VerifyStart(p, b)
      PROVE  TypeOK'
  <2>0. p \in Proc BY DEF Proc
  <2>1. CASE DeleteStart(p, b)
    BY <2>0, <2>1 DEF DeleteStart, Ask, Forget, Request, TypeOK
  <2>2. CASE VerifyStart(p, b)
    BY <2>0, <2>2 DEF VerifyStart, TypeOK
  <2> QED BY <1>8, <2>1, <2>2
<1>9. ASSUME NEW p \in Admin, Delete(p) PROVE TypeOK'
  <2>0. p \in Proc BY DEF Proc
  <2>1. CASE DeleteDone(p)
    BY <2>0, <2>1 DEF DeleteDone, Forget, Finish, Mine, TypeOK
  <2>2. CASE DeleteFail(p)
    <3>1. deletes' \subseteq Request BY <2>0, <2>2, AbandonTyping DEF DeleteFail
    <3> QED BY <2>0, <2>2, <3>1 DEF DeleteFail, Finish, TypeOK
  <2> QED BY <1>9, <2>1, <2>2 DEF Delete
<1>10. ASSUME NEW p \in Admin, Verify(p) PROVE TypeOK'
  <2>0. p \in Proc BY DEF Proc
  <2> QED BY <1>10, <2>0
       DEF Verify, VerifyList, NodeSums, VerifyDone, VerifyFail, Finish, Mark, TypeOK
<1>11. ASSUME NEW d \in deletes, NodeDeletes(d) PROVE TypeOK'
  <2>1. deletes' \subseteq Request
    BY <1>11 DEF NodeDeletes, Request, TypeOK
  <2> QED BY <1>11, <2>1 DEF NodeDeletes, TypeOK
<1>12. CASE Restart
  BY <1>12, StoppedTyping DEF Restart, TypeOK
<1>13. CASE Tick
  BY <1>13, ConstAssumption DEF Tick, TypeOK, Time
<1>14. CASE UNCHANGED vars
  BY <1>14 DEF vars, TypeOK
<1> QED
  BY <1>1, <1>2, <1>3, <1>4, <1>5, <1>6, <1>7, <1>8, <1>9, <1>10, <1>11, <1>12, <1>13, <1>14
  DEF Next, Retire, Settle

-----------------------------------------------------------------------------
(* created_at.                                                             *)

(* What leaves the items' order alone and forgets at most.                 *)
LEMMA StoppedFlows ==
  ASSUME TypeOK, Stopped, NEW b \in Backup
  PROVE  /\ outcome'[b] = "none" => outcome[b] = "none"
         /\ flow'[b] \notin {"backup", "catalogue"}
BY DEF Stopped, TypeOK

LEMMA AgesStay ==
  ASSUME TypeOK, Ages, UNCHANGED born,
         \A b \in Backup : outcome'[b] = "none" \/ flow'[b] \in {"backup", "catalogue"}
           => born[b] = 0,
         \A b \in Backup : item'[b] # "none" => item[b] # "none"
  PROVE  Ages'
<1>1. Born' = Born BY DEF Born
<1> QED BY <1>1 DEF Ages

LEMMA InitAges == Init => Ages
<1> SUFFICES ASSUME Init PROVE Ages
  OBVIOUS
<1>1. Born = {} BY DEF Init, Born
<1>2. Cardinality(Born) = 0 BY <1>1, FS_EmptySet
<1> QED BY <1>2 DEF Init, Ages

LEMMA NextAges == TypeOK /\ Ages /\ [Next]_vars => Ages'
<1> SUFFICES ASSUME TypeOK, Ages, [Next]_vars PROVE Ages'
  OBVIOUS
<1> USE DEF stored, tasks, items, ops
<1>1. ASSUME NEW b \in Backup, NEW g \in Guest, StartBackup(b, g) \/ RunScheduled(b, g)
      PROVE  Ages'
  <2>1. CASE Begin(b, g, "job") \/ Begin(b, g, "admin")
    <3>1. born[b] = 0 BY <2>1 DEF Begin, Unused, Ages
    <3> QED BY <1>1, <2>1, <3>1, AgesStay DEF StartBackup, RunScheduled, Begin, Ages, TypeOK
  <2>2. CASE Stopped
    BY <1>1, <2>2, AgesStay, StoppedFlows DEF StartBackup, RunScheduled, Ages, TypeOK
  <2> QED BY <1>1, <2>1, <2>2 DEF StartBackup, RunScheduled
<1>2. ASSUME NEW b \in Backup, NodeBacksUp(b) \/ Answered(b) \/ Fail(b) \/ NodeAdminDelete(b)
      PROVE  Ages'
  BY <1>2, AgesStay DEF NodeBacksUp, Answered, Fail, NodeAdminDelete, Ages, TypeOK
<1>3. ASSUME NEW b \in Backup, NEW known \in BOOLEAN, Record(b, known)
      PROVE  Ages'
  <2>1. born[b] = 0 BY <1>3 DEF Record, Ages
  <2>2. born' = [born EXCEPT ![b] = 1 + Cardinality(Born)]
    BY <1>3 DEF Record, Born
  <2>3. Born' = Born \cup {b} /\ b \notin Born
    <3>1. 1 + Cardinality(Born) # 0
      BY BornIsFinite
    <3>2. born'[b] # 0 /\ \A c \in Backup : c # b => born'[c] = born[c]
      BY <2>2, <3>1 DEF TypeOK
    <3>3. \A c \in Backup : born'[c] # 0 <=> born[c] # 0 \/ c = b
      BY <3>2
    <3> QED BY <2>1, <3>3 DEF Born
  <2>4. Cardinality(Born') = Cardinality(Born) + 1
    BY <2>3, BornIsFinite, FS_AddElement
  <2>5. \A c \in Backup : born'[c] <= Cardinality(Born')
    BY <2>2, <2>4, BornIsFinite DEF Ages, TypeOK
  <2>6. born'[b] # 0
    BY <2>2, BornIsFinite DEF TypeOK
  <2> QED BY <1>3, <2>2, <2>5, <2>6 DEF Record, Ages, TypeOK
<1>4. ASSUME NEW p \in Proc, PruneStart(p) \/ PruneEnd(p) PROVE Ages'
  BY <1>4, AgesStay DEF PruneStart, PruneEnd, Ages, TypeOK
<1>5. ASSUME NEW p \in Proc, NEW v \in Backup,
             PruneAsk(p, v) \/ PruneDone(p, v) \/ PruneFail(p, v)
      PROVE  Ages'
  BY <1>5, AgesStay DEF PruneAsk, PruneDone, PruneFail, Forget, Mark, Ages, TypeOK
<1>6. ASSUME NEW p \in Admin, NEW b \in Backup, DeleteStart(p, b) \/ VerifyStart(p, b)
      PROVE  Ages'
  BY <1>6, AgesStay DEF DeleteStart, VerifyStart, Forget, Ages, TypeOK
<1>7. ASSUME NEW p \in Admin, Delete(p) \/ Verify(p) PROVE Ages'
  <2>1. \A b \in Backup : item'[b] # "none" => item[b] # "none"
    BY <1>7 DEF Delete, DeleteDone, DeleteFail, Verify, VerifyList, NodeSums, VerifyDone,
                VerifyFail, Forget, Mark
  <2>2. UNCHANGED <<born, outcome, flow>>
    BY <1>7 DEF Delete, DeleteDone, DeleteFail, Verify, VerifyList, NodeSums, VerifyDone, VerifyFail
  <2> QED BY <2>1, <2>2, AgesStay DEF Ages
<1>8. ASSUME NEW d \in deletes, NodeDeletes(d) PROVE Ages'
  BY <1>8, AgesStay DEF NodeDeletes, Ages
<1>9. CASE Restart
  BY <1>9, AgesStay, StoppedFlows DEF Restart, Ages
<1>10. CASE Tick
  BY <1>10, AgesStay DEF Tick, Ages
<1>11. CASE UNCHANGED vars
  BY <1>11, AgesStay DEF vars, Ages
<1> QED
  BY <1>1, <1>2, <1>3, <1>4, <1>5, <1>6, <1>7, <1>8, <1>9, <1>10, <1>11
  DEF Next, Retire, Settle

-----------------------------------------------------------------------------
(* What is superseded stays superseded.                                    *)

LEMMA BornStays ==
  ASSUME TypeOK, Ages, [Next]_vars, NEW v \in Backup, born[v] # 0
  PROVE  born'[v] = born[v] /\ (Superseded(v) => Superseded(v)')
<1> USE DEF stored, tasks, items, ops
<1>1. CASE UNCHANGED born
  BY <1>1 DEF Superseded, Newer
<1>2. ASSUME NEW b \in Backup, NEW known \in BOOLEAN, Record(b, known)
      PROVE  born'[v] = born[v] /\ (Superseded(v) => Superseded(v)')
  <2>1. born[b] = 0 BY <1>2 DEF Record, Ages
  <2>2. \A c \in Backup : c # b => born'[c] = born[c]
    BY <1>2 DEF Record, TypeOK
  <2> QED BY <2>1, <2>2 DEF Superseded, Newer, TypeOK
<1>3. UNCHANGED born \/ \E b \in Backup, known \in BOOLEAN : Record(b, known)
  BY DEF Next, Retire, Settle, StartBackup, RunScheduled, NodeBacksUp, Answered, Fail,
         NodeAdminDelete, PruneStart, PruneEnd, PruneAsk, PruneDone, PruneFail, DeleteStart,
         VerifyStart, Delete, DeleteDone, DeleteFail, Verify, VerifyList, NodeSums,
         VerifyDone, VerifyFail, NodeDeletes, Restart, Tick, vars
<1> QED BY <1>1, <1>2, <1>3

(* An item no later one was made after is kept by every positive limit.    *)
LEMMA NewestIsKept ==
  ASSUME TypeOK, NEW b \in Backup, NEW days \in Nat \ {0}, NEW limit \in Nat \ {0},
         ~Superseded(b)
  PROVE  Kept(b, days, limit)
<1>1. {d \in Items : Newer(b, d)} = {}
  BY DEF Superseded, Items
<1>2. {Bucket(c, days) : c \in {d \in Items : Newer(b, d)}} = {}
  BY <1>1
<1>3. Cardinality({Bucket(c, days) : c \in {d \in Items : Newer(b, d)}}) = 0
  BY <1>2, FS_EmptySet
<1> QED BY <1>1, <1>3 DEF Kept

LEMMA ExcessIsSuperseded ==
  ASSUME TypeOK, Ages, SomeLimit, NEW v \in Excess
  PROVE  born[v] # 0 /\ Superseded(v)
<1>1. v \in Backup /\ born[v] # 0
  BY DEF Excess, Items, Ages
<1>2. Daily # 0 \/ Weekly # 0 \/ Monthly # 0
  BY ConstAssumption DEF SomeLimit
<1>3. SUFFICES ASSUME ~Superseded(v) PROVE FALSE
  BY <1>1
<1>4. Kept(v, 1, Daily) \/ Kept(v, Week, Weekly) \/ Kept(v, Month, Monthly)
  BY <1>1, <1>2, <1>3, NewestIsKept, ConstAssumption
<1> QED BY <1>4 DEF Excess

-----------------------------------------------------------------------------
(* What is deleted.                                                        *)

LEMMA DoomedStays ==
  ASSUME TypeOK, Ages, [Next]_vars, NEW b \in Backup, Doomed(b), hand \subseteq hand'
  PROVE  Doomed(b)'
BY BornStays DEF Doomed

(* Only the two deletions by hand change what somebody chose to delete.    *)
LEMMA HandGrows ==
  ASSUME TypeOK, [Next]_vars
  PROVE  hand \subseteq hand'
<1> USE DEF stored, tasks, items, ops
<1>1. CASE \E b \in Backup : NodeAdminDelete(b) \/ \E p \in Admin : DeleteStart(p, b)
  BY <1>1 DEF NodeAdminDelete, DeleteStart
<1>2. CASE ~\E b \in Backup : NodeAdminDelete(b) \/ \E p \in Admin : DeleteStart(p, b)
  BY <1>2 DEF Next, Retire, Settle, StartBackup, RunScheduled, NodeBacksUp, Answered, Fail,
         Record, PruneStart, PruneEnd, PruneAsk, PruneDone, PruneFail,
         VerifyStart, Delete, DeleteDone, DeleteFail, Verify, VerifyList, NodeSums,
         VerifyDone, VerifyFail, NodeDeletes, Restart, Tick, vars
<1> QED BY <1>1, <1>2

(* It is enough to look at the lists and requests a step adds.             *)
LEMMA VictimsStay ==
  ASSUME TypeOK, Ages, Victims, [Next]_vars,
         \A p \in Proc : op'[p] = "prune" =>
           \/ op[p] = "prune" /\ todo'[p] \subseteq todo[p]
           \/ \A v \in todo'[p] : born[v] # 0 /\ Superseded(v),
         \A p \in Proc : op'[p] = "delete" =>
           \/ op[p] = "delete" /\ todo'[p] = todo[p]
           \/ todo'[p] \subseteq hand',
         \A d \in deletes' : (\E e \in deletes : e.of = d.of)
                             \/ (d.of \in Backup /\ Doomed(d.of)) \/ Doomed(d.of)'
  PROVE  Victims'
<1>0. hand \subseteq hand' BY HandGrows
<1>1. ASSUME NEW p \in Proc, op'[p] = "prune", NEW v \in todo'[p]
      PROVE  born'[v] # 0 /\ Superseded(v)'
  <2>1. v \in Backup /\ born[v] # 0 /\ Superseded(v)
    <3>1. v \in Backup BY <1>1, NextTypeOK DEF TypeOK
    <3> QED BY <1>1, <3>1 DEF Victims
  <2> QED BY <2>1, BornStays
<1>2. ASSUME NEW p \in Proc, op'[p] = "delete" PROVE todo'[p] \subseteq hand'
  BY <1>0, <1>2 DEF Victims
<1>3. ASSUME NEW d \in deletes' PROVE Doomed(d.of)'
  <2>1. CASE \E e \in deletes : e.of = d.of
    <3>1. PICK e \in deletes : e.of = d.of BY <2>1
    <3>2. d.of \in Backup BY <3>1 DEF TypeOK, Request
    <3>3. Doomed(d.of) BY <3>1 DEF Victims
    <3> QED BY <1>0, <3>2, <3>3, DoomedStays
  <2>2. CASE d.of \in Backup /\ Doomed(d.of)
    BY <1>0, <2>2, DoomedStays
  <2> QED BY <1>3, <2>1, <2>2
<1> QED BY <1>1, <1>2, <1>3 DEF Victims

LEMMA AbandonKeepsTargets ==
  ASSUME TypeOK, NEW p \in Proc, Abandon(p), NEW d \in deletes'
  PROVE  \E e \in deletes : e.of = d.of
BY DEF Abandon, Unanswered, Mine, Request, TypeOK

LEMMA StoppedEndsAll ==
  ASSUME TypeOK, Stopped
  PROVE  /\ \A p \in Proc : op'[p] = "idle"
         /\ \A d \in deletes' : \E e \in deletes : e.of = d.of
<1>1. \A d \in deletes' : \E e \in deletes : e.of = d.of
  BY DEF Stopped, Unanswered, Request, TypeOK
<1> QED BY <1>1 DEF Stopped

LEMMA NextVictims ==
  ASSUME SomeLimit, TypeOK, Ages, Victims, [Next]_vars
  PROVE  Victims'
<1> USE DEF stored, tasks, items, ops
<1>1. CASE UNCHANGED <<op, todo, deletes>>
  BY <1>1, VictimsStay
<1>2. CASE Stopped
  BY <1>2, StoppedEndsAll, VictimsStay
<1>3. ASSUME NEW p \in Proc, PruneStart(p) PROVE Victims'
  <2>1. \A v \in Excess : born[v] # 0 /\ Superseded(v)
    BY ExcessIsSuperseded
  <2>2. UNCHANGED deletes /\ todo' = [todo EXCEPT ![p] = Excess]
        /\ op' = [op EXCEPT ![p] = "prune"]
    BY <1>3 DEF PruneStart
  <2> QED BY <2>1, <2>2, VictimsStay DEF TypeOK
<1>4. ASSUME NEW p \in Proc, PruneEnd(p) PROVE Victims'
  BY <1>4, VictimsStay DEF PruneEnd, TypeOK
<1>5. ASSUME NEW p \in Proc, NEW v \in Backup, PruneAsk(p, v) PROVE Victims'
  <2>1. Doomed(v) BY <1>5 DEF PruneAsk, Current, Victims, Doomed
  <2>2. UNCHANGED <<op, todo>> BY <1>5 DEF PruneAsk
  <2>3. \A d \in deletes' : (\E e \in deletes : e.of = d.of) \/ d.of = v
    BY <1>5 DEF PruneAsk, Ask
  <2> QED BY <2>1, <2>2, <2>3, VictimsStay
<1>6. ASSUME NEW p \in Proc, NEW v \in Backup, PruneDone(p, v) PROVE Victims'
  BY <1>6, VictimsStay DEF PruneDone, Mine, Current, TypeOK
<1>7. ASSUME NEW p \in Proc, NEW v \in Backup, PruneFail(p, v) PROVE Victims'
  <2>1. \A d \in deletes' : \E e \in deletes : e.of = d.of
    BY <1>7, AbandonKeepsTargets DEF PruneFail
  <2> QED BY <1>7, <2>1, VictimsStay DEF PruneFail, Current, TypeOK
<1>8. ASSUME NEW p \in Admin, NEW b \in Backup, DeleteStart(p, b) PROVE Victims'
  <2>0. p \in Proc BY DEF Proc
  <2>1. b \in hand' /\ born[b] # 0 /\ born' = born
    BY <1>8 DEF DeleteStart, Ages, Items
  <2>2. Doomed(b)' BY <2>1 DEF Doomed
  <2>3. CASE op' = [op EXCEPT ![p] = "delete"] /\ todo' = [todo EXCEPT ![p] = {b}] /\ Ask(p, b)
    <3>1. \A d \in deletes' : (\E e \in deletes : e.of = d.of) \/ d.of = b
      BY <2>3 DEF Ask
    <3> QED BY <2>0, <2>1, <2>2, <2>3, <3>1, VictimsStay DEF TypeOK
  <2> QED BY <1>1, <1>8, <2>3 DEF DeleteStart
<1>9. ASSUME NEW p \in Admin, NEW b \in Backup, VerifyStart(p, b) PROVE Victims'
  <2>0. p \in Proc BY DEF Proc
  <2> QED BY <1>9, <2>0, VictimsStay DEF VerifyStart, TypeOK
<1>10. ASSUME NEW p \in Admin, Delete(p) PROVE Victims'
  <2>0. p \in Proc BY DEF Proc
  <2>1. op' = [op EXCEPT ![p] = "idle"] /\ todo' = [todo EXCEPT ![p] = {}]
    BY <1>10 DEF Delete, DeleteDone, DeleteFail, Finish
  <2>2. \A d \in deletes' : \E e \in deletes : e.of = d.of
    BY <1>10, <2>0, AbandonKeepsTargets DEF Delete, DeleteDone, DeleteFail, Mine
  <2> QED BY <2>0, <2>1, <2>2, VictimsStay DEF TypeOK
<1>11. ASSUME NEW p \in Admin, Verify(p) PROVE Victims'
  <2>0. p \in Proc BY DEF Proc
  <2>1. \A q \in Proc : op'[q] \in {"prune", "delete"} => op'[q] = op[q] /\ todo'[q] = todo[q]
    BY <1>11, <2>0 DEF Verify, VerifyList, NodeSums, VerifyDone, VerifyFail, Finish, TypeOK
  <2>2. UNCHANGED deletes
    BY <1>11 DEF Verify, VerifyList, NodeSums, VerifyDone, VerifyFail
  <2> QED BY <2>1, <2>2, VictimsStay
<1>12. ASSUME NEW d \in deletes, NodeDeletes(d) PROVE Victims'
  <2>1. \A f \in deletes' : \E e \in deletes : e.of = f.of
    BY <1>12 DEF NodeDeletes, TypeOK, Request
  <2>2. UNCHANGED <<op, todo>> BY <1>12 DEF NodeDeletes
  <2> QED BY <2>1, <2>2, VictimsStay
<1> QED
  BY <1>1, <1>2, <1>3, <1>4, <1>5, <1>6, <1>7, <1>8, <1>9, <1>10, <1>11, <1>12
  DEF Next, Retire, Settle, StartBackup, RunScheduled, NodeBacksUp, Answered, Fail, Record,
      NodeAdminDelete, Restart, Tick, vars

-----------------------------------------------------------------------------
(* What is there.                                                          *)

(* A step that records nothing, asks for no backup and only takes files    *)
(* and items of what may go.                                               *)
LEMMA ArchivesStay ==
  ASSUME TypeOK, Ages, Archives, [Next]_vars, UNCHANGED <<node, born>>,
         \A b \in Backup : flow'[b] = "catalogue" => flow[b] = "catalogue" \/ node[b] = "done",
         \A b \in Backup : b \in file => b \in file' \/ b \in hand' \/ Doomed(b),
         \A b \in Backup : item[b] # "none" => item'[b] # "none" \/ Doomed(b) \/ Doomed(b)'
  PROVE  Archives'
<1>0. hand \subseteq hand' BY HandGrows
<1>1. \A b \in Backup : Doomed(b) => Doomed(b)'
  BY <1>0, DoomedStays
<1> QED BY <1>0, <1>1 DEF Archives

LEMMA NextArchives ==
  ASSUME SomeLimit, TypeOK, Ages, Victims, Archives, [Next]_vars
  PROVE  Archives'
<1> USE DEF stored, tasks, items, ops
<1>0. hand \subseteq hand' /\ \A b \in Backup : Doomed(b) => Doomed(b)'
  BY HandGrows, DoomedStays
<1>1. ASSUME NEW b \in Backup, Begin(b, guestOf[b], "job") \/ Begin(b, guestOf[b], "admin"),
             UNCHANGED <<file, items, hand>>
      PROVE  Archives'
  <2>1. born[b] = 0 BY <1>1 DEF Begin, Unused, Ages
  <2>2. /\ flow' = [flow EXCEPT ![b] = "backup"]
        /\ node' = [node EXCEPT ![b] = "asked"]
    BY <1>1 DEF Begin
  <2> QED BY <1>0, <1>1, <2>1, <2>2 DEF Archives, TypeOK
<1>2. CASE Stopped /\ UNCHANGED <<stored, items, hand>>
  BY <1>2, ArchivesStay, StoppedFlows
<1>3. ASSUME NEW b \in Backup, NEW g \in Guest, StartBackup(b, g) \/ RunScheduled(b, g)
      PROVE  Archives'
  BY <1>1, <1>2, <1>3 DEF StartBackup, RunScheduled, Begin
<1>4. ASSUME NEW b \in Backup, NodeBacksUp(b) PROVE Archives'
  BY <1>0, <1>4 DEF NodeBacksUp, Archives, TypeOK
<1>5. ASSUME NEW b \in Backup, Answered(b) \/ Fail(b) PROVE Archives'
  BY <1>5, ArchivesStay DEF Answered, Fail, TypeOK
<1>6. ASSUME NEW b \in Backup, NEW known \in BOOLEAN, Record(b, known)
      PROVE  Archives'
  <2>1. node[b] = "done"
    BY <1>6 DEF Record, Archives
  <2>2. \A c \in Backup : c # b => born'[c] = born[c] /\ item'[c] = item[c]
    BY <1>6 DEF Record, TypeOK
  <2>3. item'[b] # "none" /\ UNCHANGED <<node, file, hand>>
    BY <1>6 DEF Record, TypeOK
  <2>4. \A c \in Backup : flow'[c] = "catalogue" => flow[c] = "catalogue"
    BY <1>6 DEF Record, TypeOK
  <2> QED BY <1>0, <2>1, <2>2, <2>3, <2>4 DEF Archives
<1>7. ASSUME NEW p \in Proc, PruneStart(p) \/ PruneEnd(p) PROVE Archives'
  BY <1>7, ArchivesStay DEF PruneStart, PruneEnd, TypeOK
<1>8. ASSUME NEW p \in Proc, NEW v \in Backup, PruneAsk(p, v) \/ PruneFail(p, v)
      PROVE  Archives'
  BY <1>8, ArchivesStay DEF PruneAsk, PruneFail, Mark
<1>9. ASSUME NEW p \in Proc, NEW v \in Backup, PruneDone(p, v) PROVE Archives'
  <2>1. Doomed(v) BY <1>9 DEF PruneDone, Current, Victims, Doomed
  <2> QED BY <1>9, <2>1, ArchivesStay DEF PruneDone, Forget
<1>10. ASSUME NEW p \in Admin, NEW b \in Backup, DeleteStart(p, b) \/ VerifyStart(p, b)
      PROVE  Archives'
  <2>1. CASE DeleteStart(p, b)
    <3>1. b \in hand' /\ born[b] # 0 /\ born' = born
      BY <2>1 DEF DeleteStart, Ages, Items
    <3>2. Doomed(b)' BY <3>1 DEF Doomed
    <3> QED BY <2>1, <3>2, ArchivesStay DEF DeleteStart, Forget
  <2>2. CASE VerifyStart(p, b)
    BY <2>2, ArchivesStay DEF VerifyStart
  <2> QED BY <1>10, <2>1, <2>2
<1>11. ASSUME NEW p \in Admin, Delete(p) PROVE Archives'
  <2>0. p \in Proc BY DEF Proc
  <2>1. op[p] = "delete" BY <1>11 DEF Delete, DeleteDone, DeleteFail
  <2>2. \A b \in todo[p] : item[b] # "none" => Doomed(b)
    BY <2>0, <2>1 DEF Victims, Ages, Doomed, TypeOK
  <2> QED BY <1>11, <2>2, ArchivesStay DEF Delete, DeleteDone, DeleteFail, Forget
<1>12. ASSUME NEW p \in Admin, Verify(p) PROVE Archives'
  BY <1>12, ArchivesStay DEF Verify, VerifyList, NodeSums, VerifyDone, VerifyFail, Mark
<1>13. ASSUME NEW b \in Backup, NodeAdminDelete(b) PROVE Archives'
  BY <1>13, ArchivesStay DEF NodeAdminDelete
<1>14. ASSUME NEW d \in deletes, NodeDeletes(d) PROVE Archives'
  <2>1. Doomed(d.of) BY DEF Victims
  <2> QED BY <1>14, <2>1, ArchivesStay DEF NodeDeletes
<1>15. CASE Restart \/ Tick \/ UNCHANGED vars
  BY <1>2, <1>15, ArchivesStay DEF Restart, Tick, vars
<1> QED
  BY <1>3, <1>4, <1>5, <1>6, <1>7, <1>8, <1>9, <1>10, <1>11, <1>12, <1>13, <1>14, <1>15
  DEF Next, Retire, Settle

-----------------------------------------------------------------------------
(* What an answer means.                                                   *)

(* No two items were made at one time, and what was made was backed up.    *)
Written ==
  /\ \A b, c \in Backup : born[b] = born[c] /\ born[b] # 0 => b = c
  /\ \A b \in Backup : flow[b] = "catalogue" => node[b] = "done"
  /\ \A b \in Backup : born[b] # 0 => node[b] = "done"
  /\ \A b \in Backup : outcome[b] = "completed" => born[b] # 0

(* What a request is about.                                                *)
Asked(d) == \/ Current(d.by, d.of)
            \/ op[d.by] = "delete" /\ todo[d.by] = {d.of}

(* A request is about what its sender deletes now, and an archive whose    *)
(* deletion was confirmed is gone.                                         *)
Answers ==
  /\ \A p \in Proc : op[p] \in {"prune", "delete"} => \A v \in todo[p] : born[v] # 0
  /\ \A d \in deletes : born[d.of] # 0
  /\ \A d \in deletes : d.at = "ok" => d.of \notin file
  /\ \A d \in deletes : d.by \in Proc => Asked(d)

DInv == TypeOK /\ Ages /\ Written /\ Answers

LEMMA InitWritten == Init => Written /\ Answers
BY DEF Init, Written, Answers

LEMMA WrittenStays ==
  ASSUME TypeOK, Ages, Written, UNCHANGED <<node, born>>,
         \A b \in Backup : flow'[b] = "catalogue" => flow[b] = "catalogue" \/ node[b] = "done",
         \A b \in Backup : outcome'[b] = "completed" => outcome[b] = "completed"
  PROVE  Written'
BY DEF Written

LEMMA NextWritten ==
  ASSUME TypeOK, Ages, Written, [Next]_vars
  PROVE  Written'
<1> USE DEF stored, tasks, items, ops
<1>1. CASE UNCHANGED <<node, born, outcome, flow>>
  BY <1>1, WrittenStays
<1>2. CASE Stopped /\ UNCHANGED <<node, born>>
  <2>1. \A b \in Backup : outcome'[b] = "completed" => outcome[b] = "completed"
    BY <1>2 DEF Stopped
  <2> QED BY <1>2, <2>1, WrittenStays, StoppedFlows
<1>3. ASSUME NEW b \in Backup, Begin(b, guestOf[b], "job") \/ Begin(b, guestOf[b], "admin"),
             UNCHANGED born
      PROVE  Written'
  <2>1. born[b] = 0 BY <1>3 DEF Begin, Unused, Ages
  <2>2. /\ flow' = [flow EXCEPT ![b] = "backup"]
        /\ node' = [node EXCEPT ![b] = "asked"]
        /\ outcome' = [outcome EXCEPT ![b] = "active"]
    BY <1>3 DEF Begin
  <2> QED BY <1>3, <2>1, <2>2 DEF Written, TypeOK
<1>4. ASSUME NEW b \in Backup, NodeBacksUp(b) PROVE Written'
  BY <1>4 DEF NodeBacksUp, Written, TypeOK
<1>5. ASSUME NEW b \in Backup, Answered(b) \/ Fail(b) PROVE Written'
  BY <1>5, WrittenStays DEF Answered, Fail, TypeOK
<1>6. ASSUME NEW b \in Backup, NEW known \in BOOLEAN, Record(b, known) PROVE Written'
  <2>1. node[b] = "done" /\ born[b] = 0
    BY <1>6 DEF Record, Written, Ages
  <2>2. born' = [born EXCEPT ![b] = 1 + Cardinality(Born)]
    BY <1>6 DEF Record, Born
  <2>3. \A c \in Backup : born[c] # 1 + Cardinality(Born)
    BY BornIsFinite DEF Ages, TypeOK
  <2>4. 1 + Cardinality(Born) # 0 BY BornIsFinite
  <2>5. \A c \in Backup : flow'[c] = "catalogue" => flow[c] = "catalogue"
    BY <1>6 DEF Record, TypeOK
  <2>6. \A c \in Backup : outcome'[c] = "completed" => outcome[c] = "completed" \/ c = b
    BY <1>6 DEF Record, TypeOK
  <2>7. UNCHANGED node BY <1>6 DEF Record
  <2>8. born'[b] = 1 + Cardinality(Born) /\ \A c \in Backup : c # b => born'[c] = born[c]
    BY <2>2 DEF TypeOK
  <2>9. \A c, e \in Backup : born'[c] = born'[e] /\ born'[c] # 0 => c = e
    BY <2>3, <2>8 DEF Written
  <2> QED BY <2>1, <2>4, <2>5, <2>6, <2>7, <2>8, <2>9 DEF Written
<1>7. ASSUME NEW p \in Proc, PruneEnd(p) PROVE Written'
  BY <1>7, WrittenStays DEF PruneEnd, TypeOK
<1> QED
  BY <1>1, <1>2, <1>3, <1>4, <1>5, <1>6, <1>7
  DEF Next, Retire, Settle, StartBackup, RunScheduled, Begin, NodeAdminDelete,
      PruneStart, PruneAsk, PruneDone, PruneFail, DeleteStart,
      VerifyStart, Delete, DeleteDone, DeleteFail, Verify, VerifyList, NodeSums,
      VerifyDone, VerifyFail, NodeDeletes, Restart, Tick, vars

(* What was asked for stays what it is about while its list stays.         *)
LEMMA AskedStays ==
  ASSUME TypeOK, Ages, Answers, [Next]_vars,
         NEW d \in Request, d.by \in Proc, Asked(d),
         op'[d.by] = op[d.by], todo'[d.by] = todo[d.by]
  PROVE  Asked(d)'
<1> DEFINE p == d.by
<1>1. CASE op[p] = "delete" /\ todo[p] = {d.of}
  BY <1>1 DEF Asked
<1>2. CASE Current(p, d.of)
  <2>1. op[p] = "prune" /\ d.of \in todo[p] /\ todo[p] \subseteq Backup
    BY <1>2 DEF Current, TypeOK
  <2>2. \A v \in todo[p] : born[v] # 0 BY <2>1 DEF Answers
  <2>3. \A v \in todo[p] : born'[v] = born[v] BY <2>1, <2>2, BornStays
  <2>4. Current(p, d.of)' BY <1>2, <2>1, <2>3 DEF Current, Newer
  <2> QED BY <2>4 DEF Asked
<1> QED BY <1>1, <1>2 DEF Asked

(* It is enough to look at the lists and requests a step adds.             *)
LEMMA AnswersStay ==
  ASSUME TypeOK, Ages, Written, Answers, [Next]_vars,
         \A b \in file' : b \in file \/ node[b] # "done",
         \A p \in Proc : op'[p] \in {"prune", "delete"} =>
           \/ op'[p] = op[p] /\ todo'[p] \subseteq todo[p]
           \/ \A v \in todo'[p] : born[v] # 0,
         \A d \in deletes' : d.of \in Backup /\ born[d.of] # 0,
         \A d \in deletes' : d.at = "ok" => d \in deletes \/ d.of \notin file',
         \A d \in deletes' : d.by \in Proc =>
           \/ Asked(d) /\ op'[d.by] = op[d.by] /\ todo'[d.by] = todo[d.by]
           \/ op'[d.by] = "delete" /\ todo'[d.by] = {d.of}
  PROVE  Answers'
<1>0. TypeOK' BY NextTypeOK
<1>1. ASSUME NEW p \in Proc, op'[p] \in {"prune", "delete"}, NEW v \in todo'[p]
      PROVE  born'[v] # 0
  <2>1. v \in Backup BY <1>0, <1>1 DEF TypeOK
  <2>2. born[v] # 0 BY <1>1 DEF Answers
  <2> QED BY <2>1, <2>2, BornStays
<1>2. \A d \in deletes' : born'[d.of] # 0
  BY BornStays
<1>3. ASSUME NEW d \in deletes', d.at = "ok" PROVE d.of \notin file'
  <2>1. node[d.of] = "done" BY <1>3 DEF Written
  <2> QED BY <1>3, <2>1 DEF Answers
<1>4. ASSUME NEW d \in deletes', d.by \in Proc PROVE Asked(d)'
  <2>1. d \in Request BY <1>0 DEF TypeOK
  <2> QED BY <1>4, <2>1, AskedStays DEF Asked
<1> QED BY <1>1, <1>2, <1>3, <1>4 DEF Answers

(* Requests nobody waits for any more.                                     *)
LEMMA AbandonRequests ==
  ASSUME TypeOK, Answers, NEW p \in Proc, Abandon(p)
  PROVE  /\ \A d \in deletes' : d.of \in Backup /\ born[d.of] # 0
         /\ \A d \in deletes' : d.by \in Proc => d \in deletes /\ d.by # p
         /\ \A d \in deletes' : d.at = "ok" => d \in deletes
<1>1. ASSUME NEW d \in deletes'
      PROVE  \/ d \in deletes /\ d.by # p
             \/ d.by = NoOne /\ d.at = "sent" /\ \E e \in deletes : e.of = d.of
  BY <1>1 DEF Abandon, Unanswered, Mine, Request, TypeOK
<1> QED BY <1>1, NoOneAssumption DEF Answers, Request, TypeOK

LEMMA StoppedRequests ==
  ASSUME TypeOK, Answers, Stopped
  PROVE  /\ \A d \in deletes' : d.of \in Backup /\ born[d.of] # 0
         /\ \A d \in deletes' : d.by \notin Proc /\ d.at # "ok"
         /\ \A p \in Proc : op'[p] = "idle"
<1>1. ASSUME NEW d \in deletes'
      PROVE  d.by = NoOne /\ d.at = "sent" /\ \E e \in deletes : e.of = d.of
  BY <1>1 DEF Stopped, Unanswered, Request, TypeOK
<1> QED BY <1>1, NoOneAssumption DEF Stopped, Answers, Request, TypeOK

(* A process that deletes nothing has no request open.                     *)
LEMMA IdleHasNone ==
  ASSUME Answers, NEW p \in Proc, op[p] \notin {"prune", "delete"}, NEW d \in deletes
  PROVE  d.by # p
BY DEF Answers, Asked, Current

LEMMA NextAnswers ==
  ASSUME TypeOK, Ages, Written, Answers, [Next]_vars
  PROVE  Answers'
<1> USE DEF stored, tasks, items, ops
<1>0. /\ \A d \in deletes : d.of \in Backup /\ born[d.of] # 0
      /\ \A d \in deletes : d.by \in Proc => Asked(d)
  BY DEF Answers, TypeOK, Request
<1>1. CASE UNCHANGED <<op, todo, deletes>> /\ \A b \in file' : b \in file \/ node[b] # "done"
  BY <1>0, <1>1, AnswersStay
<1>2. CASE Stopped /\ UNCHANGED file
  BY <1>2, StoppedRequests, AnswersStay
<1>3. ASSUME NEW p \in Proc, PruneStart(p) PROVE Answers'
  <2>1. \A v \in Excess : born[v] # 0 BY DEF Excess, Items, Ages
  <2>2. /\ UNCHANGED <<deletes, file>> /\ todo' = [todo EXCEPT ![p] = Excess]
        /\ op[p] = "idle" /\ op' = [op EXCEPT ![p] = "prune"]
    BY <1>3 DEF PruneStart
  <2>3. \A d \in deletes : d.by # p BY <2>2, IdleHasNone
  <2> QED BY <1>0, <2>1, <2>2, <2>3, AnswersStay DEF TypeOK
<1>4. ASSUME NEW p \in Proc, PruneEnd(p) PROVE Answers'
  <2>1. \A d \in deletes : d.by # p
    BY <1>0, <1>4 DEF PruneEnd, Asked, Current
  <2>2. UNCHANGED <<deletes, file, todo>> /\ op' = [op EXCEPT ![p] = "idle"]
    BY <1>4 DEF PruneEnd
  <2> QED BY <1>0, <2>1, <2>2, AnswersStay DEF TypeOK
<1>5. ASSUME NEW p \in Proc, NEW v \in Backup, PruneAsk(p, v) PROVE Answers'
  <2>1. UNCHANGED <<op, todo, file>> /\ Current(p, v) BY <1>5 DEF PruneAsk
  <2>2. born[v] # 0 BY <2>1 DEF Current, Answers
  <2>3. \A d \in deletes' : d \in deletes \/ (d.by = p /\ d.of = v /\ d.at = "sent")
    BY <1>5 DEF PruneAsk, Ask
  <2>4. \A d \in deletes' : d.by \in Proc => Asked(d)
    BY <1>0, <2>1, <2>3 DEF Asked
  <2>5. \A d \in deletes' : d.of \in Backup /\ born[d.of] # 0
    BY <1>0, <2>2, <2>3
  <2>6. \A d \in deletes' : d.at = "ok" => d \in deletes
    BY <2>3
  <2> QED BY <2>1, <2>4, <2>5, <2>6, AnswersStay
<1>6. ASSUME NEW p \in Proc, NEW v \in Backup, PruneDone(p, v) \/ PruneFail(p, v)
      PROVE  Answers'
  <2>1. UNCHANGED <<op, file>> /\ todo' = [todo EXCEPT ![p] = @ \ {v}]
    BY <1>6 DEF PruneDone, PruneFail
  <2>2. /\ \A d \in deletes' : d.of \in Backup /\ born[d.of] # 0
        /\ \A d \in deletes' : d.by \in Proc => d \in deletes /\ d.by # p
        /\ \A d \in deletes' : d.at = "ok" => d \in deletes
    BY <1>0, <1>6, AbandonRequests DEF PruneDone, PruneFail, Mine
  <2>3. \A q \in Proc : todo'[q] \subseteq todo[q] /\ (q # p => todo'[q] = todo[q])
    BY <2>1 DEF TypeOK
  <2> QED BY <1>0, <2>1, <2>2, <2>3, AnswersStay
<1>7. ASSUME NEW p \in Admin, NEW b \in Backup, DeleteStart(p, b) PROVE Answers'
  <2>0. p \in Proc BY DEF Proc
  <2>1. born[b] # 0 /\ op[p] = "idle" /\ UNCHANGED file
    BY <1>7 DEF DeleteStart, Ages, Items
  <2>2. CASE op' = [op EXCEPT ![p] = "delete"] /\ todo' = [todo EXCEPT ![p] = {b}] /\ Ask(p, b)
    <3>1. \A d \in deletes' : d \in deletes \/ (d.by = p /\ d.of = b /\ d.at = "sent")
      BY <2>2 DEF Ask
    <3>2. \A d \in deletes : d.by # p BY <2>0, <2>1, IdleHasNone
    <3>3. /\ op'[p] = "delete" /\ todo'[p] = {b}
          /\ \A q \in Proc : q # p => op'[q] = op[q] /\ todo'[q] = todo[q]
      BY <2>0, <2>2 DEF TypeOK
    <3>4. \A d \in deletes' : d.of \in Backup /\ born[d.of] # 0
      BY <1>0, <2>1, <3>1
    <3>5. \A d \in deletes' : d.at = "ok" => d \in deletes
      BY <3>1
    <3>6. \A d \in deletes' : d.by \in Proc =>
             \/ Asked(d) /\ op'[d.by] = op[d.by] /\ todo'[d.by] = todo[d.by]
             \/ op'[d.by] = "delete" /\ todo'[d.by] = {d.of}
      BY <1>0, <3>1, <3>2, <3>3
    <3>7. \A q \in Proc : op'[q] \in {"prune", "delete"} =>
             \/ op'[q] = op[q] /\ todo'[q] \subseteq todo[q]
             \/ \A v \in todo'[q] : born[v] # 0
      BY <2>1, <3>3
    <3> QED BY <2>1, <3>4, <3>5, <3>6, <3>7, AnswersStay
  <2> QED BY <1>1, <1>7, <2>1, <2>2 DEF DeleteStart
<1>8. ASSUME NEW p \in Admin, Delete(p) PROVE Answers'
  <2>0. p \in Proc BY DEF Proc
  <2>1. /\ op' = [op EXCEPT ![p] = "idle"] /\ todo' = [todo EXCEPT ![p] = {}]
        /\ UNCHANGED file
    BY <1>8 DEF Delete, DeleteDone, DeleteFail, Finish
  <2>2. /\ \A d \in deletes' : d.of \in Backup /\ born[d.of] # 0
        /\ \A d \in deletes' : d.by \in Proc => d \in deletes /\ d.by # p
        /\ \A d \in deletes' : d.at = "ok" => d \in deletes
    BY <1>0, <1>8, <2>0, AbandonRequests DEF Delete, DeleteDone, DeleteFail, Mine
  <2>3. /\ op'[p] = "idle"
        /\ \A q \in Proc : q # p => op'[q] = op[q] /\ todo'[q] = todo[q]
    BY <2>0, <2>1 DEF TypeOK
  <2>4. \A d \in deletes' : d.by \in Proc => Asked(d) /\ op'[d.by] = op[d.by] /\ todo'[d.by] = todo[d.by]
    BY <1>0, <2>2, <2>3
  <2>5. \A q \in Proc : op'[q] \in {"prune", "delete"} => op'[q] = op[q] /\ todo'[q] \subseteq todo[q]
    BY <2>3
  <2> QED BY <2>1, <2>2, <2>4, <2>5, AnswersStay
<1>9. ASSUME NEW p \in Admin, (\E b \in Backup : VerifyStart(p, b)) \/ Verify(p) PROVE Answers'
  <2>0. p \in Proc BY DEF Proc
  <2>1. /\ op[p] \notin {"prune", "delete"} /\ UNCHANGED <<deletes, file>>
        /\ op'[p] \notin {"prune", "delete"}
        /\ \A q \in Proc : q # p => op'[q] = op[q] /\ todo'[q] = todo[q]
    BY <1>9, <2>0 DEF VerifyStart, Verify, VerifyList, NodeSums, VerifyDone, VerifyFail,
                      Finish, TypeOK
  <2>2. \A d \in deletes : d.by # p BY <2>0, <2>1, IdleHasNone
  <2> QED BY <1>0, <2>1, <2>2, AnswersStay
<1>10. ASSUME NEW e \in deletes, NodeDeletes(e) PROVE Answers'
  <2>1. UNCHANGED <<op, todo>> /\ file' = file \ {e.of} BY <1>10 DEF NodeDeletes
  <2>2. \A d \in deletes' : \/ d \in deletes
                            \/ d.by = e.by /\ d.of = e.of
    BY <1>10 DEF NodeDeletes, TypeOK, Request
  <2>3. \A d \in deletes' : d.of \in Backup /\ born[d.of] # 0
    BY <1>0, <2>2
  <2>4. \A d \in deletes' : d.by \in Proc => Asked(d)
    BY <1>0, <2>2 DEF Asked
  <2>5. \A d \in deletes' : d.at = "ok" => d \in deletes \/ d.of \notin file'
    BY <2>1, <2>2
  <2> QED BY <2>1, <2>3, <2>4, <2>5, AnswersStay
<1>11. ASSUME NEW b \in Backup, NodeBacksUp(b) PROVE Answers'
  <2>1. \A c \in file' : c \in file \/ node[c] # "done" BY <1>11 DEF NodeBacksUp
  <2> QED BY <1>1, <1>11, <2>1 DEF NodeBacksUp
<1> QED
  BY <1>1, <1>2, <1>3, <1>4, <1>5, <1>6, <1>7, <1>8, <1>9, <1>10, <1>11
  DEF Next, Retire, Settle, StartBackup, RunScheduled, Answered, Fail, Record,
      NodeAdminDelete, Restart, Tick, vars

(* Of two answers to a prune the archive is the same one.                  *)
LEMMA AnswerIsCurrent ==
  ASSUME TypeOK, Written, Answers, NEW p \in Proc, NEW v \in Backup, PruneDone(p, v)
  PROVE  v \notin file
<1>1. PICK d \in deletes : d.by = p /\ d.at = "ok"
  BY DEF PruneDone, Mine
<1>2. Current(p, v) /\ Current(p, d.of)
  BY <1>1 DEF PruneDone, Answers, Asked, Current
<1>3. d.of \in Backup /\ born[d.of] # 0 /\ born[v] # 0
  BY <1>1, <1>2 DEF Answers, TypeOK, Request, Current
<1>4. born[d.of] = born[v]
  BY <1>2, <1>3 DEF Current, Newer, TypeOK
<1>5. d.of = v BY <1>3, <1>4 DEF Written
<1> QED BY <1>1, <1>5 DEF Answers

(* Where an item goes.                                                     *)
LEMMA ForgetsDeleted ==
  ASSUME DInv, [Next]_vars, NEW b \in Backup, item[b] # "none", item'[b] = "none"
  PROVE  b \notin file \/ (b \notin ref /\ b \in hand')
<1> USE DEF stored, tasks, items, ops, DInv
<1>1. ASSUME NEW p \in Proc, NEW v \in Backup, PruneDone(p, v) PROVE b \notin file
  <2>1. b = v BY <1>1 DEF PruneDone, Forget
  <2> QED BY <1>1, <2>1, AnswerIsCurrent
<1>2. ASSUME NEW p \in Admin, DeleteDone(p) PROVE b \notin file
  <2>0. p \in Proc BY DEF Proc
  <2>1. PICK d \in deletes : d.by = p /\ d.at = "ok" BY <1>2 DEF DeleteDone, Mine
  <2>2. todo[p] = {d.of} BY <1>2, <2>0, <2>1 DEF DeleteDone, Answers, Asked, Current
  <2>3. b \in todo[p] BY <1>2 DEF DeleteDone, Forget
  <2> QED BY <2>1, <2>2, <2>3 DEF Answers
<1>3. ASSUME NEW p \in Admin, NEW c \in Backup, DeleteStart(p, c)
      PROVE  b \notin ref /\ b \in hand'
  BY <1>3 DEF DeleteStart, Forget
<1>4. CASE \E c \in Backup, known \in BOOLEAN : Record(c, known)
  BY <1>4 DEF Record, TypeOK
<1>5. CASE \E p \in Proc, v \in Backup : PruneFail(p, v)
  BY <1>5 DEF PruneFail, Mark
<1>6. CASE \E p \in Admin : Verify(p)
  BY <1>6 DEF Verify, VerifyList, NodeSums, VerifyDone, VerifyFail, Mark
<1> QED
  BY <1>1, <1>2, <1>3, <1>4, <1>5, <1>6
  DEF Next, Retire, Settle, Delete, StartBackup, RunScheduled, NodeBacksUp, Answered, Fail,
      NodeAdminDelete, PruneStart, PruneEnd, PruneAsk, DeleteFail, VerifyStart, NodeDeletes,
      Restart, Tick, vars

(* What completes a task, and what puts an archive on the storage.         *)
LEMMA NextCatalogued ==
  ASSUME DInv, CompletedIsCatalogued, [Next]_vars
  PROVE  CompletedIsCatalogued'
<1> USE DEF stored, tasks, items, ops, DInv
<1> SUFFICES ASSUME NEW b \in Backup, outcome'[b] = "completed", b \in file' \ hand'
             PROVE  item'[b] # "none"
  BY DEF CompletedIsCatalogued
<1>1. hand \subseteq hand' BY HandGrows
<1>2. ASSUME NEW c \in Backup, NEW known \in BOOLEAN, Record(c, known)
      PROVE  item'[b] # "none"
  BY <1>1, <1>2 DEF Record, CompletedIsCatalogued, TypeOK
<1>3. ASSUME outcome[b] = "completed" PROVE item'[b] # "none"
  <2>1. b \in file
    <3>1. node[b] = "done" BY <1>3 DEF Written
    <3>2. (\E c \in Backup : NodeBacksUp(c)) \/ file' \subseteq file
      BY DEF Next, Retire, Settle, Delete, StartBackup, RunScheduled, Answered, Fail,
             Record, NodeAdminDelete, PruneStart, PruneEnd, PruneAsk, PruneDone, PruneFail,
             DeleteStart, DeleteDone, DeleteFail, VerifyStart, Verify, VerifyList, NodeSums,
             VerifyDone, VerifyFail, NodeDeletes, Restart, Tick, vars
    <3>3. ASSUME NEW c \in Backup, NodeBacksUp(c) PROVE b \in file
      BY <3>1, <3>3 DEF NodeBacksUp
    <3> QED BY <3>2, <3>3
  <2>2. item[b] # "none" BY <1>1, <1>3, <2>1 DEF CompletedIsCatalogued
  <2> QED BY <2>1, <2>2, ForgetsDeleted
<1>4. outcome[b] = "completed" \/ \E c \in Backup, known \in BOOLEAN : Record(c, known)
  <2>1. CASE \E c \in Backup, g \in Guest : Begin(c, g, "job") \/ Begin(c, g, "admin")
    BY <2>1 DEF Begin, TypeOK
  <2>2. CASE Stopped
    BY <2>2 DEF Stopped
  <2>3. CASE \E c \in Backup : Fail(c)
    BY <2>3 DEF Fail, TypeOK
  <2> QED
    BY <2>1, <2>2, <2>3
    DEF Next, Retire, Settle, Delete, StartBackup, RunScheduled, NodeBacksUp,
        Answered, NodeAdminDelete, PruneStart, PruneEnd, PruneAsk, PruneDone,
        PruneFail, DeleteStart, DeleteDone, DeleteFail, VerifyStart, Verify, VerifyList,
        NodeSums, VerifyDone, VerifyFail, NodeDeletes, Restart, Tick, vars
<1> QED BY <1>2, <1>3, <1>4

-----------------------------------------------------------------------------
(* Theorems.                                                               *)

(* The catalogue, the storage, the closures and the requests keep their    *)
(* types, whatever the retention limits.                                   *)
THEOREM TypeCorrect == Spec => []TypeOK
<1>1. Init => TypeOK /\ Ages BY InitTypeOK, InitAges
<1>2. TypeOK /\ Ages /\ [Next]_vars => (TypeOK /\ Ages)' BY NextTypeOK, NextAges
<1> QED BY <1>1, <1>2, PTL DEF Spec

(* The inductive invariant: what retention has listed or asked a node to   *)
(* delete was superseded by a later backup, what a DELETE works on was     *)
(* chosen, and everything else that was catalogued is still there.         *)
THEOREM RetentionInvariant == ASSUME SomeLimit PROVE Spec => []IInv
<1>1. Init => IInv
  BY InitTypeOK, InitAges DEF Init, IInv, Victims, Archives
<1>2. IInv /\ [Next]_vars => IInv'
  BY NextTypeOK, NextAges, NextVictims, NextArchives DEF IInv
<1> QED BY <1>1, <1>2, PTL DEF Spec

(* With a positive limit neither a prune nor anything that overlaps with   *)
(* it takes away the last archive that was catalogued.                     *)
THEOREM LastArchiveIsKept == Spec => []LatestArchiveStays
<1>1. CASE SomeLimit
  <2>1. IInv => LatestArchiveStays
    BY DEF IInv, Archives, Doomed, Superseded, LatestArchiveStays
  <2> QED BY <1>1, <2>1, RetentionInvariant, PTL
<1>2. CASE ~SomeLimit
  <2>1. LatestArchiveStays BY <1>2 DEF SomeLimit, LatestArchiveStays
  <2> QED BY <2>1, PTL
<1> QED BY <1>1, <1>2

(* The inductive invariant of deletions, for any limits: a request is      *)
(* about what its sender deletes now, and a confirmed one has removed the  *)
(* archive for good.                                                       *)
THEOREM DeletionInvariant == Spec => []DInv
<1>1. Init => DInv
  BY InitTypeOK, InitAges, InitWritten DEF DInv
<1>2. DInv /\ [Next]_vars => DInv'
  BY NextTypeOK, NextAges, NextWritten, NextAnswers DEF DInv
<1> QED BY <1>1, <1>2, PTL DEF Spec

(* A backup reported complete is in the catalogue as long as its archive   *)
(* is there and nobody chose to delete it.                                 *)
THEOREM CompletedStaysCatalogued == Spec => []CompletedIsCatalogued
<1>1. Init => CompletedIsCatalogued
  BY DEF Init, CompletedIsCatalogued
<1>2. DInv /\ CompletedIsCatalogued /\ [Next]_vars => CompletedIsCatalogued'
  BY NextCatalogued
<1> QED BY <1>1, <1>2, DeletionInvariant, PTL DEF Spec

(* An item that could still address its archive goes only after it.        *)
THEOREM NothingIsLeftBehind == Spec => ForgottenIsDeleted
<1>1. DInv /\ [Next]_vars
        => [\A b \in Backup : item[b] # "none" /\ item'[b] = "none"
              => b \notin file \/ b \notin ref]_vars
  BY ForgetsDeleted
<1> QED BY <1>1, DeletionInvariant, PTL DEF Spec, ForgottenIsDeleted
=============================================================================
