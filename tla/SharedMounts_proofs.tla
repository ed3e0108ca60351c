------------------------- MODULE SharedMounts_proofs -------------------------
(***************************************************************************)
(* What holds of callers, rows and mounts for any number of operations and *)
(* of calls under way.                                                     *)
(***************************************************************************)
EXTENDS SharedMounts, SequenceTheorems, TLAPS

LEMMA MapSeq ==
  ASSUME NEW S, NEW s \in Seq(S), NEW t \in [DOMAIN s -> S]
  PROVE  t \in Seq(S) /\ Len(t) = Len(s)
<1>1. Len(s) \in Nat /\ DOMAIN s = 1 .. Len(s)
  BY LenProperties
<1>2. t = [i \in 1 .. Len(s) |-> t[i]]
  BY <1>1
<1> QED
  BY <1>1, <1>2, SMT

LEMMA Lines ==
  ASSUME TypeOK
  PROVE  /\ Len(line) \in Nat /\ DOMAIN line = 1 .. Len(line)
         /\ \A i \in DOMAIN line : line[i] \in Entry
  BY LenProperties, ElementOfSeq DEF TypeOK

-----------------------------------------------------------------------------
(* Types.                                                                  *)
LEMMA TypeInit == Init => TypeOK
<1> SUFFICES ASSUME Init PROVE TypeOK
  OBVIOUS
<1>1. << >> \in Seq(Entry) /\ Len(<< >>) = 0
  BY EmptySeq
<1>2. line \in Seq(Entry) /\ Len(line) <= MaxLine
  BY <1>1, SharedAssumption DEF Init
<1>3. row \in Row /\ sync \subseteq Failures
  BY DEF Init, Row, Failures
<1>4. /\ quiet \in BOOLEAN /\ pool \in BOOLEAN /\ outlived \in BOOLEAN
      /\ kind \in {"s3", "nfs"} /\ mount \in {"none", "live", "dead"}
      /\ caller \in [Caller -> {"idle", "list", "delete", "create", "waiting"}]
  BY DEF Init
<1> QED
  BY <1>2, <1>3, <1>4 DEF TypeOK

LEMMA SetType ==
  ASSUME TypeOK, NEW c \in Caller \cup {Nobody},
         NEW to \in {"idle", "list", "delete", "create", "waiting"}, Set(c, to)
  PROVE  caller' \in [Caller -> {"idle", "list", "delete", "create", "waiting"}]
  BY DEF TypeOK, Set

LEMMA LineMapped ==
  ASSUME TypeOK, line' \in [DOMAIN line -> Entry]
  PROVE  line' \in Seq(Entry) /\ Len(line') <= MaxLine
<1>1. line' \in Seq(Entry) /\ Len(line') = Len(line)
  BY MapSeq DEF TypeOK
<1> QED
  BY <1>1 DEF TypeOK

LEMMA TypeStep == TypeOK /\ [Next]_vars => TypeOK'
<1> SUFFICES ASSUME TypeOK, [Next]_vars PROVE TypeOK'
  OBVIOUS
<1> USE SharedAssumption DEF Caller
<1>0. /\ Len(line) \in Nat /\ DOMAIN line = 1 .. Len(line)
      /\ \A i \in DOMAIN line : line[i] \in Entry
  BY Lines
<1>1. CASE SyncBegins
  BY <1>1 DEF SyncBegins, TypeOK, Row, mountVars
<1>2. CASE Joins
  BY <1>2 DEF Joins, TypeOK, Row, mountVars
<1>3. ASSUME NEW f \in Failures, SyncEnds(f) PROVE TypeOK'
  BY <1>3 DEF SyncEnds, Healthy, Failing, Failures, TypeOK, Row, mountVars
<1>4. CASE RoundBegins
  BY <1>4, SetType DEF RoundBegins, TypeOK, healthVars
<1>5. ASSUME NEW c \in Op, OperationBegins(c) PROVE TypeOK'
  BY <1>5, SetType DEF OperationBegins, TypeOK, healthVars
<1>6. ASSUME NEW c \in Caller, Listed(c) PROVE TypeOK'
  BY <1>6, SetType DEF Listed, AfterList, TypeOK, healthVars
<1>7. ASSUME NEW c \in Caller, NEW op \in {"umount", "mount"}, Ask(op, c)
      PROVE  /\ line' \in Seq(Entry) /\ Len(line') <= MaxLine
             /\ caller' \in [Caller -> {"idle", "list", "delete", "create", "waiting"}]
  <2>1. [op |-> op, by |-> c, heard |-> TRUE, stage |-> "waiting"] \in Entry
    BY DEF Entry
  <2>2. line' \in Seq(Entry) /\ Len(line') = Len(line) + 1
    BY <1>7, <2>1 DEF Ask, TypeOK
  <2>3. caller' \in [Caller -> {"idle", "list", "delete", "create", "waiting"}]
    BY <1>7, SetType DEF Ask
  <2>4. Len(line) < MaxLine
    BY <1>7 DEF Ask
  <2> QED
    BY <1>0, <2>2, <2>3, <2>4
<1>8. ASSUME NEW c \in Caller, DeleteArrives(c) PROVE TypeOK'
  <2>1. CASE pool
    BY <1>7, <1>8, <2>1 DEF DeleteArrives, TypeOK, healthVars
  <2>2. CASE ~pool
    BY <1>8, <2>2, SetType DEF DeleteArrives, TypeOK, healthVars
  <2> QED
    BY <2>1, <2>2
<1>9. ASSUME NEW c \in Caller, CreateArrives(c) PROVE TypeOK'
  BY <1>7, <1>9 DEF CreateArrives, TypeOK, healthVars
<1>10. ASSUME NEW i \in 1 .. MaxLine, RunnerBegins(i) PROVE TypeOK'
  <2>1. line' \in [DOMAIN line -> Entry]
    BY <1>0, <1>10 DEF RunnerBegins, Turn, Entry
  <2> QED
    BY <1>10, <2>1, LineMapped DEF RunnerBegins, TypeOK, healthVars
<1>11. ASSUME NEW i \in 1 .. MaxLine, RunnerEnds(i) PROVE TypeOK'
  <2>1. line' \in [DOMAIN line -> Entry]
    BY <1>0, <1>11 DEF RunnerEnds, Umounts, Mounts, Answer, Turn, Entry
  <2>2. /\ mount' \in {"none", "live", "dead"}
        /\ outlived' \in BOOLEAN
    BY <1>0, <1>11 DEF RunnerEnds, Umounts, Mounts, Turn, Entry, TypeOK
  <2> QED
    BY <1>11, <2>1, <2>2, LineMapped DEF RunnerEnds, TypeOK, healthVars
<1>12. CASE ApiReads
  <2>1. /\ Head(line) \in Entry /\ Tail(line) \in Seq(Entry)
        /\ Len(Tail(line)) = Len(line) - 1
    BY <1>12, HeadTailProperties DEF ApiReads, TypeOK
  <2>2. caller' \in [Caller -> {"idle", "list", "delete", "create", "waiting"}]
    BY <1>12, <2>1, SetType DEF ApiReads, Onward, Entry
  <2>3. pool' \in BOOLEAN
    BY <1>12 DEF ApiReads, Registered, TypeOK
  <2> QED
    BY <1>0, <1>12, <2>1, <2>2, <2>3 DEF ApiReads, TypeOK, healthVars
<1>13. ASSUME NEW c \in Caller, VdmGivesUp(c) PROVE TypeOK'
  <2>1. line' \in [DOMAIN line -> Entry]
    BY <1>0, <1>13 DEF VdmGivesUp, Forgotten, Entry
  <2> QED
    BY <1>13, <2>1, LineMapped, SetType DEF VdmGivesUp, TypeOK, healthVars
<1>14. CASE VdmRestarts
  <2>1. line' \in [DOMAIN line -> Entry]
    BY <1>0, <1>14 DEF VdmRestarts, Forgotten, Entry
  <2> QED
    BY <1>14, <2>1, LineMapped DEF VdmRestarts, TypeOK
<1>15. ASSUME NEW i \in 1 .. MaxLine, CallTimesOut(i) PROVE TypeOK'
  <2>1. line' \in [DOMAIN line -> Entry]
    BY <1>0, <1>15 DEF CallTimesOut, Unheard, Entry
  <2>2. line[i].by \in Caller \cup {Nobody}
    BY <1>0, <1>15 DEF CallTimesOut, Entry
  <2> QED
    BY <1>15, <2>1, <2>2, LineMapped, SetType DEF CallTimesOut, TypeOK, healthVars
<1>16. CASE ApiRestarts
  <2>1. line' \in [DOMAIN line -> Entry]
    BY <1>0, <1>16 DEF ApiRestarts, Unheard, Entry
  <2> QED
    BY <1>16, <2>1, LineMapped DEF ApiRestarts, TypeOK, healthVars
<1>17. CASE RunnerRestarts
  <2>1. line' \in [DOMAIN line -> Entry]
    BY <1>0, <1>17 DEF RunnerRestarts, Entry
  <2> QED
    BY <1>17, <2>1, LineMapped DEF RunnerRestarts, TypeOK, healthVars
<1>18. CASE NodeReboots
  <2>1. << >> \in Seq(Entry) /\ Len(<< >>) = 0
    BY EmptySeq
  <2> QED
    BY <1>18, <2>1 DEF NodeReboots, TypeOK, healthVars
<1>19. CASE MountChanges
  BY <1>19 DEF MountChanges, TypeOK, healthVars
<1>20. CASE Quietens
  BY <1>20 DEF Quietens, TypeOK, healthVars, mountVars
<1>21. CASE UNCHANGED vars
  BY <1>21 DEF vars, healthVars, mountVars, TypeOK
<1> QED
  BY <1>1, <1>2, <1>3, <1>4, <1>5, <1>6, <1>8, <1>9, <1>10, <1>11, <1>12, <1>13,
     <1>14, <1>15, <1>16, <1>17, <1>18, <1>19, <1>20, <1>21
     DEF Next, Step, Runner

(* The two tables, the callers and the line keep their types                *)
(* (ensureStorageMountedOnNode, storage_pools, poolOpLocks).                *)
THEOREM TypeCorrect == Spec => []TypeOK
  BY TypeInit, TypeStep, PTL DEF Spec

-----------------------------------------------------------------------------
(* Callers.                                                                *)
Waiters ==
  /\ \A i \in DOMAIN line :
       line[i].by # Nobody => line[i].heard /\ caller[line[i].by] = "waiting"
  /\ \A i, j \in DOMAIN line :
       line[i].by = line[j].by /\ line[i].by # Nobody => i = j
  /\ \A c \in Caller :
       caller[c] = "waiting" => \E i \in DOMAIN line : line[i].by = c

LEMMA WaitersInit == Init => Waiters
  BY DEF Init, Waiters

(* A call that neither waits nor is waited for may change its own step.     *)
LEMMA OtherCaller ==
  ASSUME TypeOK, Waiters, NEW c \in Caller, caller[c] # "waiting",
         NEW to \in {"idle", "list", "delete", "create"}, Set(c, to),
         UNCHANGED line
  PROVE  Waiters'
<1>1. c # Nobody
  BY SharedAssumption DEF Caller
<1> QED
  BY <1>1 DEF TypeOK, Waiters, Set

LEMMA AskedFor ==
  ASSUME TypeOK, Waiters, NEW c \in Caller, caller[c] # "waiting",
         NEW op \in {"umount", "mount"}, Ask(op, c)
  PROVE  Waiters'
<1>0. c # Nobody
  BY SharedAssumption DEF Caller
<1> DEFINE new == [op |-> op, by |-> c, heard |-> TRUE, stage |-> "waiting"]
<1>1. /\ Len(line) \in Nat /\ DOMAIN line = 1 .. Len(line)
      /\ \A i \in DOMAIN line : line[i] \in Entry
  BY Lines
<1>2. new \in Entry
  BY DEF Entry
<1>3. /\ DOMAIN line' = 1 .. Len(line) + 1
      /\ \A i \in DOMAIN line : line'[i] = line[i]
      /\ line'[Len(line) + 1] = new
  BY <1>1, <1>2 DEF Ask, TypeOK
<1>4. /\ caller'[c] = "waiting"
      /\ \A d \in Caller : d # c => caller'[d] = caller[d]
  BY <1>0 DEF Ask, Set, TypeOK
<1>5. \A i \in DOMAIN line : line[i].by # c
  BY <1>0 DEF Waiters
<1>6. \A i \in DOMAIN line' : i \in DOMAIN line \/ line'[i] = new
  BY <1>1, <1>3
<1>7. \A i \in DOMAIN line : line[i].by \in Caller \cup {Nobody}
  BY <1>1 DEF Entry
<1>8. \A i \in DOMAIN line' :
        line'[i].by # Nobody => line'[i].heard /\ caller'[line'[i].by] = "waiting"
  <2> TAKE i \in DOMAIN line'
  <2>1. CASE i \in DOMAIN line
    BY <1>3, <1>4, <1>5, <1>7, <2>1 DEF Waiters
  <2>2. CASE line'[i] = new
    BY <1>4, <2>2
  <2> QED
    BY <1>6, <2>1, <2>2
<1>9. \A i, j \in DOMAIN line' :
        line'[i].by = line'[j].by /\ line'[i].by # Nobody => i = j
  BY <1>1, <1>3, <1>5, <1>6 DEF Waiters
<1>10. \A d \in Caller :
         caller'[d] = "waiting" => \E i \in DOMAIN line' : line'[i].by = d
  <2> TAKE d \in Caller
  <2>1. CASE d = c
    BY <1>1, <1>3, <2>1
  <2>2. CASE d # c
    BY <1>1, <1>3, <1>4, <2>2 DEF Waiters
  <2> QED
    BY <2>1, <2>2
<1> QED
  BY <1>8, <1>9, <1>10 DEF Waiters

(* Work goes on without touching who waits for it.                          *)
LEMMA SameWaiters ==
  ASSUME TypeOK, Waiters, UNCHANGED caller,
         DOMAIN line' = DOMAIN line,
         \A i \in DOMAIN line : /\ line'[i].by = line[i].by
                                /\ line'[i].heard = line[i].heard
  PROVE  Waiters'
  BY DEF Waiters

(* One caller, or all of them, is forgotten and idle.                       *)
LEMMA Given ==
  ASSUME TypeOK, Waiters, NEW C \in SUBSET Caller,
         caller' = [c \in Caller |-> IF c \in C THEN "idle" ELSE caller[c]],
         DOMAIN line' = DOMAIN line,
         \A i \in DOMAIN line :
           IF line[i].by \in C THEN line'[i].by = Nobody
           ELSE /\ line'[i].by = line[i].by
                /\ line[i].by # Nobody => line'[i].heard = line[i].heard
  PROVE  Waiters'
<1>1. \A i \in DOMAIN line : line[i].by \in Caller \cup {Nobody}
  BY Lines DEF Entry
<1>2. Nobody \notin Caller
  BY SharedAssumption DEF Caller
<1>3. \A i \in DOMAIN line' :
        line'[i].by # Nobody => line'[i].heard /\ caller'[line'[i].by] = "waiting"
  BY <1>1, <1>2 DEF Waiters
<1>4. \A i, j \in DOMAIN line' :
        line'[i].by = line'[j].by /\ line'[i].by # Nobody => i = j
  BY <1>1, <1>2 DEF Waiters
<1>5. \A c \in Caller :
        caller'[c] = "waiting" => \E i \in DOMAIN line' : line'[i].by = c
  <2> TAKE c \in Caller
  <2> HAVE caller'[c] = "waiting"
  <2>1. c \notin C /\ caller[c] = "waiting"
    OBVIOUS
  <2>2. PICK i \in DOMAIN line : line[i].by = c
    BY <2>1 DEF Waiters
  <2> QED
    BY <2>1, <2>2
<1> QED
  BY <1>3, <1>4, <1>5 DEF Waiters

LEMMA WaitersStep == TypeOK /\ Waiters /\ [Next]_vars => Waiters'
<1> SUFFICES ASSUME TypeOK, Waiters, [Next]_vars PROVE Waiters'
  OBVIOUS
<1>0. /\ Len(line) \in Nat /\ DOMAIN line = 1 .. Len(line)
      /\ \A i \in DOMAIN line : line[i] \in Entry
      /\ Nobody \notin Caller /\ Op \subseteq Caller /\ Reconciler \in Caller
  BY Lines, SharedAssumption DEF Caller
<1>1. CASE SyncBegins
  BY <1>1 DEF SyncBegins, mountVars, Waiters
<1>2. CASE Joins
  BY <1>2 DEF Joins, mountVars, Waiters
<1>3. ASSUME NEW f \in Failures, SyncEnds(f) PROVE Waiters'
  BY <1>3 DEF SyncEnds, mountVars, Waiters
<1>4. CASE RoundBegins
  BY <1>0, <1>4, OtherCaller DEF RoundBegins
<1>5. ASSUME NEW c \in Op, OperationBegins(c) PROVE Waiters'
  BY <1>0, <1>5, OtherCaller DEF OperationBegins
<1>6. ASSUME NEW c \in Caller, Listed(c) PROVE Waiters'
  BY <1>0, <1>6, OtherCaller DEF Listed, AfterList
<1>8. ASSUME NEW c \in Caller, DeleteArrives(c) PROVE Waiters'
  <2>1. CASE pool
    BY <1>8, <2>1, AskedFor DEF DeleteArrives
  <2>2. CASE ~pool
    BY <1>8, <2>2, OtherCaller DEF DeleteArrives
  <2> QED
    BY <2>1, <2>2
<1>9. ASSUME NEW c \in Caller, CreateArrives(c) PROVE Waiters'
  BY <1>9, AskedFor DEF CreateArrives
<1>10. ASSUME NEW i \in 1 .. MaxLine, RunnerBegins(i) PROVE Waiters'
  <2>1. /\ DOMAIN line' = DOMAIN line
        /\ \A j \in DOMAIN line : /\ line'[j].by = line[j].by
                                  /\ line'[j].heard = line[j].heard
    BY <1>0, <1>10 DEF RunnerBegins, Turn, Entry
  <2> QED
    BY <1>10, <2>1, SameWaiters DEF RunnerBegins
<1>11. ASSUME NEW i \in 1 .. MaxLine, RunnerEnds(i) PROVE Waiters'
  <2>1. /\ DOMAIN line' = DOMAIN line
        /\ \A j \in DOMAIN line : /\ line'[j].by = line[j].by
                                  /\ line'[j].heard = line[j].heard
    BY <1>0, <1>11 DEF RunnerEnds, Umounts, Mounts, Answer, Turn, Entry
  <2> QED
    BY <1>11, <2>1, SameWaiters DEF RunnerEnds
<1>12. CASE ApiReads
  <2>1. /\ Len(Tail(line)) = Len(line) - 1
        /\ \A i \in 1 .. Len(Tail(line)) : Tail(line)[i] = line[i + 1]
        /\ Tail(line) \in Seq(Entry) /\ line # << >>
    BY <1>12, HeadTailProperties DEF ApiReads, TypeOK
  <2>2. Len(line) \in Nat \ {0}
    BY <2>1, EmptySeq DEF TypeOK
  <2>3. Head(line) = line[1]
    BY <2>1 DEF TypeOK
  <2>4. /\ DOMAIN line' = 1 .. Len(line) - 1
        /\ \A i \in DOMAIN line' : i + 1 \in DOMAIN line /\ line'[i] = line[i + 1]
        /\ \A i \in DOMAIN line : i # 1 => i - 1 \in DOMAIN line' /\ line'[i - 1] = line[i]
    BY <1>0, <1>12, <2>1, <2>2, LenProperties DEF ApiReads
  <2>5. 1 \in DOMAIN line /\ line[1].by \in Caller \cup {Nobody}
    BY <1>0, <2>2 DEF Entry
  <2>6. \A i \in DOMAIN line' : line'[i].by # Nobody => line'[i].by # line[1].by
    BY <1>0, <2>4, <2>5 DEF Waiters
  <2>7. /\ \A d \in Caller : d # line[1].by => caller'[d] = caller[d]
        /\ line[1].by # Nobody => caller'[line[1].by] # "waiting"
    BY <1>12, <2>3, <2>5 DEF ApiReads, Set, Onward, TypeOK
  <2>8. \A i \in DOMAIN line' : line'[i].by \in Caller \cup {Nobody}
    BY <1>0, <2>4 DEF Entry
  <2>9. \A i \in DOMAIN line' :
          line'[i].by # Nobody => line'[i].heard /\ caller'[line'[i].by] = "waiting"
    BY <2>4, <2>6, <2>7, <2>8 DEF Waiters
  <2>10. \A i, j \in DOMAIN line' :
          line'[i].by = line'[j].by /\ line'[i].by # Nobody => i = j
    <3> TAKE i, j \in DOMAIN line'
    <3> HAVE line'[i].by = line'[j].by /\ line'[i].by # Nobody
    <3>1. i + 1 = j + 1
      BY <2>4 DEF Waiters
    <3> QED
      BY <2>2, <2>4, <3>1
  <2>11. \A c \in Caller :
           caller'[c] = "waiting" => \E i \in DOMAIN line' : line'[i].by = c
    <3> TAKE c \in Caller
    <3> HAVE caller'[c] = "waiting"
    <3>1. c # line[1].by /\ caller[c] = "waiting"
      BY <1>0, <2>7
    <3>2. PICK i \in DOMAIN line : line[i].by = c
      BY <3>1 DEF Waiters
    <3>3. i # 1
      BY <3>1, <3>2
    <3> QED
      BY <2>4, <3>2, <3>3
  <2> QED
    BY <2>9, <2>10, <2>11 DEF Waiters
<1>13. ASSUME NEW c \in Caller, VdmGivesUp(c) PROVE Waiters'
  <2>1. caller' = [d \in Caller |-> IF d \in {c} THEN "idle" ELSE caller[d]]
    BY <1>0, <1>13 DEF VdmGivesUp, Set, TypeOK
  <2>2. /\ DOMAIN line' = DOMAIN line
        /\ \A i \in DOMAIN line :
             IF line[i].by \in {c} THEN line'[i].by = Nobody
             ELSE line'[i].by = line[i].by /\ line'[i].heard = line[i].heard
    BY <1>0, <1>13 DEF VdmGivesUp, Forgotten, Entry
  <2> QED
    BY <2>1, <2>2, Given
<1>14. CASE VdmRestarts
  <2>1. caller' = [d \in Caller |-> IF d \in Caller THEN "idle" ELSE caller[d]]
    BY <1>14 DEF VdmRestarts
  <2>2. /\ DOMAIN line' = DOMAIN line
        /\ \A i \in DOMAIN line : line'[i].by = Nobody
        /\ \A i \in DOMAIN line : line[i].by \in Caller \cup {Nobody}
    BY <1>0, <1>14 DEF VdmRestarts, Forgotten, Entry
  <2> QED
    BY <2>1, <2>2, Given
<1>15. ASSUME NEW i \in 1 .. MaxLine, CallTimesOut(i) PROVE Waiters'
  <2>0. i \in DOMAIN line /\ line[i].by \in Caller \cup {Nobody}
    BY <1>0, <1>15 DEF CallTimesOut, Entry
  <2>1. caller' = [d \in Caller |-> IF d \in {line[i].by} \ {Nobody} THEN "idle" ELSE caller[d]]
    BY <1>0, <1>15, <2>0 DEF CallTimesOut, Set, TypeOK
  <2>2. \A j \in DOMAIN line :
          line[j].by \in {line[i].by} \ {Nobody} => j = i
    BY <2>0 DEF Waiters
  <2>3. /\ DOMAIN line' = DOMAIN line
        /\ line'[i].by = Nobody
        /\ \A j \in DOMAIN line : j # i => line'[j] = line[j]
    BY <1>0, <1>15, <2>0 DEF CallTimesOut, Unheard, Entry
  <2>4. \A j \in DOMAIN line :
          IF line[j].by \in {line[i].by} \ {Nobody} THEN line'[j].by = Nobody
          ELSE /\ line'[j].by = line[j].by
               /\ line[j].by # Nobody => line'[j].heard = line[j].heard
    BY <2>0, <2>2, <2>3
  <2>5. {line[i].by} \ {Nobody} \in SUBSET Caller
    BY <2>0
  <2> QED
    BY <2>1, <2>3, <2>4, <2>5, Given
<1>16. CASE ApiRestarts
  <2>1. caller' = [d \in Caller |-> IF d \in Caller THEN "idle" ELSE caller[d]]
    BY <1>16 DEF ApiRestarts
  <2>2. /\ DOMAIN line' = DOMAIN line
        /\ \A i \in DOMAIN line : line'[i].by = Nobody
        /\ \A i \in DOMAIN line : line[i].by \in Caller \cup {Nobody}
    BY <1>0, <1>16 DEF ApiRestarts, Unheard, Entry
  <2> QED
    BY <2>1, <2>2, Given
<1>17. CASE RunnerRestarts
  <2>1. /\ DOMAIN line' = DOMAIN line
        /\ \A j \in DOMAIN line : /\ line'[j].by = line[j].by
                                  /\ line'[j].heard = line[j].heard
    BY <1>0, <1>17 DEF RunnerRestarts, Entry
  <2> QED
    BY <1>17, <2>1, SameWaiters DEF RunnerRestarts
<1>18. CASE NodeReboots
  BY <1>18 DEF NodeReboots, Waiters
<1>19. CASE MountChanges
  BY <1>19 DEF MountChanges, Waiters
<1>20. CASE Quietens
  BY <1>20 DEF Quietens, mountVars, Waiters
<1>21. CASE UNCHANGED vars
  BY <1>21 DEF vars, mountVars, Waiters
<1> QED
  BY <1>1, <1>2, <1>3, <1>4, <1>5, <1>6, <1>8, <1>9, <1>10, <1>11, <1>12, <1>13,
     <1>14, <1>15, <1>16, <1>17, <1>18, <1>19, <1>20, <1>21
     DEF Next, Step, Runner

(* Nobody waits for an answer that goes to another or to nobody              *)
(* (createLocalStoragePool, deleteLocalStoragePool, withPoolOpLock).        *)
THEOREM WaitersAreAnswered == Spec => []WaiterIsAnswered
<1>1. TypeOK /\ Waiters => WaiterIsAnswered
  <2> SUFFICES ASSUME TypeOK, Waiters, NEW c \in Caller
               PROVE  LET its == {i \in DOMAIN line : line[i].by = c}
                      IN  IF caller[c] = "waiting"
                          THEN \E i \in its : its = {i} /\ line[i].heard
                          ELSE its = {}
    BY DEF WaiterIsAnswered
  <2>0. c # Nobody
    BY SharedAssumption DEF Caller
  <2> DEFINE its == {i \in DOMAIN line : line[i].by = c}
  <2>1. CASE caller[c] = "waiting"
    <3>1. PICK i \in DOMAIN line : line[i].by = c
      BY <2>1 DEF Waiters
    <3>2. i \in its /\ its = {i} /\ line[i].heard
      BY <2>0, <3>1 DEF Waiters
    <3> QED
      BY <2>1, <3>2
  <2>2. CASE caller[c] # "waiting"
    BY <2>0, <2>2 DEF Waiters
  <2> QED
    BY <2>1, <2>2
<1>2. Init => TypeOK /\ Waiters
  BY TypeInit, WaitersInit
<1>3. TypeOK /\ Waiters /\ [Next]_vars => TypeOK' /\ Waiters'
  BY TypeStep, WaitersStep
<1> QED
  BY <1>1, <1>2, <1>3, PTL DEF Spec

-----------------------------------------------------------------------------
(* Mounts and rows.  The runner finishes the line in order, and what the    *)
(* answers on their way will make of the row is right for what is mounted.  *)
Ordered ==
  \A i, j \in DOMAIN line :
    i < j /\ ~Unfinished(line[j]) => ~Unfinished(line[i])

Gone(e) == e.op = "umount" /\ e.stage = "ok" /\ e.heard

Settled ==
  \/ pool /\ \A i \in DOMAIN line : ~Gone(line[i])
  \/ \E i \in DOMAIN line :
       /\ Unread(line[i])
       /\ \A j \in DOMAIN line : j > i => ~Gone(line[j])

Owed == mount # "none" /\ ~outlived => Settled

(* What happens to entries that are not finished, and to those who wait for *)
(* them, changes nothing of that.                                           *)
LEMMA SameAnswers ==
  ASSUME DOMAIN line' = DOMAIN line,
         \A i \in DOMAIN line : /\ Unread(line'[i]) <=> Unread(line[i])
                                /\ Gone(line'[i]) <=> Gone(line[i]),
         UNCHANGED pool, Settled
  PROVE  Settled'
  BY DEF Settled

LEMMA SameOrder ==
  ASSUME Ordered, DOMAIN line' = DOMAIN line,
         \A i \in DOMAIN line : Unfinished(line'[i]) <=> Unfinished(line[i])
  PROVE  Ordered'
  BY DEF Ordered

LEMMA AskKeeps ==
  ASSUME TypeOK, Ordered, Owed, NEW c \in Caller,
         NEW op \in {"umount", "mount"}, Ask(op, c),
         UNCHANGED <<pool, mount, outlived>>
  PROVE  Ordered' /\ Owed'
<1> DEFINE new == [op |-> op, by |-> c, heard |-> TRUE, stage |-> "waiting"]
<1>1. /\ Len(line) \in Nat /\ DOMAIN line = 1 .. Len(line)
  BY Lines
<1>2. new \in Entry
  BY DEF Entry, Caller
<1>3. /\ DOMAIN line' = 1 .. Len(line) + 1
      /\ \A i \in DOMAIN line : line'[i] = line[i]
      /\ line'[Len(line) + 1] = new
  BY <1>1, <1>2 DEF Ask, TypeOK
<1>4. Unfinished(new) /\ ~Gone(new)
  BY DEF Unfinished, Gone
<1>5. \A i \in DOMAIN line' : i \in DOMAIN line \/ (i = Len(line) + 1 /\ line'[i] = new)
  BY <1>1, <1>3
<1>6. Ordered'
  BY <1>1, <1>3, <1>4, <1>5 DEF Ordered
<1>7. Settled => Settled'
  <2>1. CASE pool /\ \A i \in DOMAIN line : ~Gone(line[i])
    BY <1>3, <1>4, <1>5, <2>1 DEF Settled
  <2>2. ASSUME NEW i \in DOMAIN line, Unread(line[i]),
               \A j \in DOMAIN line : j > i => ~Gone(line[j])
        PROVE  Settled'
    <3>1. i \in DOMAIN line' /\ Unread(line'[i])
      BY <1>1, <1>3, <2>2
    <3>2. \A j \in DOMAIN line' : j > i => ~Gone(line'[j])
      BY <1>3, <1>4, <1>5, <2>2
    <3> QED
      BY <3>1, <3>2 DEF Settled
  <2> QED
    BY <2>1, <2>2 DEF Settled
<1> QED
  BY <1>6, <1>7 DEF Owed

LEMMA ReadKeeps ==
  ASSUME TypeOK, Ordered, Owed, ApiReads
  PROVE  Ordered' /\ Owed'
<1>0. /\ Len(line) \in Nat /\ DOMAIN line = 1 .. Len(line)
      /\ \A i \in DOMAIN line : line[i] \in Entry
  BY Lines
<1>1. /\ Len(Tail(line)) = Len(line) - 1
      /\ \A i \in 1 .. Len(Tail(line)) : Tail(line)[i] = line[i + 1]
      /\ Tail(line) \in Seq(Entry) /\ line # << >>
  BY HeadTailProperties DEF ApiReads, TypeOK
<1>2. Len(line) \in Nat \ {0}
  BY <1>1, EmptySeq DEF TypeOK
<1>3. Head(line) = line[1]
  BY <1>1 DEF TypeOK
<1>4. /\ DOMAIN line' = 1 .. Len(line) - 1
      /\ \A i \in DOMAIN line' : i + 1 \in DOMAIN line /\ line'[i] = line[i + 1]
      /\ \A i \in DOMAIN line : i # 1 => i - 1 \in DOMAIN line' /\ line'[i - 1] = line[i]
  BY <1>0, <1>1, <1>2, LenProperties DEF ApiReads
<1>5. Ordered'
  <2> SUFFICES ASSUME NEW i \in DOMAIN line', NEW j \in DOMAIN line', i < j,
                      ~Unfinished(line'[j])
               PROVE  ~Unfinished(line'[i])
    BY DEF Ordered
  <2>1. i + 1 \in DOMAIN line /\ j + 1 \in DOMAIN line /\ i + 1 < j + 1
    BY <1>2, <1>4
  <2> QED
    BY <1>4, <2>1 DEF Ordered
<1>6. Settled => Settled'
  <2>0. 1 \in DOMAIN line /\ line[1] \in Entry
    BY <1>0, <1>2
  <2>1. CASE pool /\ \A i \in DOMAIN line : ~Gone(line[i])
    <3>1. pool'
      BY <1>3, <2>0, <2>1 DEF ApiReads, Registered, Gone, Entry
    <3> QED
      BY <1>4, <2>1, <3>1 DEF Settled
  <2>2. ASSUME NEW i \in DOMAIN line, Unread(line[i]),
               \A j \in DOMAIN line : j > i => ~Gone(line[j])
        PROVE  Settled'
    <3>1. CASE i = 1
      <4>1. pool'
        BY <1>3, <2>2, <3>1 DEF ApiReads, Registered, Unread
      <4>2. \A j \in DOMAIN line' : ~Gone(line'[j])
        <5> TAKE j \in DOMAIN line'
        <5>1. j + 1 \in DOMAIN line /\ j + 1 > i
          BY <1>2, <1>4, <3>1
        <5> QED
          BY <1>4, <2>2, <5>1
      <4> QED
        BY <4>1, <4>2 DEF Settled
    <3>2. CASE i # 1
      <4>1. i - 1 \in DOMAIN line' /\ Unread(line'[i - 1])
        BY <1>4, <2>2, <3>2
      <4>2. \A j \in DOMAIN line' : j > i - 1 => ~Gone(line'[j])
        <5> TAKE j \in DOMAIN line'
        <5> HAVE j > i - 1
        <5>1. j + 1 \in DOMAIN line /\ j + 1 > i
          BY <1>0, <1>2, <1>4
        <5> QED
          BY <1>4, <2>2, <5>1
      <4> QED
        BY <4>1, <4>2 DEF Settled
    <3> QED
      BY <3>1, <3>2
  <2> QED
    BY <2>1, <2>2 DEF Settled
<1> QED
  BY <1>5, <1>6 DEF Owed, ApiReads

(* Whatever the runner has just ended is the last thing it has ended.       *)
LEMMA EndKeeps ==
  ASSUME TypeOK, Ordered, Owed, NEW i \in 1 .. MaxLine, RunnerEnds(i)
  PROVE  Ordered' /\ Owed'
<1>0. /\ Len(line) \in Nat /\ DOMAIN line = 1 .. Len(line)
      /\ \A j \in DOMAIN line : line[j] \in Entry
      /\ i \in DOMAIN line
      /\ \A j \in 1 .. (i - 1) : line[j].stage \in {"ok", "failed"}
      /\ line[i].stage = "running"
  BY Lines DEF RunnerEnds, Turn
<1>1. PICK r \in {"ok", "failed"} : line' = [line EXCEPT ![i].stage = r]
  BY DEF RunnerEnds, Umounts, Mounts, Answer
<1>2. /\ DOMAIN line' = DOMAIN line
      /\ \A j \in DOMAIN line : j # i => line'[j] = line[j]
      /\ line'[i] = [line[i] EXCEPT !.stage = r]
  BY <1>0, <1>1
<1>3. /\ line'[i].op = line[i].op /\ line'[i].heard = line[i].heard
      /\ line'[i].stage = r
  BY <1>0, <1>2 DEF Entry
<1>4. \A j \in DOMAIN line : j < i => ~Unfinished(line[j])
  BY <1>0 DEF Unfinished
<1>5. Unfinished(line[i]) /\ ~Unfinished(line'[i])
  BY <1>0, <1>3 DEF Unfinished
<1>6. \A j \in DOMAIN line : j > i => Unfinished(line[j])
  BY <1>0, <1>5 DEF Ordered
<1>7. Ordered'
  BY <1>0, <1>2, <1>4, <1>5, <1>6 DEF Ordered
<1>8. \A j \in DOMAIN line : j > i => ~Gone(line'[j])
  BY <1>0, <1>2, <1>6 DEF Unfinished, Gone
<1>9. Owed'
  <2>1. CASE mount' = "none" \/ outlived'
    BY <2>1 DEF Owed
  <2>2. CASE Free /\ mount' = "live" /\ r = "ok" /\ line[i].op = "mount" /\ line[i].heard
    <3>1. Unread(line'[i])
      BY <1>3, <2>2 DEF Unread
    <3> QED
      BY <1>0, <1>2, <1>8, <3>1 DEF Owed, Settled
  <2>3. CASE ~Free /\ r = "failed" /\ line[i].op = "mount" /\ UNCHANGED <<mount, outlived>>
    <3>1. ~Unread(line[i]) /\ ~Gone(line[i]) /\ ~Unread(line'[i]) /\ ~Gone(line'[i])
      BY <1>0, <1>3, <2>3 DEF Unread, Gone
    <3>2. Settled => Settled'
      BY <1>2, <3>1, SameAnswers DEF RunnerEnds
    <3> QED
      BY <2>3, <3>2 DEF Owed
  <2>4. CASE Free /\ UNCHANGED <<mount, outlived>>
    BY <2>4 DEF Owed, Free
  <2>5. CASE Umounts(i)
    BY <2>1, <2>5 DEF Umounts
  <2>6. CASE Mounts(i)
    <3>1. CASE Free /\ mount' = "live" /\ Answer(i, "ok")
               /\ outlived' = (outlived \/ ~line[i].heard)
      <4>1. r = "ok"
        BY <1>0, <1>3, <3>1 DEF Answer
      <4> QED
        BY <2>1, <2>2, <2>6, <3>1, <4>1 DEF Mounts
    <3>2. CASE ~Free /\ UNCHANGED <<mount, outlived>> /\ Answer(i, "failed")
      <4>1. r = "failed"
        BY <1>0, <1>3, <3>2 DEF Answer
      <4> QED
        BY <2>3, <2>6, <3>2, <4>1 DEF Mounts
    <3>3. CASE Free /\ UNCHANGED <<mount, outlived>>
      BY <2>4, <3>3
    <3>4. CASE outlived' = TRUE
      BY <2>1, <3>4
    <3> QED
      BY <2>6, <3>1, <3>2, <3>3, <3>4 DEF Mounts
  <2> QED
    BY <2>5, <2>6 DEF RunnerEnds
<1> QED
  BY <1>7, <1>9

LEMMA OwedStep == TypeOK /\ Ordered /\ Owed /\ [Next]_vars => Ordered' /\ Owed'
<1> SUFFICES ASSUME TypeOK, Ordered, Owed, [Next]_vars PROVE Ordered' /\ Owed'
  OBVIOUS
<1>0. /\ Len(line) \in Nat /\ DOMAIN line = 1 .. Len(line)
      /\ \A i \in DOMAIN line : line[i] \in Entry
  BY Lines
<1>1. CASE UNCHANGED <<line, pool, outlived>> /\ (UNCHANGED mount \/ mount # "none")
  BY <1>1 DEF Ordered, Owed, Settled
<1>2. CASE SyncBegins \/ Joins \/ \E f \in Failures : SyncEnds(f)
  BY <1>1, <1>2 DEF SyncBegins, Joins, SyncEnds, mountVars
<1>3. CASE RoundBegins \/ \E c \in Op : OperationBegins(c)
  BY <1>1, <1>3 DEF RoundBegins, OperationBegins
<1>4. ASSUME NEW c \in Caller, Step(c) PROVE Ordered' /\ Owed'
  <2>1. CASE Listed(c)
    BY <1>1, <2>1 DEF Listed
  <2>2. CASE DeleteArrives(c) /\ pool
    BY <2>2, AskKeeps DEF DeleteArrives
  <2>3. CASE DeleteArrives(c) /\ ~pool
    BY <1>1, <2>3 DEF DeleteArrives
  <2>4. CASE CreateArrives(c)
    BY <2>4, AskKeeps DEF CreateArrives
  <2> QED
    BY <1>4, <2>1, <2>2, <2>3, <2>4 DEF Step
<1>5. ASSUME NEW i \in 1 .. MaxLine, RunnerBegins(i) PROVE Ordered' /\ Owed'
  <2>1. DOMAIN line' = DOMAIN line
    BY <1>5 DEF RunnerBegins
  <2>2. \A j \in DOMAIN line :
          /\ Unfinished(line'[j]) <=> Unfinished(line[j])
          /\ Unread(line'[j]) <=> Unread(line[j])
          /\ Gone(line'[j]) <=> Gone(line[j])
    BY <1>0, <1>5 DEF RunnerBegins, Turn, Entry, Unfinished, Unread, Gone
  <2>3. mount' = mount \/ mount' = "none"
    BY <1>5 DEF RunnerBegins
  <2> QED
    BY <1>5, <2>1, <2>2, <2>3, SameOrder, SameAnswers DEF RunnerBegins, Owed
<1>6. ASSUME NEW i \in 1 .. MaxLine, RunnerEnds(i) PROVE Ordered' /\ Owed'
  BY <1>6, EndKeeps
<1>7. CASE ApiReads
  BY <1>7, ReadKeeps
<1>8. ASSUME NEW c \in Caller, VdmGivesUp(c) PROVE Ordered' /\ Owed'
  <2>1. DOMAIN line' = DOMAIN line
    BY <1>8 DEF VdmGivesUp
  <2>2. \A j \in DOMAIN line :
          /\ Unfinished(line'[j]) <=> Unfinished(line[j])
          /\ Unread(line'[j]) <=> Unread(line[j])
          /\ Gone(line'[j]) <=> Gone(line[j])
    BY <1>0, <1>8 DEF VdmGivesUp, Forgotten, Entry, Unfinished, Unread, Gone
  <2> QED
    BY <1>8, <2>1, <2>2, SameOrder, SameAnswers DEF VdmGivesUp, Owed
<1>9. CASE VdmRestarts
  <2>1. DOMAIN line' = DOMAIN line
    BY <1>9 DEF VdmRestarts
  <2>2. \A j \in DOMAIN line :
          /\ Unfinished(line'[j]) <=> Unfinished(line[j])
          /\ Unread(line'[j]) <=> Unread(line[j])
          /\ Gone(line'[j]) <=> Gone(line[j])
    BY <1>0, <1>9 DEF VdmRestarts, Forgotten, Entry, Unfinished, Unread, Gone
  <2> QED
    BY <1>9, <2>1, <2>2, SameOrder, SameAnswers DEF VdmRestarts, Owed
<1>10. ASSUME NEW i \in 1 .. MaxLine, CallTimesOut(i) PROVE Ordered' /\ Owed'
  <2>1. DOMAIN line' = DOMAIN line
    BY <1>10 DEF CallTimesOut
  <2>2. \A j \in DOMAIN line :
          /\ Unfinished(line'[j]) <=> Unfinished(line[j])
          /\ Unread(line'[j]) <=> Unread(line[j])
          /\ Gone(line'[j]) <=> Gone(line[j])
    BY <1>0, <1>10 DEF CallTimesOut, Unheard, Entry, Unfinished, Unread, Gone
  <2> QED
    BY <1>10, <2>1, <2>2, SameOrder, SameAnswers DEF CallTimesOut, Owed
<1>11. CASE ApiRestarts
  <2>1. DOMAIN line' = DOMAIN line
    BY <1>11 DEF ApiRestarts
  <2>2. \A j \in DOMAIN line :
          /\ Unfinished(line'[j]) <=> Unfinished(line[j])
          /\ ~Gone(line'[j])
    BY <1>0, <1>11 DEF ApiRestarts, Unheard, Entry, Unfinished, Gone
  <2>3. Settled /\ ~outlived' => Settled'
    BY <1>11, <2>1, <2>2 DEF ApiRestarts, Settled
  <2>4. UNCHANGED mount /\ (outlived => outlived')
    BY <1>11 DEF ApiRestarts
  <2> QED
    BY <2>1, <2>2, <2>3, <2>4, SameOrder DEF Owed
<1>12. CASE RunnerRestarts
  <2>1. DOMAIN line' = DOMAIN line
    BY <1>12 DEF RunnerRestarts
  <2>2. \A j \in DOMAIN line :
          /\ ~Unfinished(line'[j])
          /\ Unread(line'[j]) <=> Unread(line[j])
          /\ Gone(line'[j]) <=> Gone(line[j])
    BY <1>0, <1>12 DEF RunnerRestarts, Entry, Unfinished, Unread, Gone
  <2>3. Ordered'
    BY <2>1, <2>2 DEF Ordered
  <2> QED
    BY <1>12, <2>1, <2>2, <2>3, SameAnswers DEF RunnerRestarts, Owed
<1>13. CASE NodeReboots
  <2>1. DOMAIN line' = {}
    BY <1>13 DEF NodeReboots
  <2>2. Ordered'
    BY <2>1 DEF Ordered
  <2>3. mount' # "none" /\ ~outlived' => pool'
    BY <1>13 DEF NodeReboots, TypeOK
  <2>4. pool' => Settled'
    BY <2>1 DEF Settled
  <2> QED
    BY <2>2, <2>3, <2>4 DEF Owed
<1>14. CASE MountChanges
  BY <1>1, <1>14 DEF MountChanges
<1>15. CASE Quietens
  BY <1>1, <1>15 DEF Quietens, mountVars
<1>16. CASE UNCHANGED vars
  BY <1>1, <1>16 DEF vars, mountVars
<1> QED
  BY <1>2, <1>3, <1>4, <1>5, <1>6, <1>7, <1>8, <1>9, <1>10, <1>11, <1>12, <1>13,
     <1>14, <1>15, <1>16 DEF Next, Runner

(* Only a mount that outlived its call or its row stays without one          *)
(* (createLocalStoragePool, deleteLocalStoragePool).                        *)
THEOREM StrayMountsWereCut == Spec => []StrayMountWasCut
<1>1. Owed => StrayMountWasCut
  <2> SUFFICES ASSUME Owed, mount # "none", ~pool, ~outlived
               PROVE  \E i \in DOMAIN line : Unread(line[i])
    BY DEF StrayMountWasCut
  <2>1. Settled
    BY DEF Owed
  <2> QED
    BY <2>1 DEF Settled
<1>2. Init => TypeOK /\ Ordered /\ Owed
  <2> SUFFICES ASSUME Init PROVE Ordered /\ Owed
    BY TypeInit
  <2>1. DOMAIN line = {}
    BY DEF Init
  <2> QED
    BY <2>1 DEF Init, Ordered, Owed
<1>3. TypeOK /\ Ordered /\ Owed /\ [Next]_vars => TypeOK' /\ Ordered' /\ Owed'
  BY TypeStep, OwedStep
<1> QED
  BY <1>1, <1>2, <1>3, PTL DEF Spec
=============================================================================
