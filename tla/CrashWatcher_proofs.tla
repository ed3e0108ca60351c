-------------------------- MODULE CrashWatcher_proofs --------------------------
(***************************************************************************)
(* What the watcher promises of its journal, for any number of guests, any *)
(* quota, window and time to live of a mark.                               *)
(***************************************************************************)
EXTENDS CrashWatcher, FiniteSetTheorems, TLAPS

\* Where a guest may be in a round, and that it has then no crash row since it
\* was last read running.
JournalType ==
  /\ state \in [Guests -> {"running", "paused", "stopped"}]
  /\ logged \in [Guests -> 0 .. 2]
  /\ heard \in [Guests -> {"skipped", "asked", "absent", "running", "paused",
                           "stopped", "unknown"}]

OutOfRound ==
  /\ phase # "listing" => \A g \in Guests : heard[g] = "skipped"
  /\ phase # "handling" => pending = {}

Unwritten ==
  /\ previous \subseteq Guests
  /\ \A g \in previous : logged[g] = 0
  /\ \A g \in Guests : heard[g] = "running" => logged[g] = 0
  /\ \A g \in pending : g \in Guests /\ logged[g] = 0 /\ g \notin previous

JournalInv == JournalType /\ OutOfRound /\ Unwritten /\ OncePerStop

LEMMA JournalInit == Init => JournalInv
  BY DEF Init, JournalInv, JournalType, OutOfRound, Unwritten, OncePerStop

\* A stop changes the state of one guest, and nothing of the journal.
LEMMA FallsType ==
  ASSUME state \in [Guests -> {"running", "paused", "stopped"}],
         NEW g \in Guests, NEW why, Falls(g, why)
  PROVE state' \in [Guests -> {"running", "paused", "stopped"}]
  BY DEF Falls

LEMMA JournalStep == JournalInv /\ [Next]_vars => JournalInv'
<1> SUFFICES ASSUME JournalInv, [Next]_vars PROVE JournalInv'
  OBVIOUS
<1> USE DEF JournalInv, JournalType, OutOfRound, Unwritten, OncePerStop
<1>1. ASSUME UNCHANGED <<logged, watchVars>>,
             state' \in [Guests -> {"running", "paused", "stopped"}]
      PROVE JournalInv'
  BY <1>1 DEF watchVars
<1>2. ASSUME NEW g \in Guests, GuestStops(g) PROVE JournalInv'
  BY <1>1, <1>2, FallsType DEF GuestStops, logVars
<1>3. ASSUME NEW g \in Guests, RunnerStops(g) PROVE JournalInv'
  BY <1>1, <1>3, FallsType DEF RunnerStops, logVars
<1>4. ASSUME NEW g \in Guests, RunnerHalts(g) PROVE JournalInv'
  <2>1. state' \in [Guests -> {"running", "paused", "stopped"}]
    BY <1>4, FallsType DEF RunnerHalts
  <2>2. QED
    BY <1>1, <1>4, <2>1 DEF RunnerHalts, logVars
<1>5. ASSUME NEW g \in Guests, RunnerStarts(g) PROVE JournalInv'
  BY <1>1, <1>5 DEF RunnerStarts, logVars
<1>6. ASSUME NEW g \in Guests, RunnerPauses(g) PROVE JournalInv'
  BY <1>1, <1>6 DEF RunnerPauses, logVars
<1>7. ASSUME NEW g \in Guests, NEW job, Order(g, job) PROVE JournalInv'
  BY <1>1, <1>7 DEF Order, logVars
<1>8. CASE ApiStops
  BY <1>8 DEF ApiStops, guestVars
<1>9. CASE ApiStarts
  BY <1>9 DEF ApiStarts, guestVars, logVars
<1>10. CASE SomeRound
  <2>1. PICK answering : BeginRound(answering)
    BY <1>10 DEF SomeRound
  <2>2. PICK containers \in {"asked", "absent"} :
          heard' = [g \in Guests |-> IF g \notin answering THEN "skipped"
                                     ELSE IF g \in vms THEN "asked" ELSE containers]
    BY <2>1 DEF BeginRound
  <2>3. \A g \in Guests : heard'[g] \in {"skipped", "asked", "absent"}
    BY <2>2
  <2>4. heard' \in [Guests -> {"skipped", "asked", "absent"}]
    BY <2>2, <2>3
  <2>5. QED
    BY <2>1, <2>3, <2>4 DEF BeginRound, guestVars, logVars
<1>11. ASSUME NEW g \in Guests, ReadGuest(g) PROVE JournalInv'
  <2>1. PICK answer \in {state[g], "unknown"} :
          /\ heard' = [heard EXCEPT ![g] = answer]
          /\ logged' = IF answer = "running" THEN [logged EXCEPT ![g] = 0] ELSE logged
    BY <1>11 DEF ReadGuest
  <2>2. QED
    BY <1>11, <2>1 DEF ReadGuest, guestVars
\* What is pending was running in the former round, and is not in the new one.
<1>12. CASE Observe
  <2>1. pending' \subseteq previous /\ \A g \in pending' : g \notin previous'
    BY <1>12 DEF Observe, Fallen, Merged, IsLiveState
  <2>2. \A g \in previous' : g \in Guests /\ logged[g] = 0
    BY <1>12 DEF Observe, Merged
  <2>3. QED
    BY <1>12, <2>1, <2>2 DEF Observe, guestVars, logVars
<1>13. ASSUME NEW g \in Guests, DiagnoseClean(g) PROVE JournalInv'
  BY <1>13 DEF DiagnoseClean, guestVars, logVars
<1>14. ASSUME NEW g \in Guests, RecordCrash(g) PROVE JournalInv'
  <2>1. /\ g \in pending
        /\ phase = "handling"
        /\ pending' = pending \ {g}
        /\ logged' = [logged EXCEPT ![g] = IF logged[g] = 2 THEN 2 ELSE logged[g] + 1]
        /\ UNCHANGED <<state, previous, phase, heard>>
    BY <1>14 DEF RecordCrash
  <2>2. logged[g] = 0 /\ g \notin previous /\ heard[g] = "skipped"
    BY <2>1
  <2>3. logged' = [logged EXCEPT ![g] = 1]
    BY <2>1, <2>2
  <2>4. QED
    BY <2>1, <2>2, <2>3
<1>15. ASSUME NEW g \in Guests, RecordRestart(g) PROVE JournalInv'
  BY <1>15 DEF RecordRestart, guestVars
<1>16. CASE EndRound
  BY <1>16 DEF EndRound, guestVars, logVars
<1>17. CASE Tick
  BY <1>1, <1>17 DEF Tick, guestVars
<1>18. CASE UNCHANGED vars
  BY <1>1, <1>18 DEF vars, guestVars, logVars
<1>19. QED
  BY <1>2, <1>3, <1>4, <1>5, <1>6, <1>7, <1>8, <1>9, <1>10, <1>11, <1>12, <1>13,
     <1>14, <1>15, <1>16, <1>17, <1>18 DEF Next

\* The inductive invariant of the journal: whoever was running in the last
\* round, is heard to run in this one or waits for its diagnosis has no crash
\* row since it was last read running.
THEOREM JournalInvariant == Spec => []JournalInv
<1>1. QED
  BY JournalInit, JournalStep, PTL DEF Spec

\* One stop is written down once (crashWatcher.ts: the reference states are
\* replaced before the diagnosis), however long a diagnosis takes, whatever
\* listing fails, and across restarts of the API.
THEOREM StopIsWrittenOnce == Spec => []OncePerStop
<1>1. JournalInv => OncePerStop
  BY DEF JournalInv
<1>2. QED
  BY <1>1, JournalInvariant, PTL

-------------------------------------------------------------------------------
(* Types.                                                                      *)

LEMMA TypeInit == Init => TypeOK
  BY WatchAssumption DEF Init, TypeOK, Ages, Slots

LEMMA SlotFree ==
  ASSUME TypeOK, NEW g \in Guests, ~QuotaReached(g)
  PROVE FreeSlot(g) \in Slots /\ rows[g][FreeSlot(g)] = Window
<1>1. IsFiniteSet(Slots) /\ Cardinality(Slots) = MaxAttempts + 1
  BY FS_Interval, WatchAssumption DEF Slots
<1>2. ASSUME \A s \in Slots : rows[g][s] # Window PROVE FALSE
  <2>1. \A s \in Slots : rows[g][s] \in 0 .. Window
    BY DEF TypeOK, Ages
  <2>2. \A s \in Slots : rows[g][s] < Window
    BY <1>2, <2>1, WatchAssumption
  <2>3. InWindow(rows[g]) = Slots
    BY <2>2 DEF InWindow
  <2> QED
    BY <1>1, <2>3, WatchAssumption DEF QuotaReached
<1> QED
  BY <1>2 DEF FreeSlot

LEMMA OlderType ==
  ASSUME NEW ages \in Ages PROVE Older(ages) \in Ages
  BY WatchAssumption DEF Older, Ages

LEMMA FallsReason ==
  ASSUME reason \in [Guests -> {"clean", "crash"}],
         NEW g \in Guests, NEW why \in {"clean", "crash"}, Falls(g, why)
  PROVE reason' \in [Guests -> {"clean", "crash"}]
  BY DEF Falls

LEMMA TypeStep == TypeOK /\ [Next]_vars => TypeOK'
<1> SUFFICES ASSUME TypeOK, [Next]_vars PROVE TypeOK'
  OBVIOUS
<1> USE WatchAssumption
<1>1. ASSUME NEW g \in Guests, GuestStops(g) PROVE TypeOK'
  <2>1. PICK why \in {"clean", "crash"} : Falls(g, why)
    BY <1>1 DEF GuestStops
  <2>2. state' \in [Guests -> {"running", "paused", "stopped"}]
    BY <2>1, FallsType DEF TypeOK
  <2>3. reason' \in [Guests -> {"clean", "crash"}]
    BY <2>1, FallsReason DEF TypeOK
  <2> QED
    BY <1>1, <2>2, <2>3 DEF GuestStops, TypeOK, watchVars, logVars
<1>2. ASSUME NEW g \in Guests, RunnerStops(g) PROVE TypeOK'
  <2>1. PICK why \in {"clean", "crash"} : Falls(g, why)
    BY <1>2 DEF RunnerStops
  <2>2. state' \in [Guests -> {"running", "paused", "stopped"}]
    BY <2>1, FallsType DEF TypeOK
  <2>3. reason' \in [Guests -> {"clean", "crash"}]
    BY <2>1, FallsReason DEF TypeOK
  <2> QED
    BY <1>2, <2>2, <2>3 DEF RunnerStops, TypeOK, watchVars, logVars
<1>3. ASSUME NEW g \in Guests, RunnerHalts(g) PROVE TypeOK'
  <2>1. /\ state' \in [Guests -> {"running", "paused", "stopped"}]
        /\ reason' \in [Guests -> {"clean", "crash"}]
    BY <1>3, FallsType, FallsReason DEF RunnerHalts, TypeOK
  <2>2. jobs' \in [Guests -> SUBSET {"stop", "restart", "attach", "start"}]
    BY <1>3 DEF RunnerHalts, TypeOK
  <2> QED
    BY <1>3, <2>1, <2>2 DEF RunnerHalts, TypeOK, watchVars, logVars
<1>4. ASSUME NEW g \in Guests, RunnerStarts(g) PROVE TypeOK'
  BY <1>4 DEF RunnerStarts, TypeOK, watchVars, logVars
<1>5. ASSUME NEW g \in Guests, RunnerPauses(g) PROVE TypeOK'
  BY <1>5 DEF RunnerPauses, TypeOK, watchVars, logVars
<1>6. ASSUME NEW g \in Guests, NEW job \in {"stop", "restart", "attach", "start"},
             Order(g, job)
      PROVE TypeOK'
  BY <1>6 DEF Order, Mark, TypeOK, watchVars, logVars
<1>7. CASE ApiStops
  <2>1. started' \in [Guests -> Ages]
    BY <1>7 DEF ApiStops, TypeOK, Ages
  <2> QED
    BY <1>7, <2>1 DEF ApiStops, TypeOK, guestVars
<1>8. CASE ApiStarts
  BY <1>8 DEF ApiStarts, TypeOK, guestVars, logVars
<1>9. CASE SomeRound
  <2>1. PICK answering : BeginRound(answering)
    BY <1>9 DEF SomeRound
  <2>2. heard' \in [Guests -> {"skipped", "asked", "absent"}]
    BY <2>1 DEF BeginRound
  <2> QED
    BY <2>1, <2>2 DEF BeginRound, TypeOK, guestVars, logVars
<1>10. ASSUME NEW g \in Guests, ReadGuest(g) PROVE TypeOK'
  BY <1>10 DEF ReadGuest, TypeOK, guestVars
<1>11. CASE Observe
  <2>1. pending' \subseteq Guests
    BY <1>11 DEF Observe, Fallen, TypeOK
  <2>2. previous' \subseteq Guests
    BY <1>11 DEF Observe, Merged, TypeOK
  <2>3. marks' \in [Guests -> 0 .. Ttl]
    BY <1>11 DEF Observe, TypeOK
  <2> QED
    BY <1>11, <2>1, <2>2, <2>3 DEF Observe, TypeOK, guestVars, logVars
<1>12. ASSUME NEW g \in Guests, DiagnoseClean(g) PROVE TypeOK'
  BY <1>12 DEF DiagnoseClean, TypeOK, guestVars, logVars
<1>13. ASSUME NEW g \in Guests, RecordCrash(g) PROVE TypeOK'
  <2>1. logged' \in [Guests -> 0 .. 2] /\ pending' \subseteq Guests
    BY <1>13 DEF RecordCrash, TypeOK
  <2>2. CASE UNCHANGED <<jobs, restarting, started>>
    BY <1>13, <2>1, <2>2 DEF RecordCrash, TypeOK
  <2>3. CASE /\ ~QuotaReached(g)
             /\ restarting' = {<<g, FreeSlot(g)>>}
             /\ started' = [started EXCEPT ![g][FreeSlot(g)] = 0]
             /\ \E sent \in {{}, {"start"}} : jobs' = [jobs EXCEPT ![g] = @ \union sent]
    <3>1. FreeSlot(g) \in Slots
      BY <2>3, SlotFree
    <3>2. started' \in [Guests -> Ages]
      BY <2>3, <3>1 DEF TypeOK, Ages
    <3>3. jobs' \in [Guests -> SUBSET {"stop", "restart", "attach", "start"}]
      BY <2>3 DEF TypeOK
    <3> QED
      BY <1>13, <2>1, <2>3, <3>1, <3>2, <3>3 DEF RecordCrash, TypeOK
  <2> QED
    BY <1>13, <2>2, <2>3 DEF RecordCrash
<1>14. ASSUME NEW g \in Guests, RecordRestart(g) PROVE TypeOK'
  BY <1>14 DEF RecordRestart, TypeOK, Ages, guestVars
<1>15. CASE EndRound
  BY <1>15 DEF EndRound, TypeOK, guestVars, logVars
<1>16. CASE Tick
  <2>1. rows' \in [Guests -> Ages] /\ started' \in [Guests -> Ages]
    BY <1>16, OlderType DEF Tick, TypeOK
  <2> QED
    BY <1>16, <2>1 DEF Tick, TypeOK, guestVars, watchVars
<1>17. CASE UNCHANGED vars
  BY <1>17 DEF TypeOK, vars, guestVars, watchVars, logVars
<1> QED
  BY <1>1, <1>2, <1>3, <1>4, <1>5, <1>6, <1>7, <1>8, <1>9, <1>10, <1>11, <1>12,
     <1>13, <1>14, <1>15, <1>16, <1>17 DEF Next

(* Guests, marks, rounds and rows keep their types, for any number of guests   *)
(* and any settings (tick, handleUnexpectedStop).                              *)
THEOREM TypeCorrect == Spec => []TypeOK
  BY TypeInit, TypeStep, PTL DEF Spec

-------------------------------------------------------------------------------
(* The loop guard.                                                             *)

\* Every start of the window has a row that is no older, but for the one whose
\* answer is awaited.
Remembered ==
  \A g \in Guests, s \in Slots :
    started[g][s] < Window =>
      <<g, s>> \in restarting \/ rows[g][s] <= started[g][s]

GuardInv == TypeOK /\ Remembered /\ RestartsAreBounded

LEMMA InWindowFinite ==
  ASSUME NEW ages PROVE IsFiniteSet(InWindow(ages))
<1>1. IsFiniteSet(Slots)
  BY FS_Interval, WatchAssumption DEF Slots
<1> QED
  BY <1>1, FS_Subset DEF InWindow

LEMMA GuardInit == Init => GuardInv
<1> SUFFICES ASSUME Init PROVE Remembered /\ RestartsAreBounded
  BY TypeInit DEF GuardInv
<1>1. \A g \in Guests : InWindow(started[g]) = {}
  BY WatchAssumption DEF Init, InWindow
<1>2. RestartsAreBounded
  BY <1>1, FS_EmptySet, WatchAssumption DEF RestartsAreBounded
<1> QED
  BY <1>2, WatchAssumption DEF Init, Remembered

\* Starts only leave the window.
LEMMA FewerStarts ==
  ASSUME RestartsAreBounded,
         \A g \in Guests : InWindow(started'[g]) \subseteq InWindow(started[g])
  PROVE RestartsAreBounded'
<1> SUFFICES ASSUME NEW g \in Guests
             PROVE Cardinality(InWindow(started'[g])) <= MaxAttempts
  BY DEF RestartsAreBounded, InWindow, Slots
<1>1. /\ IsFiniteSet(InWindow(started[g])) /\ IsFiniteSet(InWindow(started'[g]))
      /\ Cardinality(InWindow(started'[g])) <= Cardinality(InWindow(started[g]))
  BY InWindowFinite, FS_Subset
<1> QED
  BY <1>1, FS_CardinalityType, WatchAssumption DEF RestartsAreBounded

LEMMA GuardStep == GuardInv /\ [Next]_vars => GuardInv'
<1> SUFFICES ASSUME GuardInv, [Next]_vars PROVE Remembered' /\ RestartsAreBounded'
  BY TypeStep DEF GuardInv
<1> USE WatchAssumption
<1>1. ASSUME UNCHANGED <<restarting, rows, started>>
      PROVE Remembered' /\ RestartsAreBounded'
  BY <1>1 DEF GuardInv, Remembered, RestartsAreBounded, InWindow
<1>2. ASSUME NEW g \in Guests, GuestStops(g) \/ RunnerStops(g) \/ RunnerHalts(g)
                               \/ RunnerStarts(g) \/ RunnerPauses(g)
      PROVE UNCHANGED <<restarting, rows, started>>
  BY <1>2 DEF GuestStops, RunnerStops, RunnerHalts, RunnerStarts, RunnerPauses,
              watchVars, logVars
<1>3. ASSUME NEW g \in Guests, NEW job, Order(g, job)
      PROVE UNCHANGED <<restarting, rows, started>>
  BY <1>3 DEF Order, watchVars, logVars
<1>4. ASSUME NEW g \in Guests, ReadGuest(g) \/ DiagnoseClean(g)
      PROVE UNCHANGED <<restarting, rows, started>>
  BY <1>4 DEF ReadGuest, DiagnoseClean, logVars
<1>5. ASSUME ApiStarts \/ SomeRound \/ Observe \/ EndRound \/ UNCHANGED vars
      PROVE UNCHANGED <<restarting, rows, started>>
  BY <1>5 DEF ApiStarts, SomeRound, BeginRound, Observe, EndRound, vars, watchVars, logVars
<1>6. CASE ApiStops
  <2>1. \A g \in Guests, s \in Slots :
          started'[g][s] = IF <<g, s>> \in restarting THEN Window ELSE started[g][s]
    BY <1>6 DEF ApiStops
  <2>2. ASSUME NEW g \in Guests, NEW s \in Slots, started'[g][s] < Window
        PROVE started[g][s] < Window
    <3>1. started'[g][s] # Window
      BY <2>2
    <3>2. started'[g][s] = started[g][s]
      BY <2>1, <3>1
    <3> QED
      BY <2>2, <3>2
  <2>3. \A g \in Guests : InWindow(started'[g]) \subseteq InWindow(started[g])
    BY <2>2 DEF InWindow
  <2>4. RestartsAreBounded'
    BY <2>3, FewerStarts DEF GuardInv
  <2> QED
    BY <1>6, <2>1, <2>4 DEF ApiStops, GuardInv, Remembered
<1>7. ASSUME NEW g \in Guests, RecordCrash(g) PROVE Remembered' /\ RestartsAreBounded'
  <2>1. CASE UNCHANGED <<jobs, restarting, started>>
    BY <1>1, <1>7, <2>1 DEF RecordCrash
  <2>2. CASE /\ ~QuotaReached(g)
             /\ restarting' = {<<g, FreeSlot(g)>>}
             /\ started' = [started EXCEPT ![g][FreeSlot(g)] = 0]
    <3>1. FreeSlot(g) \in Slots /\ rows[g][FreeSlot(g)] = Window
      BY <2>2, SlotFree DEF GuardInv
    <3>2. restarting = {} /\ rows' = rows
      BY <1>7 DEF RecordCrash
    <3>3. \A h \in Guests, s \in Slots :
            started'[h][s] = IF h = g /\ s = FreeSlot(g) THEN 0 ELSE started[h][s]
      BY <2>2, <3>1 DEF GuardInv, TypeOK, Ages
    <3>4. Remembered'
      BY <2>2, <3>2, <3>3 DEF GuardInv, Remembered
    <3>5. InWindow(started[g]) \subseteq InWindow(rows[g])
      BY <3>2 DEF GuardInv, Remembered, InWindow, TypeOK, Ages
    <3>6. Cardinality(InWindow(started[g])) < MaxAttempts
      BY <2>2, <3>5, InWindowFinite, FS_Subset, FS_CardinalityType DEF QuotaReached
    <3>7. InWindow(started'[g]) \subseteq InWindow(started[g]) \cup {FreeSlot(g)}
      BY <3>3 DEF InWindow
    <3>8. Cardinality(InWindow(started'[g])) <= MaxAttempts
      <4>0. /\ IsFiniteSet(InWindow(started[g]))
            /\ Cardinality(InWindow(started[g])) \in Nat
        BY InWindowFinite, FS_CardinalityType
      <4>1. /\ IsFiniteSet(InWindow(started[g]) \cup {FreeSlot(g)})
            /\ Cardinality(InWindow(started[g]) \cup {FreeSlot(g)})
                 <= Cardinality(InWindow(started[g])) + 1
        BY <4>0, FS_AddElement
      <4>2. Cardinality(InWindow(started'[g]))
              <= Cardinality(InWindow(started[g]) \cup {FreeSlot(g)})
        BY <3>7, <4>1, FS_Subset
      <4>3. Cardinality(InWindow(started'[g])) \in Nat
        BY InWindowFinite, FS_CardinalityType
      <4> QED
        BY <3>6, <4>1, <4>2, <4>3, InWindowFinite, FS_CardinalityType
    <3>9. \A h \in Guests \ {g} : InWindow(started'[h]) = InWindow(started[h])
      BY <3>3 DEF InWindow
    <3>10. RestartsAreBounded'
      BY <3>8, <3>9 DEF GuardInv, RestartsAreBounded, InWindow, Slots
    <3> QED
      BY <3>4, <3>10
  <2> QED
    BY <1>7, <2>1, <2>2 DEF RecordCrash
<1>8. ASSUME NEW g \in Guests, RecordRestart(g) PROVE Remembered' /\ RestartsAreBounded'
  <2>1. PICK t \in Slots : <<g, t>> \in restarting /\ rows' = [rows EXCEPT ![g][t] = 0]
    BY <1>8 DEF RecordRestart
  <2>2. restarting = {<<g, t>>}
    BY <2>1 DEF GuardInv, TypeOK
  <2>3. started' = started
    BY <1>8 DEF RecordRestart
  <2>4. \A h \in Guests, s \in Slots :
          rows'[h][s] = IF h = g /\ s = t THEN 0 ELSE rows[h][s]
    BY <2>1 DEF GuardInv, TypeOK, Ages
  <2>5. \A h \in Guests, s \in Slots : started[h][s] \in 0 .. Window
    BY DEF GuardInv, TypeOK, Ages
  <2>6. Remembered'
    BY <2>2, <2>3, <2>4, <2>5 DEF GuardInv, Remembered
  <2> QED
    BY <2>3, <2>6 DEF GuardInv, RestartsAreBounded, InWindow
<1>9. CASE Tick
  <2>1. \A g \in Guests, s \in Slots :
          /\ started[g][s] \in 0 .. Window /\ rows[g][s] \in 0 .. Window
          /\ started'[g][s] = IF started[g][s] < Window THEN started[g][s] + 1 ELSE Window
          /\ rows'[g][s] = IF rows[g][s] < Window THEN rows[g][s] + 1 ELSE Window
    BY <1>9 DEF Tick, Older, GuardInv, TypeOK, Ages
  <2>2. restarting' = restarting
    BY <1>9 DEF Tick, watchVars
  <2>3. Remembered'
    BY <2>1, <2>2 DEF GuardInv, Remembered
  <2>4. \A g \in Guests : InWindow(started'[g]) \subseteq InWindow(started[g])
    BY <2>1 DEF InWindow
  <2> QED
    BY <2>3, <2>4, FewerStarts DEF GuardInv
<1> QED
  BY <1>1, <1>2, <1>3, <1>4, <1>5, <1>6, <1>7, <1>8, <1>9 DEF Next

(* The loop guard holds for any quota and window, however long a start takes,  *)
(* across restarts of the API (countRecentRestarts, handleUnexpectedStop).     *)
THEOREM LoopGuardHolds == Spec => []RestartsAreBounded
<1>1. GuardInv => RestartsAreBounded
  BY DEF GuardInv
<1>2. QED
  BY <1>1, GuardInit, GuardStep, PTL DEF Spec
================================================================================
