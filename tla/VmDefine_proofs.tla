---------------------------- MODULE VmDefine_proofs ----------------------------
(***************************************************************************)
(* What the define lock guarantees, for any number of calls of any kind.   *)
(***************************************************************************)
EXTENDS VmDefine, TLAPS

USE DEF Lock

\* Where a call of each kind may be.
KindType ==
  /\ kind \in [Request -> AllKinds \cup {"none"}]
  /\ pc \in [Request -> Steps]
  /\ prev \in [Request -> Request \cup {NoRequest}]
  /\ before \in [Request -> SUBSET Request]
  /\ tail \in Request \cup {NoRequest}
  /\ base \in [Request -> Definition \cup {NoDomain}]
  /\ crossed \in [Request -> BOOLEAN]

Places ==
  \A o \in Request :
    /\ pc[o] = "idle" <=> kind[o] = "none"
    /\ pc[o] = "checked" => kind[o] \in Checks
    /\ pc[o] = "defined" => kind[o] = "start"
    /\ pc[o] = "destroyed" => kind[o] = "delete"
    /\ pc[o] \in {"begin", "attached"} => kind[o] \notin Locked
    /\ pc[o] = "read" => kind[o] \in Locked \cup Bypassing

\* The promises form one line: everybody in the lock came before or after
\* everybody else, waits for the one right before him, and the map holds the
\* last one as long as he has not ended.
Line ==
  /\ \A o \in Request : before[o] \subseteq {p \in Request : Lock(p)} \ {o}
  /\ \A o, p \in Request : Lock(o) /\ Lock(p) /\ o # p =>
       o \in before[p] \/ p \in before[o]
  /\ \A o \in Request : Lock(o) /\ prev[o] # NoRequest =>
       before[o] = before[prev[o]] \cup {prev[o]}
  /\ \A o \in Request : Lock(o) /\ prev[o] = NoRequest =>
       before[o] \cap Unfinished = {}
  /\ tail = NoRequest => Unfinished = {}
  /\ tail # NoRequest =>
       Lock(tail) /\ {p \in Request : Lock(p)} = before[tail] \cup {tail}

\* A section that has begun has nobody unfinished before it.
InTurn ==
  \A o \in Request : Lock(o) /\ ~Waiting(o) => before[o] \cap Unfinished = {}

LineInv == KindType /\ Places /\ Line /\ InTurn

LEMMA LineInit == Init => LineInv
<1> SUFFICES ASSUME Init PROVE LineInv
  OBVIOUS
<1> USE RequestAssumption DEF Init
<1>1. KindType
  BY DEF KindType, Steps, Definition
<1>2. Places
  BY DEF Places
<1>3. Unfinished = {} /\ \A o \in Request : ~Lock(o)
  BY DEF Unfinished, Waiting, InSection, Locked
<1>4. Line /\ InTurn
  BY <1>3 DEF Line, InTurn
<1>5. QED
  BY <1>1, <1>2, <1>4 DEF LineInv

\* A step that starts or ends no section keeps the line.
LEMMA LineKept ==
  ASSUME LineInv, KindType', Places', UNCHANGED <<tail, prev, before, kind>>,
         Unfinished' = Unfinished,
         \A o \in Request : Lock(o) => (Waiting(o)' <=> Waiting(o))
  PROVE LineInv'
<1>1. Line'
  BY DEF LineInv, Line
<1>2. InTurn'
  BY DEF LineInv, InTurn
<1>3. QED
  BY <1>1, <1>2 DEF LineInv

\* So does the end of a section, which leaves the map to whoever came later.
LEMMA LineReleased ==
  ASSUME LineInv, KindType', Places', UNCHANGED kind, NEW o \in Request,
         MayEnter(o) \/ InSection(o), Release(o),
         Unfinished' = Unfinished \ {o}, o \notin Unfinished',
         \A p \in Request \ {o} : Waiting(p)' <=> Waiting(p)
  PROVE LineInv'
<1> USE DEF LineInv
<1>1. o \in Request /\ Lock(o)
  BY DEF MayEnter, InSection, Waiting
<1>2. before[o] \cap Unfinished = {}
  <2>1. CASE InSection(o)
    BY <2>1 DEF InTurn, InSection, Waiting
  <2>2. CASE MayEnter(o)
    <3>1. CASE prev[o] = NoRequest
      BY <1>1, <3>1 DEF Line
    <3>2. CASE prev[o] # NoRequest
      <4>1. prev[o] \in Request /\ before[o] = before[prev[o]] \cup {prev[o]}
        BY <1>1, <3>2 DEF Line, KindType
      <4>2. prev[o] \notin Unfinished /\ Lock(prev[o])
        BY <1>1, <2>2, <4>1 DEF MayEnter, Line
      <4>3. ~Waiting(prev[o])
        BY <4>1, <4>2 DEF Unfinished
      <4>4. QED
        BY <4>1, <4>2, <4>3 DEF InTurn
    <3>3. QED
      BY <3>1, <3>2
  <2>3. QED
    BY <2>1, <2>2
<1>3. tail = o => Unfinished' = {}
  <2>1. Unfinished \subseteq {p \in Request : Lock(p)}
    BY DEF Unfinished, Waiting, InSection
  <2>2. tail = o => {p \in Request : Lock(p)} = before[o] \cup {o}
    BY <1>1, RequestAssumption DEF Line
  <2>3. QED
    BY <1>2, <2>1, <2>2
<1>4. Line'
  <2>1. UNCHANGED <<prev, before>> /\ tail' = IF tail = o THEN NoRequest ELSE tail
    BY DEF Release
  <2>2. tail' = NoRequest => Unfinished' = {}
    BY <1>3, <2>1 DEF Line
  <2>3. QED
    BY <1>1, <2>1, <2>2 DEF Line
<1>5. InTurn'
  BY <1>1, <1>2 DEF InTurn, Release
<1>6. QED
  BY <1>4, <1>5

\* What the steps outside the lock do to its state: nothing.
LEMMA OutsideLock ==
  ASSUME LineInv, NEW o \in Request, ~Lock(o) \/ pc[o] \in {"live", "push"},
         UNCHANGED <<lockVars, kind>>, NEW s \in Steps, Goto(o, s),
         Lock(o) => s \in {"push", "ok", "failed"},
         KindType', Places'
  PROVE LineInv'
<1> USE DEF LineInv, KindType
<1>1. \A p \in Request : Lock(p) => (Waiting(p)' <=> Waiting(p))
  BY DEF Goto, Waiting
<1>2. \A p \in Request : InSection(p)' <=> InSection(p)
  BY DEF Goto, InSection
<1>3. \A p \in Request : Waiting(p)' <=> Waiting(p)
  BY <1>1 DEF Waiting
<1>4. Unfinished' = Unfinished
  BY <1>2, <1>3 DEF Unfinished
<1>5. QED
  BY <1>1, <1>4, LineKept DEF lockVars

\* The end of a section, whatever it comes to.
LEMMA SectionEnds ==
  ASSUME LineInv, NEW o \in Request, MayEnter(o) \/ InSection(o), Release(o),
         UNCHANGED kind, NEW s \in {"live", "ok", "failed"}, Goto(o, s),
         KindType', Places'
  PROVE LineInv'
<1> USE DEF LineInv, KindType
<1>1. ~Waiting(o)' /\ ~InSection(o)'
  BY DEF Goto, Waiting, InSection
<1>2. \A p \in Request \ {o} : (Waiting(p)' <=> Waiting(p)) /\ (InSection(p)' <=> InSection(p))
  BY DEF Goto, Waiting, InSection
<1>3. Unfinished' = Unfinished \ {o}
  BY <1>1, <1>2 DEF Unfinished
<1>4. QED
  BY <1>2, <1>3, LineReleased

\* A section begins with everybody before it finished.
LEMMA SectionBegins ==
  ASSUME LineInv, NEW o \in Request, MayEnter(o), Goto(o, "read"),
         UNCHANGED <<lockVars, kind>>, KindType', Places'
  PROVE LineInv'
<1> USE DEF LineInv, KindType
<1>1. o \in Request /\ Lock(o) /\ Waiting(o) /\ InSection(o)' /\ ~Waiting(o)'
  BY DEF MayEnter, Goto, Waiting, InSection
<1>2. \A p \in Request \ {o} : (Waiting(p)' <=> Waiting(p)) /\ (InSection(p)' <=> InSection(p))
  BY DEF Goto, Waiting, InSection
<1>3. Unfinished' = Unfinished
  BY <1>1, <1>2 DEF Unfinished
<1>4. before[o] \cap Unfinished = {}
  <2>1. CASE prev[o] = NoRequest
    BY <1>1, <2>1 DEF Line
  <2>2. CASE prev[o] # NoRequest
    <3>1. prev[o] \in Request /\ before[o] = before[prev[o]] \cup {prev[o]}
      BY <1>1, <2>2 DEF Line
    <3>2. prev[o] \notin Unfinished /\ Lock(prev[o])
      BY <1>1, <3>1 DEF MayEnter, Line
    <3>3. ~Waiting(prev[o])
      BY <3>1, <3>2 DEF Unfinished
    <3>4. QED
      BY <3>1, <3>2, <3>3 DEF InTurn
  <2>3. QED
    BY <2>1, <2>2
<1>5. Line' /\ InTurn'
  BY <1>1, <1>2, <1>3, <1>4 DEF Line, InTurn, lockVars
<1>6. QED
  BY <1>5

\* A call that takes its place in the line is the last one.
LEMMA SectionQueued ==
  ASSUME LineInv, NEW o \in Request, NEW k \in Locked, Arrive(o, k),
         KindType', Places'
  PROVE LineInv'
<1> USE DEF LineInv, KindType
<1>1. ~Lock(o) /\ pc[o] = "idle" /\ Enqueue(o) /\ Goto(o, "queued")
  BY DEF Arrive, Places, Locked
<1>2. kind' = [kind EXCEPT ![o] = k] /\ Lock(o)'
  BY DEF Arrive
<1>3. \A p \in Request \ {o} : Lock(p)' <=> Lock(p)
  BY <1>2
<1>4. \A p \in Request \ {o} : (Waiting(p)' <=> Waiting(p)) /\ (InSection(p)' <=> InSection(p))
  BY <1>1, <1>2 DEF Goto, Waiting, InSection
<1>5. Unfinished' = Unfinished \cup {o} /\ o \notin Unfinished /\ Waiting(o)'
  BY <1>1, <1>2, <1>4 DEF Unfinished, Goto, Waiting, InSection
<1>6. {p \in Request : Lock(p)}' = {p \in Request : Lock(p)} \cup {o}
  BY <1>2, <1>3
<1>7. before' = [before EXCEPT ![o] = {p \in Request : Lock(p)}] /\ tail' = o
      /\ prev' = [prev EXCEPT ![o] = tail] /\ o # NoRequest
  BY <1>1, RequestAssumption DEF Enqueue
<1>8. \A p \in Request : o \notin before[p]
  BY <1>1 DEF Line
<1>9. \A p \in Request : Lock(p) /\ prev[p] # NoRequest => prev[p] # o
  BY <1>8 DEF Line
<1>10. Line'
  <2>1. (\A p \in Request : before[p] \subseteq {q \in Request : Lock(q)} \ {p})'
    BY <1>1, <1>3, <1>6, <1>7, <1>8 DEF Line
  <2>2. (\A p, q \in Request : Lock(p) /\ Lock(q) /\ p # q =>
           p \in before[q] \/ q \in before[p])'
    BY <1>3, <1>7 DEF Line
  <2>3. (\A p \in Request : Lock(p) /\ prev[p] # NoRequest =>
           before[p] = before[prev[p]] \cup {prev[p]})'
    BY <1>1, <1>3, <1>7, <1>9 DEF Line
  <2>4. (\A p \in Request : Lock(p) /\ prev[p] = NoRequest =>
           before[p] \cap Unfinished = {})'
    <3>1. ASSUME NEW p \in Request, p # o, Lock(p), prev[p] = NoRequest
          PROVE before'[p] \cap Unfinished' = {}
      BY <1>5, <1>7, <1>8, <3>1 DEF Line
    <3>2. ASSUME tail = NoRequest PROVE before'[o] \cap Unfinished' = {}
      <4>1. Unfinished' = {o}
        BY <1>5, <3>2 DEF Line
      <4>2. QED
        BY <1>1, <1>7, <4>1
    <3>3. QED
      BY <1>3, <1>7, <3>1, <3>2
  <2>5. (tail = NoRequest => Unfinished = {})'
    BY <1>7
  <2>6. (tail # NoRequest => Lock(tail) /\ {p \in Request : Lock(p)} = before[tail] \cup {tail})'
    BY <1>2, <1>6, <1>7
  <2>7. QED
    BY <2>1, <2>2, <2>3, <2>4, <2>5, <2>6 DEF Line
<1>11. InTurn'
  BY <1>3, <1>4, <1>5, <1>7, <1>8 DEF InTurn
<1>12. QED
  BY <1>10, <1>11

\* Values stay in their types, and a call where its kind may be.
LEMMA ReadType ==
  ASSUME NEW o \in Request, definition \in Definition \cup {NoDomain},
         live \in Definition \cup {NoDomain}, definition # NoDomain,
         base \in [Request -> Definition \cup {NoDomain}],
         misread \in [Request -> BOOLEAN], Read(o)
  PROVE /\ \E d \in Definition : base' = [base EXCEPT ![o] = d] /\ base'[o] = d
        /\ misread' \in [Request -> BOOLEAN]
<1>1. \A d \in Definition : Redacted(d) \in Definition
  BY DEF Redacted, Definition, Value, Settings, Displays
<1>2. Current \in Definition
  BY DEF Current
<1>3. Dump(o) \in Definition
  BY <1>1, <1>2 DEF Dump
<1>4. Fallback(o) \in Definition
  BY <1>1, <1>2 DEF Fallback
<1>5. \E d \in Definition : base' = [base EXCEPT ![o] = d]
  BY <1>3, <1>4 DEF Read
<1>6. misread' \in [Request -> BOOLEAN]
  <2>1. \E b \in BOOLEAN : misread' = [misread EXCEPT ![o] = b]
    BY DEF Read
  <2>2. QED
    BY <2>1
<1>7. QED
  BY <1>5, <1>6

LEMMA ModifiedType ==
  ASSUME NEW o \in Request, base[o] \in Definition
  PROVE Modified(o) \in Definition
  BY DEF Modified, NewValue, Definition, Value

LEMMA AddDeviceType ==
  ASSUME NEW o \in Request, NEW d \in Definition \cup {NoDomain}
  PROVE AddDevice(o, d) \in Definition \cup {NoDomain}
  BY DEF AddDevice, Definition

TypeInv == TypeOK /\ Places /\ \A o \in Request : pc[o] = "read" => base[o] \in Definition

LEMMA TypeInit == Init => TypeInv
<1> SUFFICES ASSUME Init PROVE TypeInv
  OBVIOUS
<1> USE RequestAssumption DEF Init
<1>1. Created \in Definition
  BY DEF Created, Definition, Value
<1>2. TypeOK
  BY <1>1 DEF TypeOK, Steps, Value
<1>3. Places
  BY DEF Places
<1>4. QED
  BY <1>2, <1>3 DEF TypeInv

\* A step that moves one call on, in its types, keeps the types.
LEMMA TypeMoved ==
  ASSUME TypeInv, NEW o \in Request, NEW s \in Steps, Goto(o, s), s # "idle",
         pc[o] # "idle", UNCHANGED kind,
         s = "checked" => kind[o] \in Checks,
         s = "defined" => kind[o] = "start",
         s = "destroyed" => kind[o] = "delete",
         s \in {"begin", "attached"} => kind[o] \notin Locked,
         s = "read" => kind[o] \in Locked \cup Bypassing /\ base'[o] \in Definition,
         definition' \in Definition \cup {NoDomain},
         live' \in Definition \cup {NoDomain},
         tail' \in Request \cup {NoRequest},
         UNCHANGED <<prev, before>>,
         \E d \in Definition \cup {NoDomain} : base' = [base EXCEPT ![o] = d],
         \E v \in Value : password' = [password EXCEPT ![o] = v],
         display' \in [Displays -> Value],
         crossed' \in [Request -> BOOLEAN], misread' \in [Request -> BOOLEAN],
         unseen' \in [Request -> BOOLEAN], disturbed' \in BOOLEAN
  PROVE TypeInv'
<1> USE DEF TypeInv, TypeOK, Goto
<1>1. TypeOK'
  <2>1. pc' \in [Request -> Steps]
    OBVIOUS
  <2>2. base' \in [Request -> Definition \cup {NoDomain}]
    OBVIOUS
  <2>3. password' \in [Request -> Value]
    OBVIOUS
  <2>4. QED
    BY <2>1, <2>2, <2>3
<1>2. Places'
  BY DEF Places
<1>3. (\A p \in Request : pc[p] = "read" => base[p] \in Definition)'
  <2>1. ASSUME NEW p \in Request, p # o, pc'[p] = "read" PROVE base'[p] \in Definition
    <3>1. pc[p] = "read" /\ base'[p] = base[p]
      BY <2>1
    <3>2. QED
      BY <3>1
  <2>2. pc'[o] = s
    OBVIOUS
  <2>3. QED
    BY <2>1, <2>2
<1>4. QED
  BY <1>1, <1>2, <1>3

LEMMA TypeStep == TypeInv /\ [Next]_vars => TypeInv'
<1> SUFFICES ASSUME TypeInv, [Next]_vars PROVE TypeInv'
  OBVIOUS
<1> USE DEF machineVars, lockVars, historyVars
<1>a. \A o \in Request : /\ base[o] \in Definition \cup {NoDomain}
                         /\ password[o] \in Value
                         /\ base = [base EXCEPT ![o] = base[o]]
                         /\ password = [password EXCEPT ![o] = password[o]]
  BY DEF TypeInv, TypeOK
<1>b. /\ definition \in Definition \cup {NoDomain} /\ live \in Definition \cup {NoDomain}
      /\ tail \in Request \cup {NoRequest}
      /\ crossed \in [Request -> BOOLEAN] /\ disturbed \in BOOLEAN
      /\ misread \in [Request -> BOOLEAN] /\ unseen \in [Request -> BOOLEAN]
      /\ display \in [Displays -> Value]
  BY DEF TypeInv, TypeOK
<1>c. \A o \in Request : Release(o) => tail' \in Request \cup {NoRequest} /\ UNCHANGED <<prev, before>>
  BY <1>b DEF Release
<1>d. \A o \in Request : Cross(o) => crossed' \in [Request -> BOOLEAN]
  BY DEF Cross
<1>l. \A o \in Request : Leave(o) =>
        /\ crossed' \in [Request -> BOOLEAN] /\ misread' \in [Request -> BOOLEAN]
        /\ unseen' \in [Request -> BOOLEAN] /\ disturbed' \in BOOLEAN
        /\ base' = [base EXCEPT ![o] = NoDomain]
  BY <1>b DEF Leave
<1>w. \A o \in Request : Write(o) =>
        /\ crossed' \in [Request -> BOOLEAN] /\ misread' \in [Request -> BOOLEAN]
        /\ unseen' \in [Request -> BOOLEAN] /\ disturbed' \in BOOLEAN
        /\ definition' = Modified(o) /\ base' = [base EXCEPT ![o] = NoDomain]
  BY <1>b, <1>d DEF Write
<1>1. ASSUME NEW o \in Request, NEW k \in Kinds, Arrive(o, k) PROVE TypeInv'
  <2>1. TypeOK'
    BY <1>1, RequestAssumption DEF TypeInv, TypeOK, Arrive, Enqueue, Goto, Steps
  <2>2. k # "none"
    BY RequestAssumption DEF AllKinds, Locked, Bypassing, Commands
  <2>3. Places'
    BY <1>1, <2>2 DEF TypeInv, TypeOK, Arrive, Goto, Places
  <2>4. QED
    BY <1>1, <2>1, <2>3 DEF TypeInv, TypeOK, Arrive, Goto
<1>2. ASSUME NEW o \in Request, EnterSection(o) PROVE TypeInv'
  <2>1. pc[o] = "queued" /\ kind[o] \in Locked
    BY <1>2 DEF EnterSection, MayEnter, Waiting
  <2>2. /\ \E d \in Definition : base' = [base EXCEPT ![o] = d] /\ base'[o] = d
        /\ misread' \in [Request -> BOOLEAN]
    BY <1>2, <1>b, ReadType DEF EnterSection, TypeInv, TypeOK
  <2>3. /\ base'[o] \in Definition
        /\ \E d \in Definition \cup {NoDomain} : base' = [base EXCEPT ![o] = d]
    BY <2>2
  <2>4. /\ Goto(o, "read") /\ kind[o] \in Locked \cup Bypassing
        /\ UNCHANGED <<definition, live, display, tail, prev, before, kind, password,
                       crossed, unseen, disturbed>>
    BY <1>2, <2>1 DEF EnterSection
  <2>5. QED
    BY <1>a, <1>b, <2>1, <2>2, <2>3, <2>4, TypeMoved DEF Steps
<1>3. ASSUME NEW o \in Request, KeepFound(o) PROVE TypeInv'
  <2>1. pc[o] = "read" /\ kind[o] \in Locked /\ base[o] \in Definition
    BY <1>3 DEF KeepFound, InSection, TypeInv
  <2>2. AfterSection(kind[o]) \in {"ok", "live"}
    BY DEF AfterSection
  <2>3. \E v \in Value : password' = [password EXCEPT ![o] = v]
    <3>1. kind[o] # "console" => base[o].set[kind[o]] \in Value
      BY <2>1 DEF Locked, Definition, Settings, Displays
    <3>2. QED
      BY <1>3, <1>a, <3>1 DEF KeepFound
  <2>4. QED
    BY <1>3, <1>b, <1>c, <1>l, <2>1, <2>2, <2>3, TypeMoved DEF KeepFound, Steps
<1>4. ASSUME NEW o \in Request, DefineInSection(o) PROVE TypeInv'
  <2>1. pc[o] = "read" /\ kind[o] \in Locked /\ base[o] \in Definition
    BY <1>4 DEF DefineInSection, InSection, TypeInv
  <2>2. AfterSection(kind[o]) \in {"ok", "live"}
    BY DEF AfterSection
  <2>3. \E v \in Value : password' = [password EXCEPT ![o] = v]
    BY <1>4, <1>a DEF DefineInSection, Value
  <2>4. Modified(o) \in Definition
    BY <2>1, ModifiedType
  <2>5. QED
    BY <1>4, <1>b, <1>c, <1>w, <2>1, <2>2, <2>3, <2>4, TypeMoved
    DEF DefineInSection, Steps
<1>5. ASSUME NEW o \in Request, SectionFails(o) PROVE TypeInv'
  <2>1. pc[o] # "idle"
    BY <1>5 DEF SectionFails, MayEnter, Waiting, InSection
  <2>2. QED
    BY <1>5, <1>a, <1>b, <1>c, <1>l, <2>1, TypeMoved DEF SectionFails, Steps
<1>6. ASSUME NEW o \in Request, LooksLive(o) PROVE TypeInv'
  <2>1. unseen' \in [Request -> BOOLEAN] /\ \E s \in {"push", "ok"} : Goto(o, s)
    BY <1>6, <1>b DEF LooksLive
  <2>2. QED
    BY <1>6, <1>a, <1>b, <2>1, TypeMoved DEF LooksLive, Steps
<1>7. ASSUME NEW o \in Request, SetPassword(o) PROVE TypeInv'
  <2>1. display' \in [Displays -> Value]
    BY <1>7, <1>a, <1>b DEF SetPassword
  <2>2. QED
    BY <1>7, <1>a, <1>b, <2>1, TypeMoved DEF SetPassword, Steps
<1>8. ASSUME NEW o \in Request, MonitorFails(o) PROVE TypeInv'
  BY <1>8, <1>a, <1>b, TypeMoved DEF MonitorFails, Steps
<1>9. ASSUME NEW o \in Request, CheckState(o) PROVE TypeInv'
  <2>1. \E s \in {"checked", "ok", "failed"} : Goto(o, s)
    BY <1>9 DEF CheckState
  <2>2. QED
    BY <1>9, <1>a, <1>b, <2>1, TypeMoved DEF CheckState, Steps
<1>10. ASSUME NEW o \in Request, Attach(o) PROVE TypeInv'
  <2>1. definition' \in Definition \cup {NoDomain} /\ live' \in Definition \cup {NoDomain}
    BY <1>10, <1>b, AddDeviceType DEF Attach
  <2>2. \E s \in {"attached", "ok"} : Goto(o, s) /\ kind[o] \notin Locked
    BY <1>10 DEF Attach, Locked
  <2>3. QED
    BY <1>10, <1>a, <1>b, <1>d, <2>1, <2>2, TypeMoved DEF Attach, Steps
<1>11. ASSUME NEW o \in Request, ReadOutside(o) PROVE TypeInv'
  <2>1. pc[o] # "idle"
    BY <1>11 DEF ReadOutside, ReadsAt
  <2>2. /\ \E d \in Definition : base' = [base EXCEPT ![o] = d] /\ base'[o] = d
        /\ misread' \in [Request -> BOOLEAN]
    BY <1>11, <1>b, ReadType DEF ReadOutside, TypeInv, TypeOK
  <2>3. /\ base'[o] \in Definition
        /\ \E d \in Definition \cup {NoDomain} : base' = [base EXCEPT ![o] = d]
    BY <2>2
  <2>4. /\ Goto(o, "read") /\ kind[o] \in Locked \cup Bypassing
        /\ UNCHANGED <<definition, live, display, tail, prev, before, kind, password,
                       crossed, unseen, disturbed>>
    BY <1>11, <2>1 DEF ReadOutside
  <2>5. QED
    BY <1>a, <1>b, <2>1, <2>2, <2>3, <2>4, TypeMoved DEF Steps
<1>12. ASSUME NEW o \in Request, DefineOutside(o) PROVE TypeInv'
  <2>1. Modified(o) \in Definition
    BY <1>12, ModifiedType DEF DefineOutside, TypeInv
  <2>2. \E s \in {"defined", "ok"} : Goto(o, s) /\ (s = "defined" => kind[o] = "start")
    BY <1>12 DEF DefineOutside
  <2>3. QED
    BY <1>12, <1>a, <1>b, <1>w, <2>1, <2>2, TypeMoved DEF DefineOutside, Steps
<1>13. ASSUME NEW o \in Request, SwitchOn(o) PROVE TypeInv'
  <2>1. display' \in [Displays -> Value]
    BY <1>13, <1>b DEF SwitchOn, Definition, Displays, Settings
  <2>2. QED
    BY <1>13, <1>a, <1>b, <1>d, <2>1, TypeMoved DEF SwitchOn, Steps
<1>14. ASSUME NEW o \in Request, Detach(o) PROVE TypeInv'
  <2>1. definition' \in Definition /\ live' \in Definition \cup {NoDomain}
    BY <1>14, <1>b DEF Detach, Definition
  <2>2. QED
    BY <1>14, <1>a, <1>b, <1>d, <2>1, TypeMoved DEF Detach, Steps
<1>15. ASSUME NEW o \in Request, Stop(o) PROVE TypeInv'
  <2>1. \E s \in {"destroyed", "ok"} : Goto(o, s) /\ (s = "destroyed" => kind[o] = "delete")
    BY <1>15 DEF Stop
  <2>2. display' \in [Displays -> Value]
    BY <1>15 DEF Stop, Value
  <2>3. QED
    BY <1>15, <1>a, <1>b, <2>1, <2>2, TypeMoved DEF Stop, Steps
<1>16. ASSUME NEW o \in Request, Undefine(o) PROVE TypeInv'
  BY <1>16, <1>a, <1>b, <1>d, TypeMoved DEF Undefine, Steps
<1>17. ASSUME NEW o \in Request, CallFails(o) PROVE TypeInv'
  BY <1>17, <1>a, <1>b, <1>l, TypeMoved DEF CallFails, Steps
<1>18. ASSUME RunnerRestarts PROVE TypeInv'
  <2>1. TypeOK'
    BY <1>18 DEF TypeInv, TypeOK, RunnerRestarts, Steps
  <2>2. Places'
    BY <1>18 DEF TypeInv, TypeOK, Places, RunnerRestarts
  <2>3. QED
    BY <1>18, <2>1, <2>2 DEF TypeInv, TypeOK, RunnerRestarts
<1>19. ASSUME UNCHANGED vars PROVE TypeInv'
  BY <1>19 DEF vars, TypeInv, TypeOK, Places
<1>20. QED
  BY <1>1, <1>2, <1>3, <1>4, <1>5, <1>6, <1>7, <1>8, <1>9, <1>10, <1>11, <1>12, <1>13,
     <1>14, <1>15, <1>16, <1>17, <1>18, <1>19
  DEF Next, Progress, Section, Console, Cycle, Command

\* Every variable has its type whatever the calls and commands do.
THEOREM TypeCorrect == Spec => []TypeOK
<1>1. Init => TypeInv
  BY TypeInit
<1>2. TypeInv /\ [Next]_vars => TypeInv'
  BY TypeStep
<1>3. TypeInv => TypeOK
  BY DEF TypeInv
<1>4. QED
  BY <1>1, <1>2, <1>3, PTL DEF Spec

-----------------------------------------------------------------------------
LEMMA TypesOfLine == TypeInv => KindType /\ Places
  BY DEF TypeInv, TypeOK, KindType

\* The line of the lock survives every step.
LEMMA LineStep == TypeInv /\ TypeInv' /\ LineInv /\ [Next]_vars => LineInv'
<1> SUFFICES ASSUME TypeInv, TypeInv', LineInv, [Next]_vars PROVE LineInv'
  OBVIOUS
<1> USE DEF lockVars
<1>a. KindType' /\ Places'
  BY TypesOfLine DEF TypeInv, TypeOK, KindType
<1>b. \A o \in Request : pc[o] \in {"begin", "attached"} => ~Lock(o)
  BY DEF LineInv, Places
<1>c. \A o \in Request : pc[o] \in {"checked", "defined", "destroyed"} => ~Lock(o)
  BY DEF LineInv, Places, Checks, Locked
<1>d. \A o \in Request : kind[o] \in Bypassing => ~Lock(o)
  BY DEF Bypassing, Locked
<1>1. ASSUME NEW o \in Request, NEW k \in Kinds, Arrive(o, k) PROVE LineInv'
  <2>1. CASE k \in Locked
    BY <1>1, <1>a, <2>1, SectionQueued
  <2>2. CASE k \notin Locked
    <3>1. /\ Goto(o, "begin") /\ UNCHANGED lockVars
          /\ kind' = [kind EXCEPT ![o] = k] /\ ~Lock(o)
      BY <1>1, <2>2 DEF Arrive, LineInv, Places, Locked
    <3>2. \A p \in Request : Lock(p)' <=> Lock(p)
      BY <2>2, <3>1 DEF LineInv, KindType
    <3>3. \A p \in Request : (Waiting(p)' <=> Waiting(p)) /\ (InSection(p)' <=> InSection(p))
      BY <3>1, <3>2 DEF Goto, Waiting, InSection, LineInv, KindType
    <3>4. Unfinished' = Unfinished
      BY <3>3 DEF Unfinished
    <3>5. Line' /\ InTurn'
      BY <3>1, <3>2, <3>3, <3>4 DEF LineInv, Line, InTurn
    <3>6. QED
      BY <1>a, <3>5 DEF LineInv
  <2>3. QED
    BY <2>1, <2>2
<1>2. ASSUME NEW o \in Request, EnterSection(o) PROVE LineInv'
  BY <1>2, <1>a, SectionBegins DEF EnterSection
<1>3. ASSUME NEW o \in Request, KeepFound(o) PROVE LineInv'
  BY <1>3, <1>a, SectionEnds DEF KeepFound, AfterSection
<1>4. ASSUME NEW o \in Request, DefineInSection(o) PROVE LineInv'
  BY <1>4, <1>a, SectionEnds DEF DefineInSection, AfterSection
<1>5. ASSUME NEW o \in Request, SectionFails(o) PROVE LineInv'
  BY <1>5, <1>a, SectionEnds DEF SectionFails
<1>6. ASSUME NEW o \in Request, Console(o) PROVE LineInv'
  BY <1>6, <1>a, OutsideLock DEF Console, LooksLive, SetPassword, MonitorFails, Steps
<1>7. ASSUME NEW o \in Request, CheckState(o) PROVE LineInv'
  BY <1>7, <1>a, <1>b, OutsideLock DEF CheckState, Steps
<1>8. ASSUME NEW o \in Request, Attach(o) PROVE LineInv'
  BY <1>8, <1>a, <1>b, OutsideLock DEF Attach, Steps
<1>9. ASSUME NEW o \in Request, ReadOutside(o) PROVE LineInv'
  BY <1>9, <1>a, <1>d, OutsideLock DEF ReadOutside, Steps
<1>10. ASSUME NEW o \in Request, DefineOutside(o) PROVE LineInv'
  BY <1>10, <1>a, <1>d, OutsideLock DEF DefineOutside, Steps
<1>11. ASSUME NEW o \in Request, SwitchOn(o) PROVE LineInv'
  BY <1>11, <1>a, <1>c, OutsideLock DEF SwitchOn, Steps
<1>12. ASSUME NEW o \in Request, Detach(o) \/ Stop(o) PROVE LineInv'
  BY <1>12, <1>a, <1>b, OutsideLock DEF Detach, Stop, Steps
<1>13. ASSUME NEW o \in Request, Undefine(o) PROVE LineInv'
  BY <1>13, <1>a, <1>c, OutsideLock DEF Undefine, Steps
<1>14. ASSUME NEW o \in Request, CallFails(o) PROVE LineInv'
  BY <1>14, <1>a, OutsideLock DEF CallFails, Steps
<1>15. ASSUME RunnerRestarts PROVE LineInv'
  <2>1. UNCHANGED <<prev, before, kind>> /\ tail' = NoRequest
    BY <1>15 DEF RunnerRestarts
  <2>2. Unfinished' = {}
    BY <1>15 DEF RunnerRestarts, Unfinished, Waiting, InSection
  <2>3. Line' /\ InTurn'
    BY <2>1, <2>2 DEF LineInv, Line, InTurn
  <2>4. QED
    BY <1>a, <2>3 DEF LineInv
<1>16. ASSUME UNCHANGED vars PROVE LineInv'
  BY <1>16, <1>a DEF vars, lockVars, machineVars, historyVars, LineInv, KindType, Places, Line, InTurn, Unfinished, Waiting, InSection
<1>17. QED
  BY <1>1, <1>2, <1>3, <1>4, <1>5, <1>6, <1>7, <1>8, <1>9, <1>10, <1>11, <1>12, <1>13,
     <1>14, <1>15, <1>16
  DEF Next, Progress, Section, Cycle, Command

\* Two sections on one machine never overlap.
LEMMA SectionsExclude ==
  ASSUME LineInv, NEW o \in Request, NEW p \in Request, InSection(o), InSection(p)
  PROVE o = p
<1>1. before[o] \cap Unfinished = {} /\ before[p] \cap Unfinished = {}
  BY DEF LineInv, InTurn, InSection, Waiting
<1>2. o \in Unfinished /\ p \in Unfinished /\ Lock(o) /\ Lock(p)
  BY DEF Unfinished, InSection
<1>3. QED
  BY <1>1, <1>2 DEF LineInv, Line

\* Whose turn it is finds nobody inside: those before it have ended, and
\* those after it wait for it.
LEMMA LoneEntry ==
  ASSUME LineInv, NEW o \in Request, NEW p \in Request, MayEnter(o) PROVE ~InSection(p)
<1> SUFFICES ASSUME InSection(p) PROVE FALSE
  OBVIOUS
<1>1. /\ Lock(o) /\ Lock(p) /\ o # p /\ o \in Unfinished /\ p \in Unfinished
      /\ prev[o] \notin Unfinished /\ ~Waiting(p)
  BY DEF MayEnter, Waiting, InSection, Unfinished
<1>2. o \notin before[p]
  BY <1>1 DEF LineInv, InTurn
<1>3. p \in before[o]
  BY <1>1, <1>2 DEF LineInv, Line
<1>4. prev[o] \in Request /\ p \in before[prev[o]] /\ Lock(prev[o])
  BY <1>1, <1>3 DEF LineInv, Line, KindType
<1>5. before[prev[o]] \cap Unfinished = {}
  BY <1>1, <1>4 DEF LineInv, InTurn, Unfinished
<1>6. QED
  BY <1>1, <1>4, <1>5

\* What a call has read that nobody outside the lock has crossed, and that
\* read the definition as it is, is still there.
Fresh ==
  \A o \in Request : pc[o] = "read" /\ ~crossed[o] /\ ~misread[o] =>
    definition # NoDomain /\ base[o] = definition

IInv == TypeInv /\ LineInv /\ Fresh

\* A step that does not change the definition may begin a read.
LEMMA FreshQuiet ==
  ASSUME TypeInv, Fresh, NEW o \in Request, NEW s \in Steps, Goto(o, s),
         UNCHANGED definition,
         \A p \in Request \ {o} :
           base'[p] = base[p] /\ crossed'[p] = crossed[p] /\ misread'[p] = misread[p],
         s = "read" /\ ~crossed'[o] /\ ~misread'[o] =>
            definition # NoDomain /\ base'[o] = definition
  PROVE Fresh'
<1> USE DEF TypeInv, TypeOK, Goto
<1>1. ASSUME NEW p \in Request, p # o, pc'[p] = "read", ~crossed'[p], ~misread'[p]
      PROVE definition' # NoDomain /\ base'[p] = definition'
  <2>1. pc[p] = "read" /\ base'[p] = base[p] /\ ~crossed[p] /\ ~misread[p]
    BY <1>1
  <2>2. QED
    BY <2>1 DEF Fresh
<1>2. pc'[o] = s
  OBVIOUS
<1>3. QED
  BY <1>1, <1>2 DEF Fresh

\* A step that changes it and crosses everybody else who has begun to read,
\* or everybody who is not in a section, leaves nothing stale unmarked.
LEMMA FreshCrossed ==
  ASSUME TypeInv, NEW o \in Request, NEW s \in Steps, Goto(o, s),
         s # "read", Cross(o),
         Lock(o) => \A p \in Request : InSection(p) => p = o
  PROVE Fresh'
<1> USE DEF TypeInv, TypeOK, Goto
<1>1. ASSUME NEW p \in Request, p # o, pc[p] = "read" PROVE crossed'[p]
  <2>1. p \in Window
    BY <1>1 DEF Window
  <2>2. ~(Lock(p) /\ Lock(o))
    BY <1>1 DEF InSection
  <2>3. QED
    BY <1>1, <2>1, <2>2 DEF Cross
<1>2. \A p \in Request : pc'[p] = "read" => p # o /\ pc[p] = "read"
  OBVIOUS
<1>3. QED
  BY <1>1, <1>2 DEF Fresh

\* A read that got what it asked for got the definition, unless it is marked.
LEMMA FreshRead ==
  ASSUME TypeInv, NEW o \in Request, Read(o), definition # NoDomain
  PROVE /\ \A p \in Request \ {o} : base'[p] = base[p] /\ misread'[p] = misread[p]
        /\ ~misread'[o] => base'[o] = definition
<1> USE DEF TypeInv, TypeOK
<1>1. PICK answered \in BOOLEAN :
        /\ base' = [base EXCEPT ![o] = IF answered THEN Dump(o) ELSE Fallback(o)]
        /\ misread' = [misread EXCEPT ![o] =
             \/ ~answered /\ Fallback(o) # Dump(o)
             \/ kind[o] = "repair"
             \/ kind[o] = "start" /\ live # NoDomain]
  BY DEF Read
<1>2. \A p \in Request \ {o} : base'[p] = base[p] /\ misread'[p] = misread[p]
  BY <1>1
<1>3. ASSUME ~misread'[o] PROVE base'[o] = definition
  <2>1. /\ ~(~answered /\ Fallback(o) # Dump(o)) /\ kind[o] # "repair"
        /\ ~(kind[o] = "start" /\ live # NoDomain)
    BY <1>1, <1>3
  <2>2. base'[o] = Dump(o)
    BY <1>1, <2>1
  <2>3. Dump(o) = definition
    BY <2>1 DEF Dump, Current
  <2>4. QED
    BY <2>2, <2>3
<1>4. QED
  BY <1>2, <1>3

LEMMA FreshStep ==
  ASSUME IInv, TypeInv', [Next]_vars PROVE Fresh'
<1> USE DEF IInv, machineVars, historyVars
<1>a. \A o \in Request : pc[o] \in {"begin", "attached"} => ~Lock(o)
  BY DEF LineInv, Places
<1>b. \A o \in Request : pc[o] \in {"checked", "defined", "destroyed"} => ~Lock(o)
  BY DEF LineInv, Places, Checks, Locked
<1>c. \A o \in Request : kind[o] \in Bypassing => ~Lock(o)
  BY DEF Bypassing, Locked
<1>d. \A o \in Request : Leave(o) =>
        \A p \in Request \ {o} :
          base'[p] = base[p] /\ crossed'[p] = crossed[p] /\ misread'[p] = misread[p]
  BY DEF Leave, TypeInv, TypeOK
<1>1. ASSUME NEW o \in Request, NEW k \in Kinds, Arrive(o, k) PROVE Fresh'
  <2>1. \E s \in {"queued", "begin"} : Goto(o, s)
    BY <1>1 DEF Arrive
  <2>2. UNCHANGED <<definition, base, crossed, misread>>
    BY <1>1 DEF Arrive
  <2>3. QED
    BY <2>1, <2>2, FreshQuiet DEF Steps
<1>2. ASSUME NEW o \in Request, EnterSection(o) \/ ReadOutside(o) PROVE Fresh'
  <2>1. /\ Read(o) /\ definition # NoDomain /\ Goto(o, "read")
        /\ UNCHANGED <<definition, crossed>>
    BY <1>2 DEF EnterSection, ReadOutside
  <2>2. QED
    BY <2>1, FreshRead, FreshQuiet DEF Steps
<1>3. ASSUME NEW o \in Request, KeepFound(o) PROVE Fresh'
  BY <1>3, <1>d, FreshQuiet DEF KeepFound, AfterSection, Steps
<1>4. ASSUME NEW o \in Request, DefineInSection(o) PROVE Fresh'
  <2>1. InSection(o) /\ Cross(o) /\ Goto(o, AfterSection(kind[o]))
    BY <1>4 DEF DefineInSection, Write
  <2>2. \A p \in Request : InSection(p) => p = o
    BY <2>1, SectionsExclude
  <2>3. QED
    BY <2>1, <2>2, FreshCrossed DEF AfterSection, Steps
<1>5. ASSUME NEW o \in Request, SectionFails(o) PROVE Fresh'
  BY <1>5, <1>d, FreshQuiet DEF SectionFails, Steps
<1>6. ASSUME NEW o \in Request, Console(o) PROVE Fresh'
  <2>1. \E s \in {"push", "ok", "failed"} : Goto(o, s)
    BY <1>6 DEF Console, LooksLive, SetPassword, MonitorFails
  <2>2. UNCHANGED <<definition, base, crossed, misread>>
    BY <1>6 DEF Console, LooksLive, SetPassword, MonitorFails
  <2>3. QED
    BY <2>1, <2>2, FreshQuiet DEF Steps
<1>7. ASSUME NEW o \in Request, CheckState(o) \/ Stop(o) PROVE Fresh'
  <2>1. \E s \in {"checked", "ok", "failed", "destroyed"} : Goto(o, s)
    BY <1>7 DEF CheckState, Stop
  <2>2. UNCHANGED <<definition, base, crossed, misread>>
    BY <1>7 DEF CheckState, Stop
  <2>3. QED
    BY <2>1, <2>2, FreshQuiet DEF Steps
<1>8. ASSUME NEW o \in Request, Attach(o) PROVE Fresh'
  <2>1. Cross(o) /\ \E s \in {"attached", "ok"} : Goto(o, s)
    BY <1>8 DEF Attach
  <2>2. ~Lock(o)
    BY <1>8, <1>a DEF Attach
  <2>3. QED
    BY <2>1, <2>2, FreshCrossed DEF Steps
<1>9. ASSUME NEW o \in Request, DefineOutside(o) PROVE Fresh'
  <2>1. Cross(o) /\ \E s \in {"defined", "ok"} : Goto(o, s)
    BY <1>9 DEF DefineOutside, Write
  <2>2. ~Lock(o)
    BY <1>9, <1>c DEF DefineOutside
  <2>3. QED
    BY <2>1, <2>2, FreshCrossed DEF Steps
<1>10. ASSUME NEW o \in Request, SwitchOn(o) \/ Detach(o) \/ Undefine(o) PROVE Fresh'
  <2>1. Cross(o) /\ Goto(o, "ok")
    BY <1>10 DEF SwitchOn, Detach, Undefine
  <2>2. ~Lock(o)
    BY <1>10, <1>a, <1>b DEF SwitchOn, Detach, Undefine
  <2>3. QED
    BY <2>1, <2>2, FreshCrossed DEF Steps
<1>11. ASSUME NEW o \in Request, CallFails(o) PROVE Fresh'
  BY <1>11, <1>d, FreshQuiet DEF CallFails, Steps
<1>12. ASSUME RunnerRestarts PROVE Fresh'
  BY <1>12 DEF RunnerRestarts, Fresh
<1>13. ASSUME UNCHANGED vars PROVE Fresh'
  BY <1>13 DEF vars, Fresh
<1>14. QED
  BY <1>1, <1>2, <1>3, <1>4, <1>5, <1>6, <1>7, <1>8, <1>9, <1>10, <1>11, <1>12, <1>13
  DEF Next, Progress, Section, Cycle, Command

LEMMA IInvInit == Init => IInv
<1>1. Init => Fresh
  BY DEF Init, Fresh
<1>2. QED
  BY <1>1, TypeInit, LineInit DEF IInv

LEMMA IInvStep == IInv /\ [Next]_vars => IInv'
  BY TypeStep, LineStep, FreshStep DEF IInv

\* A define based on what is still there changes its own settings only.
LEMMA FreshDefine ==
  ASSUME IInv, NEW o \in Request, Defines(o), ~crossed[o], ~misread[o]
  PROVE ChangesOnly(definition, definition', Own(kind[o]))
<1>1. pc[o] = "read" /\ definition' = Modified(o)
  BY DEF Defines, DefineInSection, DefineOutside, InSection, Write
<1>2. definition # NoDomain /\ base[o] = definition
  BY <1>1 DEF IInv, Fresh
<1>3. definition \in Definition
  BY <1>2 DEF IInv, TypeInv, TypeOK
<1>4. QED
  BY <1>1, <1>2, <1>3 DEF ChangesOnly, Modified, Definition

\* The property DefineChangesOnlyItsOwn: cycles inside the lock lose none of
\* each other's changes, and no cycle at all one from before its own read,
\* however many calls come, running machines are started and dumps fail.
THEOREM CyclesLoseNoChange == Spec => DefineChangesOnlyItsOwn
<1>1. IInv /\ [Next]_vars =>
        [\A o \in Request : Defines(o) /\ ~crossed[o] /\ ~misread[o]
           => ChangesOnly(definition, definition', Own(kind[o]))]_vars
  BY FreshDefine
<1>2. IInv /\ [Next]_vars => IInv'
  BY IInvStep
<1>3. QED
  BY <1>1, <1>2, IInvInit, PTL DEF Spec, DefineChangesOnlyItsOwn

-----------------------------------------------------------------------------
\* The calls that know the password of their display.
Told(o) == kind[o] \in Displays /\ pc[o] \in {"live", "push", "ok"}

\* A display without a password, or one that is not there.
Blank(k) == IF k = "spice" THEN {Unset, NoDevice} ELSE {Unset}

\* As long as no define has undone a change, a section has read what is still
\* there, or marked that it has not; the running machine was started with the
\* passwords there are or with none; a password that was told stays in the
\* definition, and a machine that runs with another one is one that the call
\* has yet to reach, or could not see.
Undisturbed ==
  /\ definition = NoDomain => live = NoDomain
  /\ live # NoDomain =>
       \A k \in Displays : live.set[k] \in Blank(k) \cup {definition.set[k]}
  /\ \A o \in Request : InSection(o) /\ definition # NoDomain =>
       \A k \in Displays :
         \/ base[o].set[k] = definition.set[k]
         \/ misread[o] /\ base[o].set[k] \in Blank(k)
  /\ \A o \in Request : Told(o) =>
       /\ password[o] \in Request \/ (kind[o] = "vnc" /\ password[o] # Unset)
       /\ definition # NoDomain => definition.set[kind[o]] = password[o]
  /\ \A o \in Request : Told(o) /\ pc[o] = "ok" /\ ~unseen[o] /\ live # NoDomain =>
       live.set[kind[o]] = NoDevice \/ display[kind[o]] = password[o]

Passwords == ~disturbed => Undisturbed

\* A step that tells nobody a password and leaves the displays alone.
LEMMA PasswordsKept ==
  ASSUME TypeInv, Passwords, disturbed => disturbed',
         ~disturbed' =>
           /\ definition' = NoDomain => live' = NoDomain
           /\ definition' # NoDomain =>
                /\ definition # NoDomain
                /\ \A k \in Displays : definition'.set[k] = definition.set[k],
         live' # NoDomain =>
           /\ live # NoDomain /\ display' = display
           /\ \A k \in Displays : live'.set[k] = live.set[k],
         \A p \in Request : Told(p)' =>
           /\ Told(p) /\ kind'[p] = kind[p] /\ password'[p] = password[p]
           /\ pc'[p] = "ok" /\ ~unseen'[p] /\ live' # NoDomain =>
                (pc[p] = "ok" /\ ~unseen[p]) \/ live'.set[kind[p]] = NoDevice,
         \A p \in Request : InSection(p)' =>
           InSection(p) /\ base'[p] = base[p] /\ misread'[p] = misread[p]
  PROVE Passwords'
<1> SUFFICES ASSUME ~disturbed' PROVE Undisturbed'
  BY DEF Passwords
<1>1. Undisturbed
  BY DEF Passwords
<1>2. ASSUME NEW p \in Request, InSection(p)', definition' # NoDomain, NEW k \in Displays
      PROVE \/ base'[p].set[k] = definition'.set[k]
            \/ misread'[p] /\ base'[p].set[k] \in Blank(k)'
  <2>1. /\ InSection(p) /\ base'[p] = base[p] /\ misread'[p] = misread[p]
        /\ definition # NoDomain /\ definition'.set[k] = definition.set[k]
    BY <1>2
  <2>2. QED
    BY <1>1, <2>1 DEF Undisturbed, Blank
<1>3. ASSUME NEW p \in Request, Told(p)'
      PROVE /\ password'[p] \in Request \/ (kind'[p] = "vnc" /\ password'[p] # Unset)
            /\ definition' # NoDomain => definition'.set[kind'[p]] = password'[p]
  <2>1. Told(p) /\ kind'[p] = kind[p] /\ password'[p] = password[p] /\ kind[p] \in Displays
    BY <1>3 DEF Told
  <2>2. QED
    BY <1>1, <2>1 DEF Undisturbed
<1>4. ASSUME NEW p \in Request, Told(p)', pc'[p] = "ok", ~unseen'[p], live' # NoDomain
      PROVE live'.set[kind'[p]] = NoDevice \/ display'[kind'[p]] = password'[p]
  <2>1. Told(p) /\ kind'[p] = kind[p] /\ password'[p] = password[p] /\ kind[p] \in Displays
    BY <1>4 DEF Told
  <2>2. QED
    BY <1>1, <1>4, <2>1 DEF Undisturbed
<1>5. ASSUME live' # NoDomain, NEW k \in Displays
      PROVE live'.set[k] \in Blank(k)' \cup {definition'.set[k]}
  <2>1. definition' # NoDomain /\ live # NoDomain
    BY <1>5
  <2>2. live'.set[k] = live.set[k] /\ definition'.set[k] = definition.set[k]
    BY <1>5, <2>1
  <2>3. live.set[k] \in Blank(k) \cup {definition.set[k]}
    BY <1>1, <2>1 DEF Undisturbed
  <2>4. QED
    BY <2>2, <2>3 DEF Blank
<1>6. QED
  BY <1>2, <1>3, <1>4, <1>5 DEF Undisturbed

\* A step that moves one call on without telling it a password, beside the displays.
LEMMA PasswordsBeside ==
  ASSUME TypeInv, Passwords, NEW o \in Request, NEW s \in Steps, Goto(o, s),
         UNCHANGED <<kind, password>>, disturbed => disturbed',
         ~disturbed' =>
           /\ definition' = NoDomain => live' = NoDomain
           /\ definition' # NoDomain =>
                /\ definition # NoDomain
                /\ \A k \in Displays : definition'.set[k] = definition.set[k],
         live' # NoDomain =>
           /\ live # NoDomain /\ display' = display
           /\ \A k \in Displays : live'.set[k] = live.set[k],
         Lock(o) => s \notin {"read", "live"} /\ (s \in {"push", "ok"} => Told(o)),
         s = "ok" /\ Told(o) /\ ~unseen'[o] /\ live' # NoDomain =>
           live'.set[kind[o]] = NoDevice,
         \A p \in Request \ {o} :
           base'[p] = base[p] /\ misread'[p] = misread[p] /\ unseen'[p] = unseen[p]
  PROVE Passwords'
<1> USE DEF TypeInv, TypeOK, Goto
<1>1. ASSUME NEW p \in Request, Told(p)'
      PROVE /\ Told(p) /\ kind'[p] = kind[p] /\ password'[p] = password[p]
            /\ pc'[p] = "ok" /\ ~unseen'[p] /\ live' # NoDomain =>
                 (pc[p] = "ok" /\ ~unseen[p]) \/ live'.set[kind[p]] = NoDevice
  <2>1. CASE p = o
    <3>1. kind[o] \in Displays /\ Lock(o) /\ pc'[o] = s
      BY <1>1, <2>1 DEF Told, Displays, Locked
    <3>2. s \in {"push", "ok"}
      BY <1>1, <2>1, <3>1 DEF Told
    <3>3. QED
      BY <2>1, <3>1, <3>2
  <2>2. CASE p # o
    BY <1>1, <2>2 DEF Told
  <2>3. QED
    BY <2>1, <2>2
<1>2. ASSUME NEW p \in Request, InSection(p)'
      PROVE  InSection(p) /\ base'[p] = base[p] /\ misread'[p] = misread[p]
  BY <1>2 DEF InSection
<1>3. QED
  BY <1>1, <1>2, PasswordsKept

\* Only a request for a password turns to the running machine.
Turned == \A o \in Request : pc[o] \in {"live", "push"} => kind[o] \in Displays

LEMMA TurnedMoved ==
  ASSUME TypeInv, Turned, NEW o \in Request, NEW s \in Steps, Goto(o, s), UNCHANGED kind,
         s \in {"live", "push"} => kind[o] \in Displays
  PROVE Turned'
  BY DEF Turned, Goto, TypeInv, TypeOK

LEMMA TurnedStep == TypeInv /\ Turned /\ [Next]_vars => Turned'
<1> SUFFICES ASSUME TypeInv, Turned, [Next]_vars PROVE Turned'
  OBVIOUS
<1>1. ASSUME NEW o \in Request, NEW k \in Kinds, Arrive(o, k) PROVE Turned'
  <2>1. \E s \in {"queued", "begin"} : Goto(o, s)
    BY <1>1 DEF Arrive
  <2>2. \A p \in Request \ {o} : kind'[p] = kind[p]
    BY <1>1 DEF Arrive, TypeInv, TypeOK
  <2>3. QED
    BY <2>1, <2>2 DEF Turned, Goto, TypeInv, TypeOK
<1>2. ASSUME NEW o \in Request, EnterSection(o) PROVE Turned'
  BY <1>2, TurnedMoved DEF EnterSection, Steps
<1>3. ASSUME NEW o \in Request, KeepFound(o) \/ DefineInSection(o) PROVE Turned'
  <2>1. InSection(o) /\ Goto(o, AfterSection(kind[o])) /\ UNCHANGED kind
    BY <1>3 DEF KeepFound, DefineInSection
  <2>2. QED
    BY <2>1, TurnedMoved DEF InSection, AfterSection, Locked, Displays, Steps
<1>4. ASSUME NEW o \in Request, SectionFails(o) PROVE Turned'
  BY <1>4, TurnedMoved DEF SectionFails, Steps
<1>5. ASSUME NEW o \in Request, LooksLive(o) PROVE Turned'
  <2>1. kind[o] \in Displays /\ UNCHANGED kind /\ \E s \in {"push", "ok"} : Goto(o, s)
    BY <1>5 DEF LooksLive, Turned
  <2>2. QED
    BY <2>1, TurnedMoved DEF Steps
<1>6. ASSUME NEW o \in Request, SetPassword(o) \/ MonitorFails(o) PROVE Turned'
  BY <1>6, TurnedMoved DEF SetPassword, MonitorFails, Steps
<1>7. ASSUME NEW o \in Request, CheckState(o) \/ ReadOutside(o) PROVE Turned'
  <2>1. UNCHANGED kind /\ \E s \in {"checked", "read", "ok", "failed"} : Goto(o, s)
    BY <1>7 DEF CheckState, ReadOutside
  <2>2. QED
    BY <2>1, TurnedMoved DEF Steps
<1>8. ASSUME NEW o \in Request, Attach(o) \/ DefineOutside(o) \/ SwitchOn(o) PROVE Turned'
  <2>1. UNCHANGED kind /\ \E s \in {"attached", "defined", "ok"} : Goto(o, s)
    BY <1>8 DEF Attach, DefineOutside, SwitchOn
  <2>2. QED
    BY <2>1, TurnedMoved DEF Steps
<1>9. ASSUME NEW o \in Request, Command(o) PROVE Turned'
  <2>1. UNCHANGED kind /\ \E s \in {"destroyed", "ok", "failed"} : Goto(o, s)
    BY <1>9 DEF Command, Detach, Stop, Undefine, CallFails
  <2>2. QED
    BY <2>1, TurnedMoved DEF Steps
<1>10. ASSUME RunnerRestarts PROVE Turned'
  BY <1>10 DEF RunnerRestarts, Turned, TypeInv, TypeOK
<1>11. ASSUME UNCHANGED vars PROVE Turned'
  BY <1>11 DEF vars, Turned
<1>12. QED
  BY <1>1, <1>2, <1>3, <1>4, <1>5, <1>6, <1>7, <1>8, <1>9, <1>10, <1>11
  DEF Next, Progress, Section, Console, Cycle

LEMMA PasswordsStep ==
  ASSUME IInv, TypeInv', Turned, Passwords, [Next]_vars PROVE Passwords'
<1> USE DEF IInv, machineVars, historyVars
<1>t. TypeInv /\ disturbed \in BOOLEAN /\ disturbed' \in BOOLEAN
  BY DEF TypeInv, TypeOK
<1>a. \A o \in Request : pc[o] \in {"begin", "attached"} => ~Lock(o)
  BY DEF LineInv, Places
<1>b. \A o \in Request : pc[o] \in {"checked", "defined", "destroyed"} => ~Lock(o)
  BY DEF LineInv, Places, Checks, Locked
<1>c. \A o \in Request : kind[o] \in Bypassing => ~Lock(o)
  BY DEF Bypassing, Locked
<1>d. \A o \in Request : Leave(o) =>
        /\ UNCHANGED <<unseen, disturbed>>
        /\ \A p \in Request \ {o} :
             base'[p] = base[p] /\ misread'[p] = misread[p] /\ unseen'[p] = unseen[p]
  BY DEF Leave, TypeInv, TypeOK
<1>e. ~disturbed => (definition = NoDomain => live = NoDomain)
  BY DEF Passwords, Undisturbed
<1>f. \A o \in Request : ~Lock(o) => ~Told(o)
  BY DEF Told, Displays, Locked
<1>1. ASSUME NEW o \in Request, NEW k \in Kinds, Arrive(o, k) PROVE Passwords'
  <2>1. \E s \in {"queued", "begin"} : Goto(o, s)
    BY <1>1 DEF Arrive
  <2>2. UNCHANGED <<definition, live, display, base, password, misread, unseen, disturbed>>
    BY <1>1 DEF Arrive
  <2>3. \A p \in Request \ {o} : kind'[p] = kind[p] /\ pc'[p] = pc[p]
    BY <1>1, <2>1 DEF Arrive, Goto, TypeInv, TypeOK
  <2>4. pc'[o] \in {"queued", "begin"}
    BY <2>1 DEF Goto, TypeInv, TypeOK
  <2>5. \A p \in Request : (Told(p)' => p # o /\ Told(p)) /\ (InSection(p)' => p # o /\ InSection(p))
    BY <2>3, <2>4 DEF Told, InSection
  <2>6. QED
    BY <1>e, <2>2, <2>3, <2>5, PasswordsKept
<1>r. \A o \in Request : Read(o) /\ definition # NoDomain =>
        /\ \A p \in Request \ {o} : base'[p] = base[p] /\ misread'[p] = misread[p]
        /\ ~misread'[o] => base'[o] = definition
  BY FreshRead
<1>2. ASSUME NEW o \in Request, EnterSection(o) PROVE Passwords'
  <2>1. /\ Read(o) /\ definition # NoDomain /\ Lock(o)
        /\ UNCHANGED <<definition, live, display, kind, password, unseen, disturbed>>
    BY <1>2 DEF EnterSection, MayEnter, Waiting
  <2>2. /\ \A p \in Request \ {o} : pc'[p] = pc[p] /\ base'[p] = base[p] /\ misread'[p] = misread[p]
        /\ pc'[o] = "read"
    BY <1>2, <1>r, <2>1 DEF EnterSection, Goto, TypeInv, TypeOK
  <2>3. \A p \in Request : /\ Told(p)' => p # o /\ Told(p)
                           /\ InSection(p)' => p = o \/ InSection(p)
    BY <2>1, <2>2 DEF Told, InSection
  <2>4. SUFFICES ASSUME ~disturbed PROVE Undisturbed'
    BY <2>1 DEF Passwords
  <2>5. Undisturbed
    BY <2>4 DEF Passwords
  <2>6. ASSUME NEW k \in Displays
        PROVE  \/ base'[o].set[k] = definition.set[k]
               \/ misread'[o] /\ base'[o].set[k] \in Blank(k)
    <3>1. CASE ~misread'[o]
      BY <1>r, <2>1, <3>1
    <3>2. CASE misread'[o]
      <4>1. base'[o] = Dump(o) \/ base'[o] = Fallback(o)
        BY <2>1 DEF Read, TypeInv, TypeOK
      <4>2. kind[o] \in Locked
        BY <2>1
      <4>3. /\ Dump(o) = definition
            /\ \/ Fallback(o) \in {definition, Redacted(definition)}
               \/ live # NoDomain /\ Fallback(o) = live
        BY <2>1, <4>2 DEF Dump, Fallback, Current, Locked, Displays
      <4>4. definition \in Definition
        BY <2>1 DEF TypeInv, TypeOK
      <4>5. Redacted(definition).set[k] \in Blank(k)
        BY <4>4 DEF Redacted, Blank, Definition, Displays, Settings
      <4>6. live # NoDomain => live.set[k] \in Blank(k) \cup {definition.set[k]}
        BY <2>5 DEF Undisturbed
      <4>7. QED
        BY <3>2, <4>1, <4>3, <4>5, <4>6
    <3>3. QED
      BY <3>1, <3>2
  <2>7. (\A p \in Request : InSection(p) /\ definition # NoDomain =>
           \A k \in Displays :
             \/ base[p].set[k] = definition.set[k]
             \/ misread[p] /\ base[p].set[k] \in Blank(k))'
    BY <2>1, <2>2, <2>3, <2>5, <2>6 DEF Undisturbed, Blank
  <2>8. QED
    BY <2>1, <2>2, <2>3, <2>5, <2>7 DEF Undisturbed, Blank
<1>3. ASSUME NEW o \in Request, KeepFound(o) PROVE Passwords'
  <2>1. /\ InSection(o) /\ Found(o) /\ Leave(o)
        /\ UNCHANGED <<definition, live, display, kind, unseen, disturbed>>
    BY <1>3 DEF KeepFound, Leave
  <2>2. \A p \in Request \ {o} : /\ pc'[p] = pc[p] /\ base'[p] = base[p]
                                 /\ password'[p] = password[p] /\ misread'[p] = misread[p]
    BY <1>3, <1>d, <2>1 DEF KeepFound, Goto, TypeInv, TypeOK
  <2>3. pc'[o] = AfterSection(kind[o])
    BY <1>3 DEF KeepFound, Goto, TypeInv, TypeOK
  <2>4. kind[o] \in Displays =>
          /\ pc'[o] = "live" /\ password'[o] = base[o].set[kind[o]]
          /\ password'[o] \in Request \/ (kind[o] = "vnc" /\ password'[o] # Unset)
    BY <1>3, <2>1, <2>3 DEF KeepFound, AfterSection, Found, Displays, TypeInv, TypeOK
  <2>5. ~disturbed /\ definition # NoDomain /\ kind[o] \in Displays =>
          base[o].set[kind[o]] = definition.set[kind[o]]
    <3>1. kind[o] \in Displays => base[o].set[kind[o]] \notin Blank(kind[o])
      BY <2>1, <2>4, RequestAssumption DEF Blank, Displays
    <3>2. QED
      BY <2>1, <3>1 DEF Passwords, Undisturbed
  <2>6. \A p \in Request : /\ InSection(p)' => p # o /\ InSection(p)
                           /\ p # o => (Told(p)' <=> Told(p))
    BY <2>1, <2>2, <2>3 DEF Told, InSection, AfterSection
  <2>7. SUFFICES ASSUME ~disturbed PROVE Undisturbed'
    BY <2>1 DEF Passwords
  <2>8. Undisturbed
    BY <2>7 DEF Passwords
  <2>9. ASSUME NEW p \in Request, Told(p)'
        PROVE  /\ password'[p] \in Request \/ (kind'[p] = "vnc" /\ password'[p] # Unset)
               /\ definition' # NoDomain => definition'.set[kind'[p]] = password'[p]
    <3>1. CASE p = o
      BY <2>1, <2>4, <2>5, <2>7, <2>9, <3>1 DEF Told
    <3>2. CASE p # o
      BY <2>1, <2>2, <2>6, <2>8, <2>9, <3>2 DEF Undisturbed
    <3>3. QED
      BY <3>1, <3>2
  <2>10. ASSUME NEW p \in Request, Told(p)', pc'[p] = "ok", ~unseen'[p], live' # NoDomain
         PROVE  live'.set[kind'[p]] = NoDevice \/ display'[kind'[p]] = password'[p]
    <3>1. p # o
      BY <2>1, <2>4, <2>10 DEF Told
    <3>2. QED
      BY <2>1, <2>2, <2>6, <2>8, <2>10, <3>1 DEF Undisturbed
  <2>11. QED
    BY <2>1, <2>2, <2>6, <2>8, <2>9, <2>10 DEF Undisturbed, Blank
<1>4. ASSUME NEW o \in Request, DefineInSection(o) PROVE Passwords'
  <2> DEFINE k == kind[o]
  <2>1. /\ InSection(o) /\ ~Found(o) /\ Write(o) /\ UNCHANGED <<live, display, kind, unseen>>
        /\ ~(k = "spice" /\ base[o].set["spice"] = NoDevice)
    BY <1>4 DEF DefineInSection, Write
  <2>2. /\ \A p \in Request \ {o} : pc'[p] = pc[p] /\ base'[p] = base[p] /\ password'[p] = password[p]
                                 /\ misread'[p] = misread[p]
        /\ pc'[o] = AfterSection(k)
    BY <1>4 DEF DefineInSection, Write, Goto, TypeInv, TypeOK
  <2>3. k \in Displays => password'[o] = o /\ pc'[o] = "live"
    BY <1>4, <2>2 DEF DefineInSection, AfterSection, Displays, TypeInv, TypeOK
  <2>4. base[o] \in Definition
    BY <2>1 DEF InSection, TypeInv
  <2>5. definition' = Modified(o) /\ definition' # NoDomain
    BY <2>1, <2>4, ModifiedType, NoDomainAssumption DEF Write
  <2>6. SUFFICES ASSUME ~disturbed' PROVE Passwords'
    BY DEF Passwords
  <2>7. ~disturbed /\ ~misread[o] /\ ChangesOnly(definition, Modified(o), Own(k))
    <3>1. Lock(o) /\ misread[o] \in BOOLEAN
      BY <2>1 DEF InSection, TypeInv, TypeOK
    <3>2. QED
      BY <1>t, <2>1, <2>6, <3>1 DEF Write
  <2>u. Undisturbed
    BY <2>7 DEF Passwords
  <2>8. definition # NoDomain /\ \A s \in Settings \ Own(k) : definition'.set[s] = definition.set[s]
    BY <2>5, <2>7 DEF ChangesOnly
  <2>9. \A s \in Displays : base[o].set[s] = definition.set[s]
    BY <2>1, <2>7, <2>8, <2>u DEF Undisturbed
  <2>10. \A p \in Request : ~InSection(p)'
    <3>1. \A p \in Request : InSection(p) => p = o
      BY <2>1, SectionsExclude
    <3>2. QED
      BY <2>1, <2>2, <3>1 DEF InSection, AfterSection
  <2>11. \A p \in Request : p # o => (Told(p)' <=> Told(p))
    BY <2>1, <2>2 DEF Told
  <2>12. ASSUME NEW p \in Request, Told(p), p # o
         PROVE kind[p] \notin Own(k) /\ definition'.set[kind[p]] = password[p]
    <3>1. /\ definition.set[kind[p]] = password[p] /\ kind[p] \in Displays
          /\ password[p] \in Request \/ (kind[p] = "vnc" /\ password[p] # Unset)
      BY <2>8, <2>12, <2>u DEF Undisturbed, Told
    <3>2. base[o].set[kind[p]] = password[p]
      BY <2>9, <3>1
    <3>3. kind[p] \notin Own(k)
      BY <2>1, <3>1, <3>2, RequestAssumption DEF Own, Found, InSection, Locked, Displays
    <3>4. QED
      BY <2>8, <3>1, <3>3 DEF Displays, Settings
  <2>13. k \in Displays => definition'.set[k] = o
    BY <2>4, <2>5 DEF Modified, Own, NewValue, Displays, Settings, Definition
  <2>14. \A p \in Request : Told(p)' =>
           /\ password'[p] \in Request \/ (kind'[p] = "vnc" /\ password'[p] # Unset)
           /\ definition'.set[kind'[p]] = password'[p]
    <3>1. ASSUME NEW p \in Request, Told(p)', p # o
          PROVE /\ password'[p] \in Request \/ (kind'[p] = "vnc" /\ password'[p] # Unset)
                /\ definition'.set[kind'[p]] = password'[p]
      BY <2>1, <2>2, <2>11, <2>12, <2>u, <3>1 DEF Undisturbed
    <3>2. Told(o)' => /\ password'[o] \in Request
                      /\ definition'.set[kind'[o]] = password'[o]
      BY <2>1, <2>3, <2>13 DEF Told
    <3>3. QED
      BY <3>1, <3>2
  <2>15. \A p \in Request : Told(p)' /\ pc'[p] = "ok" /\ ~unseen'[p] /\ live' # NoDomain =>
           live'.set[kind'[p]] = NoDevice \/ display'[kind'[p]] = password'[p]
    <3>1. ASSUME NEW p \in Request, Told(p)', pc'[p] = "ok" PROVE p # o
      BY <2>1, <2>3, <3>1 DEF Told
    <3>2. QED
      BY <2>1, <2>2, <2>11, <2>u, <3>1 DEF Undisturbed
  <2>16. ASSUME live # NoDomain, NEW s \in Displays
         PROVE  live.set[s] \in Blank(s) \cup {definition'.set[s]}
    <3>1. live.set[s] \in Blank(s) \cup {definition.set[s]}
      BY <2>16, <2>u DEF Undisturbed
    <3>2. CASE s \notin Own(k)
      BY <2>8, <3>1, <3>2 DEF Displays, Settings
    <3>3. CASE s \in Own(k)
      <4>1. definition.set[s] = base[o].set[s]
        BY <2>9
      <4>2. base[o].set[s] \in Blank(s)
        BY <2>1, <2>4, <3>3
        DEF Own, Found, InSection, Locked, Displays, Blank, Definition, Settings, Value
      <4>3. QED
        BY <3>1, <4>1, <4>2
    <3>4. QED
      BY <3>2, <3>3
  <2>17. QED
    BY <2>1, <2>5, <2>6, <2>10, <2>14, <2>15, <2>16 DEF Passwords, Undisturbed, Blank
<1>5. ASSUME NEW o \in Request, SectionFails(o) PROVE Passwords'
  BY <1>5, <1>d, <1>e, PasswordsBeside DEF SectionFails, Steps
<1>6. ASSUME NEW o \in Request, LooksLive(o) PROVE Passwords'
  <2>1. \E s \in {"push", "ok"} :
          /\ Goto(o, s)
          /\ s = "ok" /\ ~unseen'[o] /\ live # NoDomain => live.set[kind[o]] = NoDevice
    BY <1>6 DEF LooksLive, TypeInv, TypeOK
  <2>2. Told(o)
    BY <1>6 DEF LooksLive, Turned, Told
  <2>3. \A p \in Request \ {o} : unseen'[p] = unseen[p]
    BY <1>6 DEF LooksLive, TypeInv, TypeOK
  <2>4. UNCHANGED <<definition, live, display, kind, base, password, misread, disturbed>>
    BY <1>6 DEF LooksLive
  <2>5. QED
    BY <1>e, <2>1, <2>2, <2>3, <2>4, PasswordsBeside DEF Steps
<1>7. ASSUME NEW o \in Request, SetPassword(o) PROVE Passwords'
  <2>1. /\ pc[o] = "push" /\ live # NoDomain /\ kind[o] \in Displays /\ Told(o)
        /\ UNCHANGED <<definition, live, kind, base, password, misread, unseen, disturbed>>
    BY <1>7 DEF SetPassword, Turned, Told
  <2>2. \A k \in Displays : display'[k] = IF k = kind[o] THEN password[o] ELSE display[k]
    BY <1>7 DEF SetPassword, TypeInv, TypeOK
  <2>3. /\ \A p \in Request \ {o} : pc'[p] = pc[p]
        /\ pc'[o] = "ok"
    BY <1>7 DEF SetPassword, Goto, TypeInv, TypeOK
  <2>4. \A p \in Request : (Told(p)' <=> Told(p)) /\ (InSection(p)' => InSection(p))
    BY <2>1, <2>3 DEF Told, InSection
  <2>5. SUFFICES ASSUME ~disturbed PROVE Undisturbed'
    BY <2>1 DEF Passwords
  <2>u. Undisturbed
    BY <2>5 DEF Passwords
  <2>6. definition # NoDomain
    BY <2>1, <2>u DEF Undisturbed
  <2>7. ASSUME NEW p \in Request, Told(p), p = o \/ (pc[p] = "ok" /\ ~unseen[p])
        PROVE live.set[kind[p]] = NoDevice \/ display'[kind[p]] = password[p]
    <3>1. kind[p] \in Displays
      BY <2>7 DEF Told
    <3>2. CASE kind[p] = kind[o]
      <4>1. password[p] = password[o]
        BY <2>1, <2>6, <2>7, <2>u, <3>2 DEF Undisturbed
      <4>2. QED
        BY <2>2, <3>1, <3>2, <4>1
    <3>3. CASE kind[p] # kind[o]
      BY <2>1, <2>2, <2>7, <2>u, <3>1, <3>3 DEF Undisturbed
    <3>4. QED
      BY <3>2, <3>3
  <2>8. QED
    BY <2>1, <2>3, <2>4, <2>7, <2>u DEF Undisturbed, Blank
<1>8. ASSUME NEW o \in Request, MonitorFails(o) PROVE Passwords'
  BY <1>8, <1>e, PasswordsBeside DEF MonitorFails, Steps
<1>9. ASSUME NEW o \in Request, CheckState(o) PROVE Passwords'
  <2>1. ~Lock(o) /\ \E s \in {"checked", "ok", "failed"} : Goto(o, s)
    BY <1>9, <1>a DEF CheckState
  <2>2. QED
    BY <1>9, <1>e, <1>f, <2>1, PasswordsBeside DEF CheckState, Steps
<1>10. ASSUME NEW o \in Request, Attach(o) PROVE Passwords'
  <2>1. ~Lock(o) /\ \E s \in {"attached", "ok"} : Goto(o, s)
    BY <1>10, <1>a DEF Attach
  <2>2. definition # NoDomain /\ definition \in Definition
    BY <1>10 DEF Attach, TypeInv, TypeOK
  <2>3. definition' # NoDomain /\ definition'.set = definition.set
    BY <1>10, <2>2, AddDeviceType, NoDomainAssumption DEF Attach, AddDevice, Definition
  <2>4. live' # NoDomain => live # NoDomain /\ live'.set = live.set
    BY <1>10 DEF Attach, AddDevice, TypeInv, TypeOK, Definition
  <2>5. QED
    BY <1>10, <1>f, <2>1, <2>2, <2>3, <2>4, PasswordsBeside DEF Attach, Steps
<1>11. ASSUME NEW o \in Request, ReadOutside(o) PROVE Passwords'
  <2>1. \A p \in Request \ {o} : base'[p] = base[p] /\ misread'[p] = misread[p]
    BY <1>11, <1>r DEF ReadOutside
  <2>2. QED
    BY <1>11, <1>c, <1>e, <1>f, <2>1, PasswordsBeside DEF ReadOutside, Steps
<1>12. ASSUME NEW o \in Request, DefineOutside(o) PROVE Passwords'
  <2>1. ~Lock(o) /\ \E s \in {"defined", "ok"} : Goto(o, s)
    BY <1>12, <1>c DEF DefineOutside
  <2>2. definition' = Modified(o) /\ definition' # NoDomain
    BY <1>12, ModifiedType, NoDomainAssumption DEF DefineOutside, Write, TypeInv
  <2>3. ~disturbed' => ~disturbed /\ ChangesOnly(definition, Modified(o), Own(kind[o]))
    BY <1>12, <1>t, <2>1 DEF DefineOutside, Write
  <2>4. Own(kind[o]) \cap Displays = {}
    BY <1>12 DEF DefineOutside, Bypassing, Own, Displays
  <2>5. ~disturbed' => definition # NoDomain
                       /\ \A k \in Displays : definition'.set[k] = definition.set[k]
    BY <2>2, <2>3, <2>4 DEF ChangesOnly, Displays, Settings
  <2>6. disturbed => disturbed'
    BY <2>3
  <2>7. \A p \in Request \ {o} : base'[p] = base[p] /\ misread'[p] = misread[p]
    BY <1>12 DEF DefineOutside, Write, TypeInv, TypeOK
  <2>8. UNCHANGED <<live, display, kind, password, unseen>>
    BY <1>12 DEF DefineOutside, Write
  <2>9. QED
    BY <1>f, <2>1, <2>2, <2>5, <2>6, <2>7, <2>8, PasswordsBeside DEF Steps
<1>13. ASSUME NEW o \in Request, SwitchOn(o) PROVE Passwords'
  <2>1. /\ ~Lock(o) /\ definition # NoDomain /\ live' = definition
        /\ \A k \in Displays : display'[k] = definition.set[k]
        /\ UNCHANGED <<definition, kind, base, password, misread, disturbed>>
    BY <1>13, <1>b DEF SwitchOn
  <2>2. \A p \in Request \ {o} : pc'[p] = pc[p]
    BY <1>13 DEF SwitchOn, Goto, TypeInv, TypeOK
  <2>3. \A p \in Request : (Told(p)' => Told(p)) /\ (InSection(p)' => InSection(p))
    BY <2>1, <2>2 DEF Told, InSection, Locked, Displays
  <2>4. \A p \in Request : Told(p) => kind[p] \in Displays
    BY DEF Told
  <2>5. QED
    BY <2>1, <2>3, <2>4 DEF Passwords, Undisturbed, Blank
<1>14. ASSUME NEW o \in Request, Detach(o) PROVE Passwords'
  <2>1. ~Lock(o) /\ definition \in Definition /\ definition # NoDomain
    BY <1>14, <1>a DEF Detach, TypeInv, TypeOK
  <2>2. definition' # NoDomain /\ definition'.set = definition.set
    BY <1>14, <2>1, NoDomainAssumption DEF Detach, Definition
  <2>3. live' # NoDomain => live # NoDomain /\ live'.set = live.set
    BY <1>14 DEF Detach, TypeInv, TypeOK, Definition
  <2>4. QED
    BY <1>14, <1>f, <2>1, <2>2, <2>3, PasswordsBeside DEF Detach, Steps
<1>15. ASSUME NEW o \in Request, Stop(o) PROVE Passwords'
  <2>1. ~Lock(o) /\ \E s \in {"destroyed", "ok"} : Goto(o, s)
    BY <1>15, <1>a DEF Stop
  <2>2. QED
    BY <1>15, <1>f, <2>1, PasswordsBeside DEF Stop, Steps
<1>16. ASSUME NEW o \in Request, Undefine(o) PROVE Passwords'
  BY <1>16, <1>b, <1>f, PasswordsBeside DEF Undefine, Steps
<1>17. ASSUME NEW o \in Request, CallFails(o) PROVE Passwords'
  BY <1>17, <1>d, <1>e, PasswordsBeside DEF CallFails, Steps
<1>18. ASSUME RunnerRestarts PROVE Passwords'
  <2>1. UNCHANGED <<definition, live, display, kind, password, unseen, disturbed>>
    BY <1>18 DEF RunnerRestarts
  <2>2. \A p \in Request : (pc'[p] = "ok" => pc[p] = "ok") /\ pc'[p] \notin {"read", "live", "push"}
    BY <1>18 DEF RunnerRestarts
  <2>3. \A p \in Request : (Told(p)' => Told(p) /\ pc[p] = "ok") /\ ~InSection(p)'
    BY <2>1, <2>2 DEF Told, InSection
  <2>4. QED
    BY <2>1, <2>3 DEF Passwords, Undisturbed, Blank
<1>19. ASSUME UNCHANGED vars PROVE Passwords'
  BY <1>19 DEF vars, Passwords, Undisturbed, Told, InSection, Blank
<1>20. QED
  BY <1>1, <1>2, <1>3, <1>4, <1>5, <1>6, <1>7, <1>8, <1>9, <1>10, <1>11, <1>12, <1>13,
     <1>14, <1>15, <1>16, <1>17, <1>18, <1>19
  DEF Next, Progress, Section, Console, Cycle, Command

LEMMA PasswordsInit == Init => Turned /\ Passwords
<1> SUFFICES ASSUME Init PROVE Turned /\ Passwords
  OBVIOUS
<1>1. \A o \in Request : pc[o] = "idle" /\ definition # NoDomain
  BY NoDomainAssumption, TypeInit DEF Init, TypeInv, TypeOK, Created, Definition, Value
<1>2. live = NoDomain
  BY DEF Init
<1>3. QED
  BY <1>1, <1>2 DEF Turned, Passwords, Undisturbed, Told, InSection

\* The property HandedPasswordOpens: a password handed out by a call that saw
\* the machine opens the running display (ensureVncPassword,
\* ensureSpicePassword), for any number of calls, looks and dumps that fail.
THEOREM HandedPasswordsOpen == Spec => []HandedPasswordOpens
<1>1. IInv /\ Turned /\ Passwords /\ [Next]_vars => (IInv /\ Turned /\ Passwords)'
  BY IInvStep, TurnedStep, PasswordsStep DEF IInv
<1>2. Passwords => HandedPasswordOpens
  BY DEF Passwords, Undisturbed, HandedPasswordOpens, Told
<1>3. QED
  BY <1>1, <1>2, IInvInit, PasswordsInit, PTL DEF Spec

-----------------------------------------------------------------------------
(* The lock is one: a section begins while no other has begun and not yet  *)
(* ended, and every other step ends sections or leaves them alone.         *)

LEMMA SectionsStep ==
  TypeInv /\ LineInv /\ [Next]_vars => [Exclusive!Next]_Sections
<1> SUFFICES ASSUME TypeInv, LineInv, [Next]_vars PROVE [Exclusive!Next]_Sections
  OBVIOUS
<1>t. kind \in [Request -> AllKinds \cup {"none"}] /\ pc \in [Request -> Steps]
  BY DEF TypeInv, TypeOK
<1>k. ASSUME \A p \in Request : InSection(p)' <=> InSection(p)
      PROVE  [Exclusive!Next]_Sections
  <2>1. Sections' = Sections
    BY <1>k DEF Sections
  <2>2. QED
    BY <2>1
<1>e. ASSUME NEW o \in Request, ~InSection(o)',
             \A p \in Request \ {o} : InSection(p)' <=> InSection(p)
      PROVE  [Exclusive!Next]_Sections
  <2>1. Sections' = [Sections EXCEPT ![o] = {}]
    BY <1>e DEF Sections
  <2>2. QED
    BY <2>1 DEF Exclusive!Next, Exclusive!End
<1>m. ASSUME NEW o \in Request, NEW s \in Steps, Goto(o, s), s # "read", UNCHANGED kind
      PROVE  ~InSection(o)' /\ \A p \in Request \ {o} : InSection(p)' <=> InSection(p)
  BY <1>t, <1>m DEF Goto, InSection
<1>1. ASSUME NEW o \in Request, NEW k \in Kinds, Arrive(o, k) PROVE [Exclusive!Next]_Sections
  <2>1. /\ kind' = [kind EXCEPT ![o] = k]
        /\ \E s \in {"queued", "begin"} : Goto(o, s)
    BY <1>1 DEF Arrive
  <2>2. ~InSection(o)' /\ \A p \in Request \ {o} : InSection(p)' <=> InSection(p)
    BY <1>t, <2>1 DEF Goto, InSection
  <2>3. QED
    BY <1>e, <2>2
<1>2. ASSUME NEW o \in Request, EnterSection(o) PROVE [Exclusive!Next]_Sections
  <2>1. /\ MayEnter(o) /\ Waiting(o) /\ ~InSection(o)
        /\ kind' = kind /\ pc' = [pc EXCEPT ![o] = "read"]
    BY <1>2 DEF EnterSection, MayEnter, Waiting, InSection, Goto
  <2>2. InSection(o)' /\ \A p \in Request \ {o} : InSection(p)' <=> InSection(p)
    BY <1>t, <2>1 DEF InSection, Waiting
  <2>3. \A p \in Request : ~InSection(p)
    BY <2>1, LoneEntry
  <2>4. Sections' = [Sections EXCEPT ![o] = {"definition"}]
    BY <2>2 DEF Sections
  <2>5. Exclusive!Begin(o, {"definition"})
    BY <2>3, <2>4 DEF Exclusive!Begin, Sections
  <2>6. QED
    BY <2>5 DEF Exclusive!Next
<1>3. ASSUME NEW o \in Request, KeepFound(o) \/ DefineInSection(o)
      PROVE  [Exclusive!Next]_Sections
  <2>1. UNCHANGED kind /\ \E s \in {"ok", "live"} : Goto(o, s)
    BY <1>3 DEF KeepFound, DefineInSection, AfterSection
  <2>2. QED
    BY <1>e, <1>m, <2>1 DEF Steps
<1>4. ASSUME NEW o \in Request, SectionFails(o) PROVE [Exclusive!Next]_Sections
  BY <1>4, <1>e, <1>m DEF SectionFails, Steps
<1>5. ASSUME NEW o \in Request, Console(o) \/ Command(o) PROVE [Exclusive!Next]_Sections
  <2>1. UNCHANGED kind /\ \E s \in {"push", "ok", "failed", "destroyed"} : Goto(o, s)
    BY <1>5 DEF Console, LooksLive, SetPassword, MonitorFails,
       Command, Detach, Stop, Undefine, CallFails
  <2>2. QED
    BY <1>e, <1>m, <2>1 DEF Steps
<1>6. ASSUME NEW o \in Request, CheckState(o) \/ Attach(o) \/ DefineOutside(o) \/ SwitchOn(o)
      PROVE  [Exclusive!Next]_Sections
  <2>1. UNCHANGED kind /\ \E s \in {"checked", "attached", "defined", "ok", "failed"} : Goto(o, s)
    BY <1>6 DEF CheckState, Attach, DefineOutside, SwitchOn
  <2>2. QED
    BY <1>e, <1>m, <2>1 DEF Steps
<1>7. ASSUME NEW o \in Request, ReadOutside(o) PROVE [Exclusive!Next]_Sections
  <2>1. kind[o] \notin Locked /\ kind' = kind /\ pc' = [pc EXCEPT ![o] = "read"]
    BY <1>7 DEF ReadOutside, Goto, Bypassing, Locked
  <2>2. QED
    BY <1>t, <1>k, <2>1 DEF InSection
<1>8. ASSUME RunnerRestarts PROVE [Exclusive!Next]_Sections
  <2>1. \A p \in Request : ~InSection(p)'
    BY <1>8 DEF RunnerRestarts, InSection
  <2>2. Sections' = [o \in Request |-> {}]
    BY <2>1 DEF Sections
  <2>3. QED
    BY <2>2 DEF Exclusive!Next, Exclusive!EndAll
<1>9. ASSUME UNCHANGED vars PROVE [Exclusive!Next]_Sections
  BY <1>9, <1>k DEF vars, InSection
<1>10. QED
  BY <1>1, <1>2, <1>3, <1>4, <1>5, <1>6, <1>7, <1>8, <1>9
  DEF Next, Progress, Section, Cycle

\* The property ImplementsExclusiveWork: the promises of vmDefineLocks keep
\* the sections of one machine apart, for any number of calls, whichever of
\* them throw and whenever the runner restarts.
THEOREM SectionsImplementExclusiveWork == Spec => ImplementsExclusiveWork
<1>1. Init => Exclusive!Init
  BY DEF Init, Exclusive!Init, Sections, InSection
<1>2. TypeInv /\ LineInv /\ [Next]_vars => (TypeInv /\ LineInv)'
  BY TypeStep, LineStep
<1>3. TypeInv /\ LineInv /\ [Next]_vars => [Exclusive!Next]_Sections
  BY SectionsStep
<1>4. QED
  BY <1>1, <1>2, <1>3, TypeInit, LineInit, PTL
  DEF Spec, ImplementsExclusiveWork, Exclusive!Spec

=============================================================================
