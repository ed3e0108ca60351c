---------------------------- MODULE VmDisks_proofs -----------------------------
(***************************************************************************)
(* What holds of a disk and its backups for any number of blocks, files,   *)
(* snapshots and writes.                                                   *)
(*                                                                         *)
(* What a reader sees through a chain, and the chain itself, are recursive *)
(* functions along the backing files, whose names only grow. Facts about   *)
(* them are proved by the least counterexample: the set of files of which  *)
(* a fact does not hold has a least member, and there is none.             *)
(***************************************************************************)
EXTENDS VmDisks, WellFoundedInduction, TLAPS

\* A set of numbers that has a member has a least one.
LEMMA Least ==
  ASSUME NEW T \in SUBSET Nat, T # {}
  PROVE  \E m \in T : \A k \in T : m <= k
<1>1. IsWellFoundedOn(OpToRel(<, Nat), Nat)
  BY NatLessThanWellFounded
<1>2. PICK m \in T : \A k \in T : ~ (<<k, m>> \in OpToRel(<, Nat))
  BY <1>1, WFMin
<1>3. \A k \in T : ~ (k < m)
  BY <1>2 DEF OpToRel
<1>. QED
  BY <1>3

\* The files below x have smaller numbers.
Falls(n, bk) == \A x \in 1 .. n : bk[x] \in 0 .. x - 1

\* f is v at 0, and at x what F[x] makes of its value at the file below x.
Along(f, n, bk, V, v, F) ==
  /\ f \in [0 .. n -> V]
  /\ f[0] = v
  /\ \A x \in 1 .. n : f[x] = F[x][f[bk[x]]]

\* There is such a function.
LEMMA Recursion ==
  ASSUME NEW n \in Nat, NEW bk, Falls(n, bk),
         NEW V, NEW v \in V, NEW F \in [1 .. n -> [V -> V]]
  PROVE  \E f : Along(f, n, bk, V, v, F)
<1> USE DEF Falls, Along
<1> DEFINE Sol(k, f) == f[0] = v /\ \A x \in 1 .. k : f[x] = F[x][f[bk[x]]]
           T == {k \in 0 .. n : ~ \E f \in [0 .. k -> V] : Sol(k, f)}
<1>1. SUFFICES ASSUME T # {} PROVE FALSE
  <2>1. SUFFICES ASSUME n \notin T PROVE \E f : Along(f, n, bk, V, v, F)
    <3>1. n \in T => T # {}
      OBVIOUS
    <3> HIDE DEF T
    <3> QED
      BY <1>1, <2>1, <3>1
  <2>2. n \in 0 .. n
    OBVIOUS
  <2>3. PICK f \in [0 .. n -> V] : Sol(n, f)
    BY <2>1, <2>2
  <2> QED
    BY <2>3
<1>2. PICK m \in T : \A k \in T : m <= k
  <2>1. T \in SUBSET Nat
    OBVIOUS
  <2> HIDE DEF T
  <2> QED
    BY <1>1, <2>1, Least
<1>3. m # 0
  <2> SUFFICES ASSUME m = 0 PROVE FALSE
    OBVIOUS
  <2> DEFINE f == [x \in 0 .. 0 |-> v]
  <2>1. f \in [0 .. 0 -> V] /\ Sol(0, f)
    OBVIOUS
  <2> QED
    BY <1>2, <2>1
<1>4. PICK g \in [0 .. m - 1 -> V] : Sol(m - 1, g)
  <2>1. m \in 0 .. n
    BY <1>2
  <2>2. m - 1 \in 0 .. n /\ ~ m <= m - 1
    BY <2>1, <1>3
  <2>3. m - 1 \notin T
    <3> HIDE DEF T
    <3> QED
      BY <1>2, <2>2
  <2> QED
    BY <2>2, <2>3
<1> DEFINE f == [x \in 0 .. m |-> IF x = m THEN F[m][g[bk[m]]] ELSE g[x]]
<1>5. m \in 1 .. n /\ bk[m] \in 0 .. m - 1
  BY <1>2, <1>3
<1>6. f \in [0 .. m -> V]
  BY <1>4, <1>5
<1>7. ASSUME NEW x \in 1 .. m
      PROVE  f[x] = F[x][f[bk[x]]]
  <2>1. CASE x = m
    <3>1. f[bk[m]] = g[bk[m]] /\ f[m] = F[m][g[bk[m]]]
      BY <1>5
    <3> QED
      BY <2>1, <3>1
  <2>2. CASE x # m
    <3>1. x \in 1 .. m - 1 /\ x \in 1 .. n
      BY <2>2, <1>5
    <3>2. bk[x] \in 0 .. x - 1
      BY <3>1
    <3>3. g[x] = F[x][g[bk[x]]]
      BY <3>1, <1>4
    <3>4. f[x] = g[x] /\ f[bk[x]] = g[bk[x]]
      BY <3>1, <3>2, <1>5
    <3> HIDE DEF f
    <3> QED
      BY <3>3, <3>4
  <2> QED
    BY <2>1, <2>2
<1>8. Sol(m, f)
  <2>1. f[0] = v
    BY <1>4, <1>5
  <2> HIDE DEF f
  <2> QED
    BY <2>1, <1>7
<1> QED
  BY <1>2, <1>6, <1>8

-------------------------------------------------------------------------------
(* What a reader sees.                                                     *)

\* A chain without a cycle, of files that have a number.
Chained(fs, bk) ==
  /\ fs \subseteq Ids
  /\ Falls(MaxFiles, bk)

\* What file f shows of a block: its own, or what its backing file shows.
Unfolds(fs, bk, ow, f, b) ==
  View(fs, bk, ow, f)[b] =
    IF f \notin fs THEN Missing
    ELSE IF ow[f][b] # Hole THEN ow[f][b]
    ELSE View(fs, bk, ow, bk[f])[b]

LEMMA ViewIs ==
  ASSUME NEW fs, NEW bk, NEW ow, Chained(fs, bk), NEW f \in 0 .. MaxFiles, NEW b \in Blocks
  PROVE  Unfolds(fs, bk, ow, f, b)
<1> DEFINE Body(s) == [x \in 0 .. MaxFiles |->
                         IF x \notin fs THEN Missing
                         ELSE IF ow[x][b] # Hole THEN ow[x][b] ELSE s[bk[x]]]
           V == {Missing} \union {ow[x][b] : x \in Ids}
           F == [x \in 1 .. MaxFiles |->
                  [u \in V |-> IF x \notin fs THEN Missing
                               ELSE IF ow[x][b] # Hole THEN ow[x][b] ELSE u]]
           seen == CHOOSE s : s = Body(s)
<1> USE DiskAssumption DEF Ids
<1>1. PICK s : Along(s, MaxFiles, bk, V, Missing, F)
  <2>1. F \in [1 .. MaxFiles -> [V -> V]]
    OBVIOUS
  <2>2. Missing \in V
    OBVIOUS
  <2>3. Falls(MaxFiles, bk)
    BY DEF Chained
  <2>4. MaxFiles \in Nat
    OBVIOUS
  <2> HIDE DEF F, V
  <2> QED
    BY <2>1, <2>2, <2>3, <2>4, Recursion
<1>2. \A x \in 0 .. MaxFiles :
        s[x] = IF x \notin fs THEN Missing
               ELSE IF ow[x][b] # Hole THEN ow[x][b] ELSE s[bk[x]]
  <2> SUFFICES ASSUME NEW x \in 0 .. MaxFiles
               PROVE  s[x] = IF x \notin fs THEN Missing
                             ELSE IF ow[x][b] # Hole THEN ow[x][b] ELSE s[bk[x]]
    OBVIOUS
  <2>1. CASE x = 0
    BY <1>1, <2>1 DEF Chained, Along
  <2>2. CASE x # 0
    <3>1. x \in 1 .. MaxFiles /\ bk[x] \in 0 .. MaxFiles
      BY <2>2 DEF Chained, Falls
    <3>2. s[bk[x]] \in V /\ s[x] = F[x][s[bk[x]]]
      <4> HIDE DEF F, V
      <4> QED
        BY <1>1, <3>1 DEF Along
    <3>3. F[x] = [u \in V |-> IF x \notin fs THEN Missing
                              ELSE IF ow[x][b] # Hole THEN ow[x][b] ELSE u]
      BY <3>1
    <3> HIDE DEF F, V
    <3> QED
      BY <3>1, <3>2, <3>3
  <2> QED
    BY <2>1, <2>2
<1>3. s = Body(s)
  <2>1. s = [x \in 0 .. MaxFiles |-> s[x]]
    BY <1>1 DEF Along
  <2> QED
    BY <1>2, <2>1
<1>4. seen = Body(seen)
  BY <1>3
<1>5. \A x : View(fs, bk, ow, x)[b] = seen[x]
  BY DEF View
<1> HIDE DEF seen
<1> QED
  BY <1>4, <1>5 DEF Unfolds

LEMMA ViewFunction ==
  ASSUME NEW fs, NEW bk, NEW ow, NEW f
  PROVE  View(fs, bk, ow, f) = [b \in Blocks |-> View(fs, bk, ow, f)[b]]
<1> DEFINE shows(b) ==
      (CHOOSE s : s = [x \in 0 .. MaxFiles |->
                         IF x \notin fs THEN Missing
                         ELSE IF ow[x][b] # Hole THEN ow[x][b] ELSE s[bk[x]]])[f]
<1>1. View(fs, bk, ow, f) = [b \in Blocks |-> shows(b)]
  BY DEF View
<1> HIDE DEF shows
<1> QED
  BY <1>1

\* Two disks that show the same of every block show the same.
LEMMA ViewEqual ==
  ASSUME NEW fs, NEW bk, NEW ow, NEW f, NEW gs, NEW ck, NEW pw, NEW g,
         \A b \in Blocks : View(fs, bk, ow, f)[b] = View(gs, ck, pw, g)[b]
  PROVE  View(fs, bk, ow, f) = View(gs, ck, pw, g)
<1> DEFINE u == View(fs, bk, ow, f)
           v == View(gs, ck, pw, g)
<1>1. u = [b \in Blocks |-> u[b]] /\ v = [b \in Blocks |-> v[b]]
  BY ViewFunction
<1>2. \A b \in Blocks : u[b] = v[b]
  OBVIOUS
<1> HIDE DEF u, v
<1>3. u = v
  BY <1>1, <1>2
<1> QED
  BY <1>3 DEF u, v

\* A disk that shows v of every block shows v.
LEMMA ViewShows ==
  ASSUME NEW fs, NEW bk, NEW ow, NEW f, NEW v \in [Blocks -> Seen],
         \A b \in Blocks : View(fs, bk, ow, f)[b] = v[b]
  PROVE  View(fs, bk, ow, f) = v
<1> DEFINE u == View(fs, bk, ow, f)
<1>1. u = [b \in Blocks |-> u[b]]
  BY ViewFunction
<1>2. \A b \in Blocks : u[b] = v[b]
  OBVIOUS
<1> HIDE DEF u
<1>3. u = v
  BY <1>1, <1>2
<1> QED
  BY <1>3 DEF u

\* Nobody sees a hole: a block is there, or one of the files is not.
LEMMA ViewType ==
  ASSUME NEW fs, NEW bk, NEW ow \in [Ids -> [Blocks -> Held]], Chained(fs, bk),
         NEW f \in 0 .. MaxFiles
  PROVE  /\ View(fs, bk, ow, f) \in [Blocks -> Seen]
         /\ \A b \in Blocks : View(fs, bk, ow, f)[b] # Hole
<1> USE DiskAssumption
<1> DEFINE Ok(x, b) == View(fs, bk, ow, x)[b] \in {Missing} \union 0 .. MaxWrites
<1>1. ASSUME NEW b \in Blocks PROVE \A x \in 0 .. MaxFiles : Ok(x, b)
  <2> DEFINE T == {x \in 0 .. MaxFiles : ~ Ok(x, b)}
  <2>1. SUFFICES ASSUME T # {} PROVE FALSE
    OBVIOUS
  <2>2. PICK m \in T : \A k \in T : m <= k
    <3>1. T \in SUBSET Nat
      OBVIOUS
    <3> HIDE DEF T
    <3> QED
      BY <2>1, <3>1, Least
  <2>3. m \in 0 .. MaxFiles /\ ~ Ok(m, b)
    OBVIOUS
  <2>4. Unfolds(fs, bk, ow, m, b)
    BY <2>3, ViewIs
  <2>5. CASE m \in fs /\ ow[m][b] = Hole
    <3>1. m \in Ids /\ bk[m] \in 0 .. m - 1 /\ bk[m] \in 0 .. MaxFiles
      BY <2>5, <2>3 DEF Chained, Falls, Ids
    <3>2. bk[m] \notin T
      <4> HIDE DEF T
      <4> QED
        BY <2>2, <3>1, <2>3
    <3>3. Ok(bk[m], b)
      BY <3>1, <3>2
    <3> HIDE DEF T
    <3> QED
      BY <2>3, <2>4, <2>5, <3>3 DEF Unfolds
  <2>6. CASE m \notin fs
    BY <2>3, <2>4, <2>6 DEF Unfolds
  <2>7. CASE m \in fs /\ ow[m][b] # Hole
    <3>1. ow[m][b] \in Held
      BY <2>7 DEF Chained
    <3>2. ow[m][b] \in 0 .. MaxWrites
      BY <2>7, <3>1 DEF Held, Hole
    <3> QED
      BY <2>3, <2>4, <2>7, <3>2 DEF Unfolds
  <2> QED
    BY <2>5, <2>6, <2>7
<1>2. \A b \in Blocks : Ok(f, b)
  BY <1>1
<1>3. View(fs, bk, ow, f) = [b \in Blocks |-> View(fs, bk, ow, f)[b]]
  BY ViewFunction
<1>4. \A b \in Blocks : View(fs, bk, ow, f)[b] \in Seen /\ View(fs, bk, ow, f)[b] # Hole
  <2>1. \A u \in {Missing} \union 0 .. MaxWrites : u \in Seen /\ u # Hole
    BY DEF Seen, Missing, Hole
  <2> QED
    BY <1>2, <2>1
<1> HIDE DEF Ok
<1> QED
  BY <1>3, <1>4

\* Two sets of files that are the same up to n.
Agree(n, fs, bk, ow, gs, ck, pw) ==
  \A x \in 1 .. n : (x \in fs <=> x \in gs) /\ bk[x] = ck[x] /\ ow[x] = pw[x]

\* What a file shows depends on the files with smaller numbers only.
LEMMA ViewLocal ==
  ASSUME NEW fs, NEW bk, NEW ow, Chained(fs, bk),
         NEW gs, NEW ck, NEW pw, Chained(gs, ck),
         NEW n \in 0 .. MaxFiles,
         Agree(n, fs, bk, ow, gs, ck, pw)
  PROVE  \A f \in 0 .. n : View(fs, bk, ow, f) = View(gs, ck, pw, f)
<1> USE DiskAssumption
<1> DEFINE Ok(x, b) == View(fs, bk, ow, x)[b] = View(gs, ck, pw, x)[b]
<1>1. ASSUME NEW b \in Blocks PROVE \A x \in 0 .. n : Ok(x, b)
  <2> DEFINE T == {x \in 0 .. n : ~ Ok(x, b)}
  <2>1. SUFFICES ASSUME T # {} PROVE FALSE
    OBVIOUS
  <2>2. PICK m \in T : \A k \in T : m <= k
    <3>1. T \in SUBSET Nat
      OBVIOUS
    <3> HIDE DEF T
    <3> QED
      BY <2>1, <3>1, Least
  <2>3. m \in 0 .. n /\ m \in 0 .. MaxFiles /\ ~ Ok(m, b)
    OBVIOUS
  <2>4. Unfolds(fs, bk, ow, m, b)
    BY <2>3, ViewIs
  <2>5. Unfolds(gs, ck, pw, m, b)
    BY <2>3, ViewIs
  <2>6. CASE m = 0
    BY <2>3, <2>4, <2>5, <2>6 DEF Chained, Ids, Unfolds
  <2>7. CASE m # 0
    <3>1. m \in 1 .. n /\ m \in 1 .. MaxFiles
      BY <2>3, <2>7
    <3>2. bk[m] \in 0 .. m - 1 /\ bk[m] \in 0 .. n
      BY <3>1 DEF Chained, Falls
    <3>3. bk[m] \notin T
      <4> HIDE DEF T
      <4> QED
        BY <2>2, <3>1, <3>2
    <3>4. Ok(bk[m], b)
      BY <3>2, <3>3
    <3> HIDE DEF T
    <3> QED
      BY <2>3, <2>4, <2>5, <3>1, <3>4 DEF Agree, Unfolds
  <2> QED
    BY <2>6, <2>7
<1>2. ASSUME NEW f \in 0 .. n PROVE View(fs, bk, ow, f) = View(gs, ck, pw, f)
  <2>1. \A b \in Blocks : View(fs, bk, ow, f)[b] = View(gs, ck, pw, f)[b]
    BY <1>1
  <2> QED
    BY <2>1, ViewEqual
<1> QED
  BY <1>2

\* What merging a file into the one below it makes of the disk; C are the
\* files of the chain, which are told.
Rebased(C, bk, over, under) == [f \in Ids |-> IF f \in C /\ bk[f] = over THEN under ELSE bk[f]]
Merged(ow, over, under) ==
  [ow EXCEPT ![under] = [b \in Blocks |-> IF ow[over][b] # Hole THEN ow[over][b] ELSE ow[under][b]]]

\* With a file, a set has the one below it.
Closed(C, bk) == C \subseteq Ids /\ \A f \in C : bk[f] \in C \union {NoFile}

\* over lies on under, and nothing else does.
Mergeable(fs, bk, over, under) ==
  /\ over \in fs /\ under \in fs
  /\ bk[over] = under
  /\ \A f \in fs : bk[f] = under => f = over

LEMMA RebasedChained ==
  ASSUME NEW fs, NEW bk \in [Ids -> 0 .. MaxFiles], NEW over, NEW under,
         NEW C, Chained(fs, bk), Mergeable(fs, bk, over, under)
  PROVE  Chained(fs \ {over}, Rebased(C, bk, over, under))
<1> USE DiskAssumption DEF Ids
<1>1. over \in 1 .. MaxFiles /\ under \in 0 .. over - 1
  BY DEF Chained, Falls, Mergeable
<1>2. ASSUME NEW x \in 1 .. MaxFiles
      PROVE  Rebased(C, bk, over, under)[x] \in 0 .. x - 1
  BY <1>1 DEF Rebased, Chained, Falls
<1> QED
  BY <1>2 DEF Chained, Falls

\* The merge leaves what every other file of the chain shows, and the file
\* below shows what the merged one did.
LEMMA ViewMerged ==
  ASSUME NEW fs, NEW bk \in [Ids -> 0 .. MaxFiles], NEW ow \in [Ids -> [Blocks -> Held]],
         NEW over, NEW under, Chained(fs, bk), Mergeable(fs, bk, over, under),
         NEW C, Closed(C, bk), over \in C, NEW x \in C, x # over
  PROVE  View(fs \ {over}, Rebased(C, bk, over, under), Merged(ow, over, under), x)
           = View(fs, bk, ow, IF x = under THEN over ELSE x)
<1> USE DiskAssumption
<1> DEFINE gs == fs \ {over}
           ck == Rebased(C, bk, over, under)
           pw == Merged(ow, over, under)
           of(f) == IF f = under THEN over ELSE f
           Ok(f, b) == f \in C \union {NoFile} /\ f # over
                         => View(gs, ck, pw, f)[b] = View(fs, bk, ow, of(f))[b]
<1>1. Chained(gs, ck)
  BY RebasedChained
<1>2. /\ over \in Ids /\ under \in Ids /\ under < over
      /\ over \in fs /\ under \in fs /\ bk[over] = under
      /\ under \in C
  BY DEF Chained, Falls, Mergeable, Ids, Closed, NoFile
<1>3. ASSUME NEW b \in Blocks PROVE \A f \in 0 .. MaxFiles : Ok(f, b)
  <2> DEFINE T == {f \in 0 .. MaxFiles : ~ Ok(f, b)}
  <2>1. SUFFICES ASSUME T # {} PROVE FALSE
    OBVIOUS
  <2>2. PICK m \in T : \A k \in T : m <= k
    <3>1. T \in SUBSET Nat
      OBVIOUS
    <3> HIDE DEF T
    <3> QED
      BY <2>1, <3>1, Least
  <2>3. m \in 0 .. MaxFiles /\ ~ Ok(m, b)
    OBVIOUS
  <2>4. /\ m # over /\ View(gs, ck, pw, m)[b] # View(fs, bk, ow, of(m))[b]
        /\ m \in C \union {NoFile}
    BY <2>3
  <2> HIDE DEF Ok
  <2>5. \A k \in 0 .. m - 1 : Ok(k, b)
    <3> SUFFICES ASSUME NEW k \in 0 .. m - 1 PROVE Ok(k, b)
      OBVIOUS
    <3>1. k \in 0 .. MaxFiles /\ ~ m <= k
      BY <2>3
    <3>2. k \notin T
      <4> HIDE DEF T
      <4> QED
        BY <2>2, <3>1
    <3> QED
      BY <3>1, <3>2
  <2>6. Unfolds(gs, ck, pw, m, b)
    <3> HIDE DEF gs, ck, pw, of, T
    <3> QED
      BY <1>1, <2>3, ViewIs
  <2>7. Unfolds(fs, bk, ow, m, b)
    <3> HIDE DEF gs, ck, pw, of, T
    <3> QED
      BY <2>3, ViewIs
  <2>8. CASE m \notin fs
    <3>1. View(gs, ck, pw, m)[b] = Missing
      BY <2>6, <2>8 DEF Unfolds
    <3>2. View(fs, bk, ow, m)[b] = Missing /\ of(m) = m
      BY <1>2, <2>7, <2>8 DEF Unfolds
    <3> QED
      BY <2>4, <3>1, <3>2
  <2>9. CASE m = under
    <3>1. Unfolds(fs, bk, ow, over, b)
      <4>1. over \in 0 .. MaxFiles
        BY <1>2 DEF Ids
      <4> QED
        BY <4>1, ViewIs
    <3>2. /\ pw[m][b] = IF ow[over][b] # Hole THEN ow[over][b] ELSE ow[m][b]
          /\ m \in gs /\ of(m) = over
      BY <1>2, <2>9 DEF Merged
    <3>3. ck[m] = bk[m] /\ bk[m] \in 0 .. m - 1 /\ bk[m] \in C \union {NoFile}
      BY <1>2, <2>9 DEF Rebased, Chained, Falls, Ids, Closed
    <3>4. Ok(bk[m], b) /\ bk[m] # over /\ of(bk[m]) = bk[m]
      BY <1>2, <2>5, <2>9, <3>3 DEF Ids
    <3>5. View(gs, ck, pw, ck[m])[b] = View(fs, bk, ow, bk[m])[b]
      BY <3>3, <3>4 DEF Ok
    <3>6. View(fs, bk, ow, over)[b] =
            IF ow[over][b] # Hole THEN ow[over][b]
            ELSE IF ow[m][b] # Hole THEN ow[m][b] ELSE View(fs, bk, ow, bk[m])[b]
      BY <1>2, <2>7, <2>9, <3>1 DEF Unfolds
    <3>7. View(gs, ck, pw, m)[b] =
            IF pw[m][b] # Hole THEN pw[m][b] ELSE View(gs, ck, pw, ck[m])[b]
      BY <2>6, <3>2 DEF Unfolds
    <3> HIDE DEF gs, ck, pw, of, T
    <3> QED
      BY <2>4, <3>2, <3>5, <3>6, <3>7
  <2>10. CASE m \in fs /\ m # under
    <3>1. m \in Ids /\ pw[m] = ow[m] /\ m \in gs /\ of(m) = m /\ m \in C
      BY <1>2, <2>4, <2>10 DEF Merged, Chained, Ids, NoFile
    <3>2. bk[m] \in 0 .. m - 1 /\ bk[m] # under /\ bk[m] \in C \union {NoFile}
      BY <2>4, <2>10, <3>1 DEF Chained, Falls, Mergeable, Ids, Closed
    <3>3. View(gs, ck, pw, ck[m])[b] = View(fs, bk, ow, bk[m])[b]
      <4>1. CASE bk[m] = over
        <5>1. ck[m] = under /\ under \in 0 .. m - 1 /\ under # over /\ of(under) = over
          BY <1>2, <3>1, <3>2, <4>1 DEF Rebased, Ids
        <5>2. Ok(under, b)
          BY <2>5, <5>1
        <5> HIDE DEF gs, ck, pw, of, T
        <5> QED
          BY <1>2, <4>1, <5>1, <5>2 DEF Ok
      <4>2. CASE bk[m] # over
        <5>1. ck[m] = bk[m] /\ of(bk[m]) = bk[m]
          BY <3>1, <3>2, <4>2 DEF Rebased
        <5>2. Ok(bk[m], b)
          BY <2>5, <3>2
        <5> HIDE DEF gs, ck, pw, of, T
        <5> QED
          BY <3>2, <4>2, <5>1, <5>2 DEF Ok
      <4> QED
        BY <4>1, <4>2
    <3> HIDE DEF gs, ck, pw, of, T
    <3> QED
      BY <2>4, <2>6, <2>7, <2>10, <3>1, <3>3 DEF Unfolds
  <2> QED
    BY <2>8, <2>9, <2>10
<1>4. \A b \in Blocks : View(gs, ck, pw, x)[b] = View(fs, bk, ow, of(x))[b]
  <2>1. x \in 0 .. MaxFiles
    BY DEF Closed, Ids
  <2> QED
    BY <1>3, <2>1
<1> HIDE DEF gs, ck, pw, of, Ok
<1>5. View(gs, ck, pw, x) = View(fs, bk, ow, of(x))
  BY <1>4, ViewEqual
<1> QED
  BY <1>5 DEF gs, ck, pw, of

-------------------------------------------------------------------------------
(* The files of a chain.                                                   *)

LEMMA ChainIs ==
  ASSUME Falls(MaxFiles, back), NEW f \in 0 .. MaxFiles
  PROVE  Chain(f) = IF f = NoFile THEN {} ELSE {f} \union Chain(back[f])
<1> DEFINE Body(s) == [x \in 0 .. MaxFiles |->
                         IF x = NoFile THEN {} ELSE {x} \union s[back[x]]]
           V == SUBSET Ids
           F == [x \in 1 .. MaxFiles |-> [u \in V |-> {x} \union u]]
           below == CHOOSE s : s = Body(s)
<1> USE DiskAssumption
<1>1. PICK s : Along(s, MaxFiles, back, V, {}, F)
  <2>1. F \in [1 .. MaxFiles -> [V -> V]] /\ {} \in V /\ MaxFiles \in Nat
    BY DEF Ids
  <2> HIDE DEF F, V
  <2> QED
    BY <2>1, Recursion
<1>2. ASSUME NEW x \in 0 .. MaxFiles
      PROVE  s[x] = IF x = NoFile THEN {} ELSE {x} \union s[back[x]]
  <2>1. CASE x = 0
    BY <1>1, <2>1 DEF Along, NoFile
  <2>2. CASE x # 0
    <3>1. x \in 1 .. MaxFiles /\ back[x] \in 0 .. MaxFiles
      BY <2>2 DEF Falls
    <3>2. s[back[x]] \in V /\ s[x] = F[x][s[back[x]]]
      <4> HIDE DEF F, V
      <4> QED
        BY <1>1, <3>1 DEF Along
    <3>3. F[x] = [u \in V |-> {x} \union u]
      BY <3>1
    <3> HIDE DEF F, V
    <3> QED
      BY <2>2, <3>2, <3>3 DEF NoFile
  <2> QED
    BY <2>1, <2>2
<1>3. s = Body(s)
  <2>1. s = [x \in 0 .. MaxFiles |-> s[x]]
    BY <1>1 DEF Along
  <2> QED
    BY <1>2, <2>1
<1>4. below = Body(below)
  BY <1>3
<1>5. \A x : Chain(x) = below[x]
  BY DEF Chain
<1> HIDE DEF below
<1> QED
  BY <1>4, <1>5

\* A chain holds the file below each of its files.
LEMMA ChainClosed ==
  ASSUME Falls(MaxFiles, back), NEW f \in 0 .. MaxFiles
  PROVE  Closed(Chain(f), back) /\ (f # NoFile => f \in Chain(f))
<1> USE DiskAssumption
<1> DEFINE Ok(x) == Closed(Chain(x), back)
           T == {x \in 0 .. MaxFiles : ~ Ok(x)}
<1>1. ASSUME NEW x \in 0 .. MaxFiles, x # NoFile PROVE Chain(x) = {x} \union Chain(back[x])
  BY <1>1, ChainIs
<1>2. SUFFICES ASSUME T # {} PROVE FALSE
  BY <1>1
<1>3. PICK m \in T : \A k \in T : m <= k
  <2>1. T \in SUBSET Nat
    OBVIOUS
  <2> HIDE DEF T
  <2> QED
    BY <1>2, <2>1, Least
<1>4. m \in 0 .. MaxFiles /\ ~ Ok(m)
  BY <1>3
<1>5. CASE m = 0
  <2>1. Chain(0) = {}
    BY ChainIs DEF NoFile
  <2> QED
    BY <1>4, <1>5, <2>1 DEF Closed
<1>6. CASE m # 0
  <2>1. back[m] \in 0 .. m - 1 /\ back[m] \in 0 .. MaxFiles /\ m \in Ids
    BY <1>4, <1>6 DEF Falls, Ids
  <2>2. back[m] \notin T
    <3> HIDE DEF T
    <3> QED
      BY <1>3, <1>4, <2>1
  <2>3. Closed(Chain(back[m]), back)
    BY <2>1, <2>2
  <2>4. Chain(m) = {m} \union Chain(back[m])
    BY <1>1, <1>4, <1>6 DEF NoFile
  <2>5. back[m] = NoFile \/ back[m] \in Chain(back[m])
    BY <1>1, <2>1
  <2> QED
    BY <1>4, <2>1, <2>3, <2>4, <2>5 DEF Closed
<1> QED
  BY <1>5, <1>6

\* Every file but the first has one below it.
Based == \A x \in 2 .. used : back[x] # NoFile

\* A chain leads down to the first file, which is therefore the one that a
\* commit writes.
LEMMA ChainEnds ==
  ASSUME Falls(MaxFiles, back), Based, used \in Ids
  PROVE  \A f \in 1 .. used : 1 \in Chain(f) /\ f \in Chain(f) /\ Chain(f) \subseteq 1 .. f
<1> USE DiskAssumption
<1> DEFINE Ok(f) == 1 \in Chain(f) /\ f \in Chain(f) /\ Chain(f) \subseteq 1 .. f
           T == {f \in 1 .. used : ~ Ok(f)}
<1>1. SUFFICES ASSUME T # {} PROVE FALSE
  OBVIOUS
<1>2. PICK m \in T : \A k \in T : m <= k
  <2>1. T \in SUBSET Nat
    BY DEF Ids
  <2> HIDE DEF T
  <2> QED
    BY <1>1, <2>1, Least
<1>3. m \in 1 .. used /\ m \in 0 .. MaxFiles /\ ~ Ok(m) /\ used \in Nat
  BY DEF Ids
<1>4. Chain(m) = {m} \union Chain(back[m])
  BY <1>3, ChainIs DEF NoFile
<1>5. CASE m = 1
  <2>1. back[m] = 0
    BY <1>3, <1>5 DEF Falls
  <2>2. Chain(0) = {}
    BY ChainIs DEF NoFile
  <2> QED
    BY <1>3, <1>4, <1>5, <2>1, <2>2
<1>6. CASE m # 1
  <2>1. back[m] \in 1 .. m - 1 /\ back[m] \in 1 .. used
    BY <1>3, <1>6 DEF Falls, Based, NoFile
  <2>2. back[m] \notin T
    <3> HIDE DEF T
    <3> QED
      BY <1>2, <1>3, <2>1
  <2>3. Ok(back[m])
    BY <2>1, <2>2
  <2> QED
    BY <1>3, <1>4, <2>1, <2>3
<1> QED
  BY <1>5, <1>6

LEMMA LowestIsFirst ==
  ASSUME Falls(MaxFiles, back), Based, used \in Ids, NEW f \in 1 .. used
  PROVE  Lowest(f) = 1
<1> USE DiskAssumption
<1>1. 1 \in Chain(f) /\ Chain(f) \subseteq 1 .. used
  BY ChainEnds DEF Ids
<1>2. back[1] = NoFile
  BY DEF Falls, NoFile
<1>3. \A x \in Chain(f) : back[x] = NoFile => x = 1
  BY <1>1 DEF Based, Ids
<1> QED
  BY <1>1, <1>2, <1>3 DEF Lowest

-------------------------------------------------------------------------------
(* What the commands do to the images.                                     *)

\* The part of the types that is about images.
ImageOK ==
  /\ files \subseteq 1 .. used
  /\ used \in Ids
  /\ back \in [Ids -> 0 .. MaxFiles]
  /\ \A f \in Ids : back[f] < f
  /\ own \in [Ids -> [Blocks -> Held]]
  /\ live \in 1 .. used

\* The first file is never deleted and has all blocks, and a file not yet made
\* holds nothing.
Ground ==
  /\ 1 \in files
  /\ \A b \in Blocks : own[1][b] # Hole
  /\ Based
  /\ \A x \in Ids : x > used => own[x] = Nothing

LEMMA ImagesChained ==
  ASSUME ImageOK
  PROVE  /\ Chained(files, back) /\ Falls(MaxFiles, back)
         /\ used \in 0 .. MaxFiles /\ live \in 0 .. MaxFiles
  BY DiskAssumption DEF ImageOK, Chained, Falls, Ids

\* A new file on top of f shows what f does, and the others what they did.
LEMMA NewFileEffect ==
  ASSUME ImageOK, Ground, NEW f \in 1 .. used, NewFile(f), live' \in {live, used + 1}
  PROVE  /\ ImageOK' /\ Ground'
         /\ View(files', back', own', used + 1) = Reads(f)
         /\ \A g \in 0 .. used : View(files', back', own', g) = Reads(g)
<1> USE DiskAssumption
<1>1. /\ used' = used + 1 /\ used' \in Ids /\ used \in 1 .. MaxFiles - 1
      /\ live' \in 1 .. used'
  BY DEF NewFile, ImageOK, Ids
<1>2. ImageOK'
  BY <1>1 DEF ImageOK, NewFile, Ids
<1>3. Ground'
  BY <1>1 DEF ImageOK, Ground, Based, NewFile, Ids, NoFile
<1>4. Chained(files, back) /\ Chained(files', back')
  <2>1. Falls(MaxFiles, back')
    BY <1>2 DEF ImageOK, Falls, Ids
  <2> QED
    BY <1>2, <2>1, ImagesChained DEF ImageOK, Chained, Ids
<1>5. Agree(used, files', back', own', files, back, own)
  BY <1>1 DEF Agree, NewFile, ImageOK, Ids
<1>6. \A g \in 0 .. used : View(files', back', own', g) = Reads(g)
  <2>1. used \in 0 .. MaxFiles
    BY <1>1
  <2> QED
    BY <1>4, <1>5, <2>1, ViewLocal DEF Reads
<1>7. \A b \in Blocks : View(files', back', own', used + 1)[b] = Reads(f)[b]
  <2> SUFFICES ASSUME NEW b \in Blocks
               PROVE  View(files', back', own', used + 1)[b] = Reads(f)[b]
    OBVIOUS
  <2>1. Unfolds(files', back', own', used + 1, b)
    <3>1. used + 1 \in 0 .. MaxFiles
      BY <1>1
    <3> QED
      BY <1>4, <3>1, ViewIs
  <2>2. used + 1 \in files' /\ own'[used + 1][b] = Hole /\ back'[used + 1] = f
    BY <1>1 DEF NewFile, Ground, ImageOK, Ids, Nothing
  <2>3. View(files', back', own', f) = Reads(f)
    BY <1>1, <1>6
  <2> QED
    BY <2>1, <2>2, <2>3 DEF Unfolds
<1>8. View(files', back', own', used + 1) = View(files, back, own, f)
  BY <1>7, ViewEqual DEF Reads
<1> QED
  BY <1>2, <1>3, <1>6, <1>8 DEF Reads

\* Used as the disk, it makes the machine see what f shows.
LEMMA OverlayEffect ==
  ASSUME ImageOK, Ground, NEW f \in 1 .. used, Overlay(f)
  PROVE  /\ ImageOK' /\ Ground'
         /\ View(files', back', own', live') = Reads(f)
         /\ \A g \in 0 .. used : View(files', back', own', g) = Reads(g)
  BY NewFileEffect DEF Overlay

\* A commit makes the first file the disk, with what the disk showed; a file
\* above it may then be deleted.
LEMMA CommitEffect ==
  ASSUME ImageOK, Ground, Whole(live), BlockCommit, NEW o, o # 1,
         files' = files \ {o}, UNCHANGED <<used, back>>
  PROVE  /\ ImageOK' /\ Ground' /\ live' = 1
         /\ View(files', back', own', live') = Reads(live)
<1> USE DiskAssumption
<1>1. Lowest(live) = 1
  BY ImagesChained, LowestIsFirst DEF ImageOK, Ground
<1>2. live' = 1 /\ own' = [own EXCEPT ![1] = Reads(live)]
  BY <1>1 DEF BlockCommit
<1>3. Chained(files, back) /\ live \in 0 .. MaxFiles
  BY ImagesChained
<1>4. /\ Reads(live) \in [Blocks -> Seen]
      /\ \A b \in Blocks : Reads(live)[b] # Hole
  BY <1>3, ViewType DEF ImageOK, Reads
<1>5. Reads(live) \in [Blocks -> Held]
  <2>1. \A b \in Blocks : Reads(live)[b] \in Held
    BY <1>4 DEF Whole, Seen, Held, Missing
  <2> QED
    BY <1>4, <2>1
<1>6. ImageOK'
  <2>1. own' \in [Ids -> [Blocks -> Held]]
    BY <1>2, <1>5 DEF ImageOK
  <2>2. live' \in 1 .. used
    BY <1>2 DEF ImageOK, Ids
  <2>3. files' \subseteq 1 .. used
    <3>1. files' \subseteq files
      OBVIOUS
    <3> QED
      BY <3>1 DEF ImageOK
  <2> QED
    BY <2>1, <2>2, <2>3 DEF ImageOK
<1>7. Ground'
  BY <1>2, <1>4 DEF ImageOK, Ground, Based, Ids
<1>8. Chained(files', back')
  BY <1>3 DEF Chained
<1>9. \A b \in Blocks : View(files', back', own', 1)[b] = Reads(live)[b]
  <2> SUFFICES ASSUME NEW b \in Blocks
               PROVE  View(files', back', own', 1)[b] = Reads(live)[b]
    OBVIOUS
  <2>1. Unfolds(files', back', own', 1, b)
    BY <1>8, ViewIs DEF Ids
  <2>2. 1 \in files' /\ own'[1][b] = Reads(live)[b]
    BY <1>2 DEF Ground, ImageOK, Ids
  <2> QED
    BY <1>4, <2>1, <2>2 DEF Unfolds
<1>10. View(files', back', own', 1) = View(files, back, own, live)
  BY <1>9, ViewEqual DEF Reads
<1> QED
  BY <1>2, <1>6, <1>7, <1>10 DEF Reads

\* A write goes to the file on top: the disk shows it, and no file below.
WriteTo(b, w) ==
  /\ own' = [own EXCEPT ![live][b] = w]
  /\ UNCHANGED <<files, used, back, live>>

LEMMA WriteEffect ==
  ASSUME ImageOK, Ground, NEW b \in Blocks, NEW w \in 0 .. MaxWrites, live \in files,
         WriteTo(b, w)
  PROVE  /\ ImageOK' /\ Ground'
         /\ View(files', back', own', live') = [Reads(live) EXCEPT ![b] = w]
         /\ \A g \in 0 .. live - 1 : View(files', back', own', g) = Reads(g)
<1> USE DiskAssumption
<1>1. Chained(files, back) /\ live \in 1 .. MaxFiles /\ live \in 0 .. MaxFiles
  BY ImagesChained DEF ImageOK
<1>2. w \in Held /\ w # Hole
  BY DEF Held, Hole
<1>3. ImageOK'
  BY <1>2 DEF WriteTo, ImageOK, Ids
<1>4. Ground'
  BY <1>1, <1>2 DEF WriteTo, ImageOK, Ground, Based, Ids
<1>5. Agree(live - 1, files', back', own', files, back, own)
  BY <1>1 DEF WriteTo, Agree, ImageOK, Ids
<1>6. \A g \in 0 .. live - 1 : View(files', back', own', g) = Reads(g)
  <2>1. live - 1 \in 0 .. MaxFiles /\ Chained(files', back')
    BY <1>1 DEF WriteTo
  <2> QED
    BY <1>1, <1>5, <2>1, ViewLocal DEF Reads
<1>7. ASSUME NEW d \in Blocks
      PROVE  View(files', back', own', live')[d] = IF d = b THEN w ELSE Reads(live)[d]
  <2>1. Unfolds(files, back, own, live, d)
    BY <1>1, ViewIs
  <2>2. Unfolds(files', back', own', live', d)
    <3>1. Chained(files', back') /\ live' \in 0 .. MaxFiles
      BY <1>1 DEF WriteTo
    <3> QED
      BY <3>1, ViewIs
  <2>3. own'[live][d] = IF d = b THEN w ELSE own[live][d]
    BY <1>1 DEF WriteTo, ImageOK, Ids
  <2>4. back[live] \in 0 .. live - 1
    BY <1>1 DEF Chained, Falls
  <2>5. View(files', back', own', back[live]) = Reads(back[live])
    BY <1>6, <2>4
  <2> QED
    BY <1>2, <2>1, <2>2, <2>3, <2>5 DEF Unfolds, Reads, WriteTo
<1>8. View(files', back', own', live') = [Reads(live) EXCEPT ![b] = w]
  <2> DEFINE v == [Reads(live) EXCEPT ![b] = w]
  <2>1. Reads(live) \in [Blocks -> Seen] /\ w \in Seen
    BY <1>1, ViewType DEF Reads, ImageOK, Seen
  <2>2. v \in [Blocks -> Seen]
    BY <2>1
  <2>3. \A d \in Blocks : v[d] = IF d = b THEN w ELSE Reads(live)[d]
    BY <2>1
  <2> HIDE DEF v
  <2>4. \A d \in Blocks : View(files', back', own', live')[d] = v[d]
    BY <1>7, <2>3
  <2>5. View(files', back', own', live') = v
    BY <2>2, <2>4, ViewShows
  <2> QED
    BY <2>5 DEF v
<1> QED
  BY <1>3, <1>4, <1>6, <1>8

\* Merging an overlay away leaves what the disk shows.
LEMMA MergeEffect ==
  ASSUME ImageOK, Ground, NEW s, DeleteMerging(s)
  PROVE  /\ ImageOK' /\ Ground'
         /\ View(files', back', own', live') = Reads(live)
<1> USE DiskAssumption
<1> DEFINE over == snap[s].over
           under == snap[s].under
<1>1. /\ over \in Chain(live) /\ Mergeable(files, back, over, under)
      /\ files' = files \ {over} /\ used' = used
      /\ live' = IF live = over THEN under ELSE live
      /\ back' = Rebased(Chain(live), back, over, under) /\ own' = Merged(own, over, under)
  BY DEF DeleteMerging, Mergeable, Rebased, Merged
<1> HIDE DEF over, under
<1>2. /\ Chained(files, back) /\ Falls(MaxFiles, back) /\ used \in 0 .. MaxFiles
      /\ live \in 1 .. used /\ live \in 0 .. MaxFiles /\ back \in [Ids -> 0 .. MaxFiles]
  BY ImagesChained DEF ImageOK
<1>3. over \in 1 .. live
  BY <1>1, <1>2, ChainEnds DEF Ground, ImageOK
<1>4. under \in 1 .. used /\ under < over /\ over # 1 /\ live # under
  BY <1>1, <1>2, <1>3 DEF ImageOK, Mergeable, Falls, Ids
<1>5. Chained(files', back')
  BY <1>1, <1>2, RebasedChained
<1>6. live' \in 1 .. used
  BY <1>1, <1>2, <1>4
<1>7. own' \in [Ids -> [Blocks -> Held]]
  <2>1. over \in Ids /\ under \in Ids
    BY <1>1, <1>2 DEF Mergeable, Chained
  <2>2. own[over] \in [Blocks -> Held] /\ own[under] \in [Blocks -> Held]
    BY <2>1 DEF ImageOK
  <2>3. [b \in Blocks |-> IF own[over][b] # Hole THEN own[over][b] ELSE own[under][b]]
          \in [Blocks -> Held]
    BY <2>2
  <2> QED
    BY <1>1, <2>1, <2>3 DEF Merged, ImageOK
<1>8. back' \in [Ids -> 0 .. MaxFiles] /\ \A f \in Ids : back'[f] < f
  <2>1. \A f \in Ids : back'[f] \in 0 .. f - 1
    BY <1>5 DEF Chained, Falls, Ids
  <2>2. back' = [f \in Ids |-> back'[f]]
    BY <1>1 DEF Rebased
  <2> QED
    BY <2>1, <2>2 DEF Ids
<1>9. ImageOK'
  <2>1. files' \subseteq files
    BY <1>1
  <2> QED
    BY <1>1, <1>6, <1>7, <1>8, <2>1 DEF ImageOK
<1>10. Ground'
  <2>1. 1 \in files'
    BY <1>1, <1>4 DEF Ground
  <2>2. Based'
    BY <1>1, <1>2, <1>4 DEF Ground, Based, Rebased, NoFile, Ids
  <2>3. \A x \in Ids : x > used => own'[x] = Nothing
    BY <1>1, <1>2, <1>4 DEF Ground, Merged, ImageOK, Ids
  <2>4. \A b \in Blocks : own'[1][b] # Hole
    BY <1>1, <1>2, <1>4 DEF Ground, Merged, ImageOK, Ids
  <2> QED
    BY <1>1, <2>1, <2>2, <2>3, <2>4 DEF Ground
<1>11. /\ Closed(Chain(live), back) /\ live' \in Chain(live)
       /\ live' # over /\ live = IF live' = under THEN over ELSE live'
  <2>1. Closed(Chain(live), back) /\ live \in Chain(live)
    BY <1>2, ChainClosed DEF NoFile
  <2>2. under \in Chain(live)
    BY <1>1, <1>4, <2>1 DEF Closed, Mergeable, NoFile
  <2> QED
    BY <1>1, <1>2, <1>4, <1>6, <2>1, <2>2
<1>12. View(files', back', own', live') = View(files, back, own, live)
  <2>1. own \in [Ids -> [Blocks -> Held]]
    BY DEF ImageOK
  <2> QED
    BY <1>1, <1>2, <1>11, <2>1, ViewMerged
<1> QED
  BY <1>9, <1>10, <1>12 DEF Reads

-------------------------------------------------------------------------------
(* The invariant.                                                          *)

\* The part of the types that is not about images.
RestOK ==
  /\ running \in BOOLEAN
  /\ snaps \subseteq Snaps
  /\ snap \in [Snaps -> Snapshot]
  /\ call \in [Calls -> Call]
  /\ taken \in 0 .. MaxSnaps
  /\ writes \in 0 .. MaxWrites
  /\ wrote \in [Blocks -> Seen]
  /\ reverted \in 0 .. MaxSnaps
  /\ astray \in BOOLEAN

\* Only a machine that was redefined while it ran has another disk than the
\* one in its definition, and only as long as it runs.
NamedIsLive ==
  /\ named \in 1 .. used
  /\ ~running \/ ~astray => named = live

\* A machine that runs has all of its disk.
RunsWhole == running => \A b \in Blocks : wrote[b] # Missing

\* No call deletes the first file, and a rollback has a snapshot to go to.
CallsKnow ==
  \A c \in Calls : /\ call[c].overlay # 1
                   /\ call[c].at = "revert" => call[c].of \in Snaps

\* What an internal snapshot keeps of the first file is all of it.
KeptWhole ==
  \A s \in snaps : snap[s].over = NoFile /\ snap[s].under = 1
                     => \A b \in Blocks : snap[s].kept[b] # Hole

DiskInv ==
  /\ ImageOK /\ RestOK /\ Ground
  /\ NamedIsLive /\ WritesSurvive /\ RunsWhole /\ CallsKnow /\ KeptWhole

LEMMA IdleOK ==
  /\ Idle \in Call /\ Idle.overlay = 0 /\ Idle.at = "idle" /\ Idle.crossed = FALSE
  /\ Idle.copied = [b \in Blocks |-> NotYet]
  /\ Nothing \in [Blocks -> Held] /\ Nothing \in [Blocks -> Seen]
<1>1. Nothing \in [Blocks -> Held] /\ Nothing \in [Blocks -> Seen]
  BY DiskAssumption DEF Nothing, Held, Seen, Hole
<1>2. [b \in Blocks |-> NotYet] \in [Blocks -> -3 .. MaxWrites]
  BY DiskAssumption DEF NotYet
<1> QED
  BY <1>1, <1>2, DiskAssumption DEF Idle, Call, NoFile, Format

LEMMA DiskInit == Init => DiskInv
<1> SUFFICES ASSUME Init PROVE DiskInv
  OBVIOUS
<1> USE DiskAssumption DEF Init
<1>1. [b \in Blocks |-> 0] \in [Blocks -> Held] /\ [b \in Blocks |-> 0] \in [Blocks -> Seen]
  BY DEF Held, Seen
<1>2. ImageOK
  BY <1>1, IdleOK DEF ImageOK, Ids, NoFile
<1>3. Ground
  <2>1. 1 \in files /\ Based
    BY DEF Based
  <2>2. own[1] = [b \in Blocks |-> 0] /\ \A x \in Ids : x > used => own[x] = Nothing
    BY DEF Ids
  <2> HIDE DEF Init
  <2>3. \A b \in Blocks : own[1][b] = 0
    BY <2>2
  <2>4. 0 # Hole
    BY DEF Hole
  <2> QED
    BY <2>1, <2>2, <2>3, <2>4 DEF Ground
<1>4. RestOK
  <2>1. [over |-> NoFile, under |-> 1, kept |-> Nothing, was |-> Nothing, on |-> FALSE] \in Snapshot
    BY IdleOK DEF Snapshot, NoFile, Ids
  <2>2. snap \in [Snaps -> Snapshot]
    BY <2>1
  <2>3. call \in [Calls -> Call]
    BY IdleOK
  <2>4. running \in BOOLEAN /\ snaps \subseteq Snaps /\ astray \in BOOLEAN
    OBVIOUS
  <2>5. taken \in 0 .. MaxSnaps /\ writes \in 0 .. MaxWrites /\ reverted \in 0 .. MaxSnaps
    OBVIOUS
  <2>6. wrote \in [Blocks -> Seen]
    BY <1>1
  <2> HIDE DEF Init
  <2> QED
    BY <2>2, <2>3, <2>4, <2>5, <2>6 DEF RestOK
<1>5. WritesSurvive
  <2>1. Chained(files, back)
    BY <1>2, ImagesChained
  <2>2. \A b \in Blocks : View(files, back, own, 1)[b] = 0
    <3> SUFFICES ASSUME NEW b \in Blocks PROVE View(files, back, own, 1)[b] = 0
      OBVIOUS
    <3>1. Unfolds(files, back, own, 1, b)
      BY <2>1, ViewIs
    <3>2. 1 \in files /\ own[1][b] = 0
      BY DEF Ids
    <3> QED
      BY <3>1, <3>2 DEF Unfolds, Hole
  <2>3. View(files, back, own, 1) = [b \in Blocks |-> View(files, back, own, 1)[b]]
    <3> HIDE DEF Init
    <3> QED
      BY ViewFunction
  <2> QED
    BY <2>2, <2>3 DEF WritesSurvive, Reads
<1>6. RunsWhole /\ CallsKnow /\ NamedIsLive /\ KeptWhole
  BY IdleOK DEF RunsWhole, CallsKnow, NamedIsLive, KeptWhole
<1> QED
  BY <1>2, <1>3, <1>4, <1>5, <1>6 DEF DiskInv

-------------------------------------------------------------------------------
(* Its steps.                                                              *)

LEMMA ImagesStay ==
  ASSUME ImageOK, Ground, UNCHANGED imageVars, live' \in 1 .. used
  PROVE  /\ ImageOK' /\ Ground'
         /\ \A g : View(files', back', own', g) = Reads(g)
  BY DEF ImageOK, Ground, Based, imageVars, Reads

\* Marking calls as crossed changes nothing else of them.
Same(p, q) ==
  /\ p.at = q.at /\ p.format = q.format /\ p.source = q.source /\ p.overlay = q.overlay
  /\ p.copied = q.copied /\ p.was = q.was /\ p.of = q.of /\ p.start = q.start

LEMMA CrossedCalls ==
  ASSUME call \in [Calls -> Call], NEW D
  PROVE  /\ Crossed(D) \in [Calls -> Call]
         /\ \A c \in Calls :
              /\ Same(Crossed(D)[c], call[c])
              /\ Crossed(D)[c].crossed =
                   (call[c].crossed \/ (c \in D /\ call[c].at \in {"freeze", "copy"}))
<1>1. ASSUME NEW c \in Calls
      PROVE  /\ Crossed(D)[c] \in Call
             /\ Same(Crossed(D)[c], call[c])
             /\ Crossed(D)[c].crossed =
                  (call[c].crossed \/ (c \in D /\ call[c].at \in {"freeze", "copy"}))
  <2> DEFINE x == call[c].crossed \/ (c \in D /\ call[c].at \in {"freeze", "copy"})
  <2>1. Crossed(D)[c] = [call[c] EXCEPT !.crossed = x]
    BY DEF Crossed
  <2>2. x \in BOOLEAN
    BY DEF Call
  <2> HIDE DEF x
  <2>3. call[c] \in Call
    OBVIOUS
  <2>4. Crossed(D)[c] \in Call /\ Same(Crossed(D)[c], call[c]) /\ Crossed(D)[c].crossed = x
    BY <2>1, <2>2, <2>3 DEF Call, Same
  <2> QED
    BY <2>4 DEF x
<1>2. Crossed(D) = [c \in Calls |-> Crossed(D)[c]]
  BY DEF Crossed
<1> QED
  BY <1>1, <1>2

\* Marking none changes nothing.
LEMMA CrossedNone ==
  ASSUME call \in [Calls -> Call]
  PROVE  Crossed({}) = call
<1>1. ASSUME NEW c \in Calls PROVE Crossed({})[c] = call[c]
  <2>1. Crossed({})[c] = [call[c] EXCEPT !.crossed = @ \/ (c \in {} /\ call[c].at \in {"freeze", "copy"})]
    BY DEF Crossed
  <2>2. call[c].crossed \in BOOLEAN /\ call[c] \in Call
    BY DEF Call
  <2>3. (call[c].crossed \/ (c \in {} /\ call[c].at \in {"freeze", "copy"})) = call[c].crossed
    BY <2>2
  <2>4. Crossed({})[c] = [call[c] EXCEPT !.crossed = call[c].crossed]
    BY <2>1, <2>3
  <2> QED
    BY <2>2, <2>4 DEF Call
<1>2. Crossed({}) = [c \in Calls |-> Crossed({})[c]]
  BY DEF Crossed
<1> QED
  BY <1>1, <1>2

\* Calls that are marked, at most.
LEMMA CallsMarked ==
  ASSUME RestOK, CallsKnow, NEW D, call' = Crossed(D)
  PROVE  call' \in [Calls -> Call] /\ CallsKnow'
<1>1. call \in [Calls -> Call]
  BY DEF RestOK
<1>2. call' \in [Calls -> Call] /\ \A c \in Calls : Same(call'[c], call[c])
  BY <1>1, CrossedCalls
<1> QED
  BY <1>2 DEF CallsKnow, Same

\* A call that goes on, and others that are marked.
LEMMA CallGoesOn ==
  ASSUME RestOK, CallsKnow, NEW c \in Calls, NEW k \in Call, NEW D,
         k.overlay # 1, k.at = "revert" => k.of \in Snaps,
         call' = [Crossed(D) EXCEPT ![c] = k]
  PROVE  call' \in [Calls -> Call] /\ CallsKnow'
<1>1. Crossed(D) \in [Calls -> Call] /\ \A d \in Calls : Same(Crossed(D)[d], call[d])
  BY CrossedCalls DEF RestOK
<1>2. call' \in [Calls -> Call]
  BY <1>1
<1>3. ASSUME NEW d \in Calls
      PROVE  call'[d].overlay # 1 /\ (call'[d].at = "revert" => call'[d].of \in Snaps)
  <2>1. CASE d = c
    <3>1. call'[d] = k
      BY <1>1, <2>1
    <3> QED
      BY <3>1
  <2>2. CASE d # c
    <3>1. Same(call'[d], call[d])
      BY <1>1, <2>2
    <3> QED
      BY <3>1 DEF CallsKnow, Same
  <2> QED
    BY <2>1, <2>2
<1> QED
  BY <1>2, <1>3 DEF CallsKnow

\* A call that ends.
LEMMA CallEnds ==
  ASSUME RestOK, CallsKnow, NEW c \in Calls, NEW D, call' = [Crossed(D) EXCEPT ![c] = Idle]
  PROVE  call' \in [Calls -> Call] /\ CallsKnow'
<1>1. Idle \in Call /\ Idle.overlay # 1 /\ (Idle.at = "revert" => Idle.of \in Snaps)
  BY IdleOK
<1> QED
  BY <1>1, CallGoesOn

\* What a machine sees of its disk stays, and the definition follows.
LEMMA DiskStays ==
  ASSUME DiskInv, ImageOK', RestOK', Follow, used' \in used .. used + 1,
         UNCHANGED <<running, wrote, astray>>,
         View(files', back', own', live') = Reads(live)
  PROVE  NamedIsLive' /\ WritesSurvive' /\ RunsWhole'
<1>1. named \in 1 .. used /\ live' \in 1 .. used' /\ used \in Nat
  BY DEF DiskInv, NamedIsLive, ImageOK, Ids
<1>2. NamedIsLive'
  BY <1>1 DEF DiskInv, NamedIsLive, Follow
<1> QED
  BY <1>2 DEF DiskInv, WritesSurvive, RunsWhole, Reads

\* The file a running machine writes to is there.
LEMMA RunningFile ==
  ASSUME DiskInv, running, NEW b \in Blocks
  PROVE  live \in files
<1>1. Unfolds(files, back, own, live, b)
  BY ImagesChained, ViewIs DEF DiskInv
<1>2. View(files, back, own, live)[b] # Missing
  BY DEF DiskInv, RunsWhole, WritesSurvive, Reads
<1> QED
  BY <1>1, <1>2 DEF Unfolds

\* What a file shows can be shown.
LEMMA ReadsType ==
  ASSUME ImageOK, NEW f \in 0 .. MaxFiles
  PROVE  Reads(f) \in [Blocks -> Seen] /\ \A b \in Blocks : Reads(f)[b] # Hole
<1>1. Chained(files, back) /\ own \in [Ids -> [Blocks -> Held]]
  BY ImagesChained DEF ImageOK
<1> QED
  BY <1>1, ViewType DEF Reads

LEMMA WriteStep ==
  ASSUME DiskInv, NEW b \in Blocks, GuestWrites(b)
  PROVE  DiskInv'
<1> USE DiskAssumption DEF DiskInv, GuestWrites
<1>1. live \in files
  BY RunningFile
<1>2. /\ writes + 1 \in 0 .. MaxWrites /\ own' = [own EXCEPT ![live][b] = writes + 1]
      /\ UNCHANGED <<files, used, back, named, live, running, snaps, snap, taken, call, astray>>
  BY DEF RestOK, domainVars, snapVars
<1>3. /\ ImageOK' /\ Ground'
      /\ View(files', back', own', live') = [Reads(live) EXCEPT ![b] = writes + 1]
  BY <1>1, <1>2, WriteEffect DEF WriteTo
<1>4. wrote' \in [Blocks -> Seen] /\ wrote' = [Reads(live) EXCEPT ![b] = writes + 1]
  BY <1>2 DEF RestOK, Seen, WritesSurvive
<1>5. RestOK'
  BY <1>2, <1>4 DEF RestOK
<1>6. RunsWhole'
  BY <1>2, <1>4 DEF RunsWhole, RestOK, WritesSurvive, Missing
<1>7. WritesSurvive'
  BY <1>2, <1>3, <1>4 DEF WritesSurvive, Reads
<1>8. CallsKnow' /\ KeptWhole' /\ NamedIsLive'
  BY <1>2 DEF CallsKnow, KeptWhole, NamedIsLive
<1> QED
  BY <1>3, <1>5, <1>6, <1>7, <1>8

LEMMA MachineStep ==
  ASSUME DiskInv, SwitchOn \/ SwitchOff \/ RunnerRestarts
  PROVE  DiskInv'
<1> USE DiskAssumption DEF DiskInv
<1>1. CASE SwitchOn
  <2> DEFINE D == {c \in Calls : call[c].at = "copy" /\ call[c].overlay = NoFile}
  <2>1. /\ UNCHANGED imageVars /\ UNCHANGED <<named, live, snaps, snap, taken, writes, reverted>>
        /\ ~running /\ running' = TRUE /\ astray' = FALSE /\ Whole(live)
        /\ wrote' = IF astray THEN Reads(live) ELSE wrote
        /\ call' = Crossed(D)
    BY <1>1 DEF SwitchOn, snapVars
  <2> HIDE DEF D
  <2>2. live \in 1 .. used /\ live \in 0 .. MaxFiles
    BY ImagesChained DEF ImageOK
  <2>3. ImageOK' /\ Ground' /\ View(files', back', own', live') = Reads(live)
    BY <2>1, <2>2, ImagesStay
  <2>4. wrote' = Reads(live) /\ wrote' \in [Blocks -> Seen]
    BY <2>1, <2>2, ReadsType DEF WritesSurvive, RestOK
  <2>5. call' \in [Calls -> Call] /\ CallsKnow'
    BY <2>1, CallsMarked
  <2>6. RestOK'
    BY <2>1, <2>4, <2>5 DEF RestOK
  <2>7. WritesSurvive' /\ RunsWhole' /\ NamedIsLive' /\ KeptWhole'
    <3>1. used' = used
      BY <2>1 DEF imageVars
    <3> QED
      BY <2>1, <2>3, <2>4, <3>1 DEF WritesSurvive, RunsWhole, Whole, Reads, NamedIsLive, KeptWhole
  <2> QED
    BY <2>3, <2>5, <2>6, <2>7
<1>2. CASE SwitchOff
  <2>1. /\ UNCHANGED imageVars /\ UNCHANGED <<named, snaps, snap, taken, writes, wrote, reverted, astray>>
        /\ running' = FALSE /\ live' = named
    BY <1>2 DEF SwitchOff, Off, snapVars, guestVars
  <2>2. PICK D : call' = Crossed(D)
    <3>1. call = Crossed({})
      BY CrossedNone DEF RestOK
    <3> QED
      BY <1>2, <3>1 DEF SwitchOff, Off
  <2>3. ImageOK' /\ Ground' /\ View(files', back', own', live') = Reads(named)
    BY <2>1, ImagesStay DEF NamedIsLive
  <2>4. call' \in [Calls -> Call] /\ CallsKnow'
    BY <2>2, CallsMarked
  <2>5. RestOK' /\ RunsWhole' /\ KeptWhole' /\ NamedIsLive'
    <3>1. used' = used
      BY <2>1 DEF imageVars
    <3> QED
      BY <2>1, <2>4, <3>1 DEF RestOK, RunsWhole, KeptWhole, NamedIsLive
  <2>6. WritesSurvive'
    BY <2>1, <2>3 DEF WritesSurvive, NamedIsLive, Reads
  <2> QED
    BY <2>3, <2>4, <2>5, <2>6
<1>3. CASE RunnerRestarts
  <2>1. /\ UNCHANGED imageVars
        /\ UNCHANGED <<named, live, running, snaps, snap, taken, writes, wrote, reverted, astray>>
        /\ call' = [c \in Calls |-> Idle]
    BY <1>3 DEF RunnerRestarts, domainVars, snapVars, guestVars
  <2>2. ImageOK' /\ Ground' /\ View(files', back', own', live') = Reads(live)
    BY <2>1, ImagesStay DEF ImageOK
  <2>3. call' \in [Calls -> Call] /\ CallsKnow'
    BY <2>1, IdleOK DEF CallsKnow
  <2>4. RestOK' /\ KeptWhole'
    BY <2>1, <2>3 DEF RestOK, KeptWhole
  <2>5. Follow /\ used' = used /\ used \in Nat
    BY <2>1 DEF Follow, imageVars, ImageOK, Ids
  <2> QED
    BY <2>1, <2>2, <2>3, <2>4, <2>5, DiskStays
<1> QED
  BY <1>1, <1>2, <1>3

LEMMA SnapshotStep ==
  ASSUME DiskInv, NEW s \in Snaps, SnapshotLive(s) \/ SnapshotInternal(s)
  PROVE  DiskInv'
<1> USE DiskAssumption DEF DiskInv
<1>1. live \in 1 .. used /\ live \in Ids /\ live \in 0 .. MaxFiles /\ used \in 1 .. MaxFiles
      /\ own[live] \in [Blocks -> Held] /\ Reads(live) \in [Blocks -> Seen]
  BY ImagesChained, ReadsType DEF ImageOK, Ids
<1>2. /\ ImageOK' /\ Ground' /\ used' \in used .. used + 1 /\ Follow
      /\ View(files', back', own', live') = Reads(live)
  <2>1. CASE SnapshotLive(s)
    <3>1. Overlay(live) /\ Follow
      BY <2>1 DEF SnapshotLive
    <3>2. used' = used + 1
      BY <3>1 DEF Overlay, NewFile
    <3> QED
      BY <1>1, <3>1, <3>2, OverlayEffect
  <2>2. CASE SnapshotInternal(s)
    BY <1>1, <2>2, ImagesStay DEF SnapshotInternal, domainVars, imageVars, Follow
  <2> QED
    BY <2>1, <2>2
<1>3. PICK r \in Snapshot : /\ snap' = [snap EXCEPT ![s] = r]
                            /\ r.over = NoFile /\ r.under = 1 => \A b \in Blocks : r.kept[b] # Hole
  <2>1. CASE SnapshotLive(s)
    <3>1. used + 1 \in 0 .. MaxFiles /\ used + 1 # NoFile
      BY <1>1, <2>1 DEF SnapshotLive, Overlay, NewFile, NoFile
    <3>2. [over |-> used + 1, under |-> live, kept |-> Nothing, was |-> Reads(live), on |-> FALSE]
            \in Snapshot
      BY <1>1, <3>1, IdleOK DEF Snapshot
    <3> QED
      BY <2>1, <3>1, <3>2 DEF SnapshotLive
  <2>2. CASE SnapshotInternal(s)
    <3>1. [over |-> NoFile, under |-> live, kept |-> own[live], was |-> Reads(live), on |-> running]
            \in Snapshot
      BY <1>1 DEF Snapshot, NoFile, RestOK
    <3> QED
      BY <2>2, <3>1 DEF SnapshotInternal, Ground
  <2> QED
    BY <2>1, <2>2
<1>4. /\ snaps' = snaps \union {s} /\ taken' = s
      /\ UNCHANGED <<running, writes, wrote, reverted, astray>>
  BY DEF SnapshotLive, SnapshotInternal, domainVars, guestVars
<1>5. PICK D : call' = Crossed(D)
  <2>1. call = Crossed({})
    BY CrossedNone DEF RestOK
  <2> QED
    BY <2>1 DEF SnapshotLive, SnapshotInternal
<1>6. call' \in [Calls -> Call] /\ CallsKnow'
  BY <1>5, CallsMarked
<1>7. RestOK'
  <2>1. snap' \in [Snaps -> Snapshot]
    BY <1>3 DEF RestOK
  <2>2. snaps' \subseteq Snaps /\ taken' \in 0 .. MaxSnaps
    BY <1>4 DEF RestOK, Snaps
  <2> QED
    BY <1>4, <1>6, <2>1, <2>2 DEF RestOK
<1>8. KeptWhole'
  BY <1>3, <1>4 DEF KeptWhole, RestOK
<1>9. NamedIsLive' /\ WritesSurvive' /\ RunsWhole'
  BY <1>2, <1>4, <1>7, DiskStays
<1> QED
  BY <1>2, <1>6, <1>7, <1>8, <1>9

LEMMA RevertStep ==
  ASSUME DiskInv, NEW s \in Snaps, RevertInternal(s) \/ RevertExternal(s)
  PROVE  DiskInv'
<1> USE DiskAssumption DEF DiskInv
<1> DEFINE under == snap[s].under
<1>1. /\ under \in files /\ under \in 1 .. used /\ under \in Ids /\ under \in 0 .. MaxFiles
      /\ snap[s].kept \in [Blocks -> Held] /\ s \in snaps /\ snap[s].on \in BOOLEAN
  BY DEF RevertInternal, RevertExternal, RestOK, Snapshot, ImageOK, Ids
<1>2. /\ ImageOK' /\ Ground' /\ wrote' = View(files', back', own', live')
      /\ wrote' \in [Blocks -> Seen]
      /\ running' \in BOOLEAN /\ (running' => \A b \in Blocks : wrote'[b] # Missing)
  <2>1. CASE RevertInternal(s)
    <3>1. /\ own' = [own EXCEPT ![under] = snap[s].kept] /\ live' = under
          /\ UNCHANGED <<files, used, back>>
          /\ wrote' = View(files', back', own', live')
          /\ snap[s].over = NoFile
          /\ running' = snap[s].on /\ (running' => \A b \in Blocks : wrote'[b] # Missing)
      BY <2>1 DEF RevertInternal
    <3>2. ImageOK'
      BY <1>1, <3>1 DEF ImageOK
    <3>3. Ground'
      BY <1>1, <3>1 DEF Ground, Based, ImageOK, Ids, KeptWhole
    <3>4. Chained(files', back') /\ live' \in 0 .. MaxFiles
      BY <3>2, <3>1, ImagesChained DEF ImageOK, Ids
    <3>5. wrote' \in [Blocks -> Seen]
      <4>1. own' \in [Ids -> [Blocks -> Held]]
        BY <3>2 DEF ImageOK
      <4> QED
        BY <3>1, <3>4, <4>1, ViewType
    <3> QED
      BY <1>1, <3>1, <3>2, <3>3, <3>5
  <2>2. CASE RevertExternal(s)
    <3>1. Overlay(under) /\ wrote' = Reads(under) /\ running' = FALSE
      BY <2>2 DEF RevertExternal
    <3>2. ImageOK' /\ Ground' /\ View(files', back', own', live') = Reads(under)
      BY <1>1, <3>1, OverlayEffect
    <3>3. Reads(under) \in [Blocks -> Seen]
      BY <1>1, ReadsType
    <3> QED
      BY <3>1, <3>2, <3>3
  <2> QED
    BY <2>1, <2>2
<1>3. /\ reverted' = s /\ astray' = FALSE /\ named' = live' /\ call' = Crossed(Calls)
      /\ UNCHANGED <<snaps, snap, taken, writes>>
  BY DEF RevertInternal, RevertExternal, snapVars
<1>4. call' \in [Calls -> Call] /\ CallsKnow'
  BY <1>3, CallsMarked
<1>5. RestOK'
  <2>1. reverted' \in 0 .. MaxSnaps /\ astray' \in BOOLEAN
    <3>1. reverted' = s /\ astray' = FALSE
      BY <1>3
    <3>2. reverted' \in 0 .. MaxSnaps
      BY <3>1 DEF Snaps
    <3>3. astray' \in BOOLEAN
      BY <3>1
    <3> QED
      BY <3>2, <3>3
  <2> QED
    BY <1>2, <1>3, <1>4, <2>1 DEF RestOK
<1>6. NamedIsLive'
  <2>1. live' \in 1 .. used'
    BY <1>2 DEF ImageOK
  <2> QED
    BY <1>3, <2>1 DEF NamedIsLive
<1>7. WritesSurvive' /\ RunsWhole' /\ KeptWhole'
  BY <1>2, <1>3 DEF WritesSurvive, RunsWhole, KeptWhole, Reads
<1> QED
  BY <1>2, <1>4, <1>5, <1>6, <1>7

\* A commit of the live machine.
LEMMA CommitStep ==
  ASSUME DiskInv, BlockCommit, NEW o, o # 1, files' = files \ {o}, UNCHANGED <<used, back>>
  PROVE  ImageOK' /\ Ground' /\ View(files', back', own', live') = Reads(live)
<1>1. Whole(live)
  BY DEF DiskInv, BlockCommit, RunsWhole, WritesSurvive, Whole
<1> QED
  BY <1>1, CommitEffect DEF DiskInv

LEMMA DeleteStep ==
  ASSUME DiskInv, NEW s \in Snaps, DeleteMerging(s) \/ DeleteMetadata(s)
  PROVE  DiskInv'
<1> USE DiskAssumption DEF DiskInv
<1>1. /\ ImageOK' /\ Ground'
      /\ View(files', back', own', live') = Reads(live)
  <2>1. CASE DeleteMerging(s)
    BY <2>1, MergeEffect
  <2>2. CASE DeleteMetadata(s)
    <3>1. UNCHANGED <<files, used, back>>
      BY <2>2 DEF DeleteMetadata
    <3>2. CASE UNCHANGED <<own, live>>
      BY <3>1, <3>2, ImagesStay DEF imageVars, ImageOK
    <3>3. CASE BlockCommit
      <4>1. files' = files \ {0}
        BY <3>1 DEF ImageOK
      <4> QED
        BY <3>1, <3>3, <4>1, CommitStep
    <3> QED
      BY <2>2, <3>2, <3>3 DEF DeleteMetadata
  <2> QED
    BY <2>1, <2>2
<1>2. /\ snaps' \subseteq snaps /\ used' = used /\ Follow
      /\ UNCHANGED <<running, taken, writes, wrote, reverted, astray>>
  BY DEF DeleteMerging, DeleteMetadata, Forget, guestVars, snapVars
<1>3. PICK D : call' = Crossed(D)
  <2>1. call = Crossed({})
    BY CrossedNone DEF RestOK
  <2> QED
    BY <2>1 DEF DeleteMerging, DeleteMetadata
<1>4. call' \in [Calls -> Call] /\ CallsKnow'
  BY <1>3, CallsMarked
<1>5. snap' \in [Snaps -> Snapshot] /\ KeptWhole'
  <2>1. CASE DeleteMerging(s)
    <3>1. snap[s].under \in Ids
      BY DEF RestOK, Snapshot
    <3>2. \A t \in Snaps : [snap[t] EXCEPT !.under = snap[s].under] \in Snapshot
      BY <3>1 DEF RestOK, Snapshot
    <3>3. snap' = [t \in Snaps |-> IF snap[t].over # NoFile /\ snap[t].under = snap[s].over
                                   THEN [snap[t] EXCEPT !.under = snap[s].under] ELSE snap[t]]
      BY <2>1 DEF DeleteMerging
    <3>4. snap' \in [Snaps -> Snapshot]
      BY <3>2, <3>3 DEF RestOK
    <3>5. ASSUME NEW t \in snaps', snap'[t].over = NoFile PROVE t \in snaps /\ snap'[t] = snap[t]
      <4>1. t \in snaps /\ t \in Snaps /\ snap[t] \in Snapshot
        BY <1>2, <3>5 DEF RestOK
      <4>2. [snap[t] EXCEPT !.under = snap[s].under].over = snap[t].over
        BY <4>1 DEF Snapshot
      <4> QED
        BY <3>3, <3>5, <4>1, <4>2
    <3> QED
      BY <3>4, <3>5 DEF KeptWhole
  <2>2. CASE DeleteMetadata(s)
    BY <1>2, <2>2 DEF DeleteMetadata, Forget, RestOK, snapVars, KeptWhole
  <2> QED
    BY <2>1, <2>2
<1>6. RestOK'
  <2>1. snaps' \subseteq Snaps
    BY <1>2 DEF RestOK
  <2>2. /\ running' \in BOOLEAN /\ taken' \in 0 .. MaxSnaps /\ astray' \in BOOLEAN
        /\ writes' \in 0 .. MaxWrites /\ wrote' \in [Blocks -> Seen] /\ reverted' \in 0 .. MaxSnaps
    BY <1>2 DEF RestOK
  <2> QED
    BY <1>4, <1>5, <2>1, <2>2 DEF RestOK
<1>7. NamedIsLive' /\ WritesSurvive' /\ RunsWhole'
  <2>1. used' \in used .. used + 1
    BY <1>2 DEF ImageOK, Ids
  <2> QED
    BY <1>1, <1>2, <1>6, <2>1, DiskStays
<1> QED
  BY <1>1, <1>4, <1>5, <1>6, <1>7

LEMMA DestroyStep ==
  ASSUME DiskInv, NEW c \in Calls, NEW s \in Snaps, NEW start \in BOOLEAN,
         RollbackDestroys(c, s, start)
  PROVE  DiskInv'
<1> USE DiskAssumption DEF DiskInv
<1> DEFINE k == [Idle EXCEPT !.at = "revert", !.of = s, !.start = start]
<1>1. /\ running' \in {running, running /\ ~start} /\ live' = IF running' THEN live ELSE named
      /\ UNCHANGED imageVars
      /\ UNCHANGED <<named, snaps, snap, taken, writes, wrote, reverted, astray>>
  BY DEF RollbackDestroys, snapVars, guestVars
<1>2. PICK D : call' = [Crossed(D) EXCEPT ![c] = k]
  <2>1. call = Crossed({})
    BY CrossedNone DEF RestOK
  <2> QED
    BY <2>1 DEF RollbackDestroys
<1>3. k \in Call /\ k.overlay # 1 /\ k.of \in Snaps
  <2>1. s \in 0 .. MaxSnaps
    BY DEF Snaps
  <2>2. k \in Call
    BY <2>1, IdleOK DEF Call
  <2>3. k.overlay = Idle.overlay /\ k.of = s
    BY IdleOK DEF Call
  <2> QED
    BY <2>2, <2>3, IdleOK
<1> HIDE DEF k
<1>4. call' \in [Calls -> Call] /\ CallsKnow'
  BY <1>2, <1>3, CallGoesOn
<1>5. live' \in 1 .. used /\ used' = used
  BY <1>1 DEF NamedIsLive, ImageOK, imageVars
<1>6. ImageOK' /\ Ground' /\ View(files', back', own', live') = Reads(live')
  BY <1>1, <1>5, ImagesStay
<1>7. RestOK' /\ KeptWhole'
  BY <1>1, <1>4 DEF RestOK, KeptWhole
<1>8. WritesSurvive'
  BY <1>1, <1>6 DEF WritesSurvive, NamedIsLive, Reads
<1>9. NamedIsLive' /\ RunsWhole'
  BY <1>1, <1>5 DEF NamedIsLive, RunsWhole
<1> QED
  BY <1>4, <1>6, <1>7, <1>8, <1>9

LEMMA RollbackStep ==
  ASSUME DiskInv, NEW c \in Calls, RollbackEnds(c)
  PROVE  DiskInv'
<1> USE DiskAssumption DEF DiskInv
<1> DEFINE over == snap[call[c].of].over
           start == call[c].start
           CaseOff == /\ ~running
                      /\ live' = named'
                      /\ running' \in {FALSE, start /\ Whole(over)}
                      /\ wrote' = Reads(over)
                      /\ reverted' = IF running' = start THEN call[c].of ELSE 0
                      /\ astray' = FALSE
           CaseOn == /\ running
                     /\ reverted' = 0
                     /\ astray' = TRUE
                     /\ UNCHANGED <<live, running, wrote>>
<1>1. /\ over \in files /\ NewFile(over) /\ named' = used + 1
      /\ CaseOff \/ CaseOn
      /\ call' = [Crossed(Calls) EXCEPT ![c] = Idle]
      /\ UNCHANGED <<snaps, snap, taken, writes>>
  BY DEF RollbackEnds, snapVars
<1>2. call[c].of \in 0 .. MaxSnaps /\ start \in BOOLEAN
  <2>1. call[c] \in Call
    BY DEF RestOK
  <2> QED
    BY <2>1 DEF Call
<1> HIDE DEF over, start
<1>3. over \in 1 .. used /\ over \in 0 .. MaxFiles /\ used \in Nat
  <2>1. over \in files
    BY <1>1
  <2> QED
    BY <2>1 DEF ImageOK, Ids
<1>4. call' \in [Calls -> Call] /\ CallsKnow'
  BY <1>1, CallEnds
<1>5. /\ ImageOK' /\ Ground' /\ View(files', back', own', used + 1) = Reads(over)
      /\ \A g \in 0 .. used : View(files', back', own', g) = Reads(g)
  <2>1. live' \in {live, used + 1}
    BY <1>1
  <2> QED
    BY <1>1, <1>3, <2>1, NewFileEffect
<1>6. KeptWhole' /\ named' \in 1 .. used'
  BY <1>1, <1>3 DEF KeptWhole, NewFile
<1>7. CASE CaseOff
  <2>1. wrote' \in [Blocks -> Seen]
    BY <1>3, <1>7, ReadsType
  <2>2. running' \in BOOLEAN /\ (running' => Whole(over))
    BY <1>2, <1>7, Zenon
  <2>3. reverted' \in 0 .. MaxSnaps /\ astray' \in BOOLEAN
    <3>1. reverted' \in {call[c].of, 0} /\ astray' = FALSE
      BY <1>7
    <3>2. reverted' \in 0 .. MaxSnaps
      BY <1>2, <3>1
    <3>3. astray' \in BOOLEAN
      BY <3>1
    <3> QED
      BY <3>2, <3>3
  <2>4. RestOK'
    BY <1>1, <1>4, <2>1, <2>2, <2>3 DEF RestOK
  <2>5. live' = used + 1 /\ wrote' = Reads(over) /\ live' = named'
    BY <1>1, <1>7
  <2>6. WritesSurvive' /\ RunsWhole' /\ NamedIsLive'
    BY <1>5, <1>6, <2>2, <2>5 DEF WritesSurvive, RunsWhole, Reads, Whole, NamedIsLive
  <2> QED
    BY <1>4, <1>5, <1>6, <2>4, <2>6
<1>8. CASE CaseOn
  <2>1. /\ running /\ reverted' = 0 /\ astray' = TRUE
        /\ live' = live /\ running' = running /\ wrote' = wrote
    BY <1>8
  <2>2. RestOK'
    BY <1>1, <1>4, <2>1 DEF RestOK
  <2>3. View(files', back', own', live') = Reads(live)
    BY <1>5, <2>1 DEF ImageOK
  <2>4. WritesSurvive' /\ RunsWhole' /\ NamedIsLive'
    BY <1>6, <2>1, <2>3 DEF WritesSurvive, RunsWhole, Reads, NamedIsLive
  <2> QED
    BY <1>4, <1>5, <1>6, <2>2, <2>4
<1> QED
  BY <1>1, <1>7, <1>8

\* What a step of a backup makes of its call.
BackupSteps(c) ==
  \/ \E format \in Format, on \in BOOLEAN : BackupBegins(c, format, on)
  \/ Freeze(c)
  \/ \E b \in Blocks : Copy(c, b)
  \/ Thaw(c)
  \/ BackupReturns(c)
  \/ RollbackGivesUp(c)

\* The record of a backup that has begun, frozen or copied a block.
Begun(format, on) ==
  [Idle EXCEPT !.at = IF on THEN "freeze" ELSE "copy", !.format = format, !.source = live,
               !.was = Reads(live), !.crossed = running /\ ~on]
Frozen(c) == [call[c] EXCEPT !.at = "copy", !.overlay = used + 1, !.was = Reads(live)]
Read(c, b) == Reading(call[c].format, call[c].source, b)
OneMore(c, b) == [call[c] EXCEPT !.copied[b] = Read(c, b)]
Stored(c) == [call[c] EXCEPT !.at = "stored"]

LEMMA BegunIs ==
  ASSUME DiskInv, NEW format \in Format, NEW on \in BOOLEAN
  PROVE  LET k == Begun(format, on)
         IN /\ k \in Call /\ k.at = (IF on THEN "freeze" ELSE "copy") /\ k.format = format
            /\ k.source = live /\ k.was = Reads(live) /\ k.crossed = (running /\ ~on)
            /\ k.overlay = NoFile /\ k.copied = [b \in Blocks |-> NotYet]
<1>1. live \in 0 .. MaxFiles /\ Reads(live) \in [Blocks -> Seen] /\ (running /\ ~on) \in BOOLEAN
  BY ImagesChained, ReadsType DEF DiskInv, RestOK
<1> QED
  BY <1>1, IdleOK DEF Begun, Call, NoFile

LEMMA FrozenIs ==
  ASSUME DiskInv, NEW c \in Calls, used < MaxFiles
  PROVE  LET k == Frozen(c)
         IN /\ k \in Call /\ k.at = "copy" /\ k.format = call[c].format
            /\ k.source = call[c].source /\ k.was = Reads(live) /\ k.crossed = call[c].crossed
            /\ k.overlay = used + 1 /\ k.copied = call[c].copied
<1>1. Reads(live) \in [Blocks -> Seen] /\ used + 1 \in 0 .. MaxFiles /\ call[c] \in Call
  BY ImagesChained, ReadsType, DiskAssumption DEF DiskInv, RestOK, ImageOK, Ids
<1> QED
  BY <1>1 DEF Frozen, Call

LEMMA OneMoreIs ==
  ASSUME DiskInv, NEW c \in Calls, NEW b \in Blocks
  PROVE  LET k == OneMore(c, b)
         IN /\ k \in Call /\ k.at = call[c].at /\ k.format = call[c].format
            /\ k.source = call[c].source /\ k.was = call[c].was /\ k.crossed = call[c].crossed
            /\ k.overlay = call[c].overlay /\ k.copied = [call[c].copied EXCEPT ![b] = Read(c, b)]
<1> DEFINE x == Read(c, b)
<1>1. call[c] \in Call /\ call[c].source \in 0 .. MaxFiles
  BY DEF DiskInv, RestOK, Call
<1>2. x \in -3 .. MaxWrites
  <2>1. Reads(call[c].source)[b] \in Seen
    BY <1>1, ReadsType DEF DiskInv
  <2>2. \A f \in files : own[f][b] \in Held
    BY DiskAssumption DEF DiskInv, ImageOK, Ids
  <2> QED
    BY <2>1, <2>2, DiskAssumption DEF Read, Reading, Seen, Held
<1> HIDE DEF x
<1>3. [call[c] EXCEPT !.copied[b] = x] \in Call
  BY <1>1, <1>2 DEF Call
<1>4. OneMore(c, b) = [call[c] EXCEPT !.copied[b] = x]
  BY DEF OneMore, x
<1>5. x = Read(c, b)
  BY DEF x
<1> QED
  BY <1>1, <1>3, <1>4, <1>5 DEF Call

LEMMA StoredIs ==
  ASSUME DiskInv, NEW c \in Calls
  PROVE  LET k == Stored(c)
         IN /\ k \in Call /\ k.at = "stored" /\ k.format = call[c].format
            /\ k.source = call[c].source /\ k.was = call[c].was /\ k.crossed = call[c].crossed
            /\ k.overlay = call[c].overlay /\ k.copied = call[c].copied
<1>1. call[c] \in Call
  BY DEF DiskInv, RestOK
<1> QED
  BY <1>1 DEF Stored, Call

\* The call that freezes is not marked by its own overlay.
LEMMA FrozenCall ==
  ASSUME call \in [Calls -> Call], NEW c \in Calls
  PROVE  [Crossed(Calls \ {c}) EXCEPT
            ![c] = [@ EXCEPT !.at = "copy", !.overlay = used + 1, !.was = Reads(live)]]
           = [Crossed(Calls \ {c}) EXCEPT ![c] = Frozen(c)]
<1>1. Crossed(Calls \ {c})[c] = call[c]
  <2> DEFINE x == call[c].crossed \/ (c \in Calls \ {c} /\ call[c].at \in {"freeze", "copy"})
  <2>1. Crossed(Calls \ {c})[c] = [call[c] EXCEPT !.crossed = x]
    BY DEF Crossed
  <2>2. call[c] \in Call /\ call[c].crossed \in BOOLEAN
    BY DEF Call
  <2>3. x = call[c].crossed
    BY <2>2
  <2> HIDE DEF x
  <2> QED
    BY <2>1, <2>2, <2>3 DEF Call
<1> QED
  BY <1>1 DEF Frozen

LEMMA BackupCall ==
  ASSUME DiskInv, NEW c \in Calls, BackupSteps(c)
  PROVE  \E k \in Call, D \in SUBSET Calls :
           call' = [Crossed(D) EXCEPT ![c] = k] /\ k.overlay # 1 /\ k.at # "revert"
<1> USE DiskAssumption DEF DiskInv
<1>1. call[c].overlay # 1 /\ call = Crossed({}) /\ {} \in SUBSET Calls
  BY CrossedNone DEF RestOK, CallsKnow
<1>2. Idle \in Call /\ Idle.overlay # 1 /\ Idle.at # "revert"
  BY IdleOK
<1>3. ASSUME NEW format \in Format, NEW on \in BOOLEAN, BackupBegins(c, format, on)
      PROVE  \E k \in Call : call' = [call EXCEPT ![c] = k] /\ k.overlay # 1 /\ k.at # "revert"
  <2>1. call' = [call EXCEPT ![c] = Begun(format, on)]
    BY <1>3 DEF BackupBegins, Begun
  <2> DEFINE k == Begun(format, on)
  <2>2. k \in Call /\ k.overlay = NoFile /\ k.at \in {"freeze", "copy"}
    BY BegunIs
  <2>3. call' = [call EXCEPT ![c] = k]
    BY <2>1
  <2> HIDE DEF k
  <2>4. k.overlay # 1 /\ k.at # "revert"
    BY <2>2 DEF NoFile
  <2> QED
    BY <2>2, <2>3, <2>4
<1>4. CASE Freeze(c)
  <2>1. CASE call' = [call EXCEPT ![c] = Idle]
    BY <1>1, <1>2, <2>1
  <2>2. CASE /\ Overlay(live)
             /\ call' = [Crossed(Calls \ {c}) EXCEPT
                           ![c] = [@ EXCEPT !.at = "copy", !.overlay = used + 1, !.was = Reads(live)]]
    <3>1. used < MaxFiles /\ used + 1 # 1
      BY <2>2 DEF Overlay, NewFile, ImageOK, Ids
    <3>2. call' = [Crossed(Calls \ {c}) EXCEPT ![c] = Frozen(c)]
      BY <2>2, FrozenCall DEF RestOK
    <3>3. Frozen(c) \in Call /\ Frozen(c).overlay # 1 /\ Frozen(c).at # "revert"
      BY <3>1, FrozenIs
    <3> QED
      BY <3>2, <3>3
  <2> QED
    BY <1>4, <2>1, <2>2 DEF Freeze
<1>5. ASSUME NEW b \in Blocks, Copy(c, b)
      PROVE  \E k \in Call : call' = [call EXCEPT ![c] = k] /\ k.overlay # 1 /\ k.at # "revert"
  <2>1. call[c].at = "copy" /\ call' = [call EXCEPT ![c] = OneMore(c, b)]
    BY <1>5 DEF Copy, OneMore, Read, RestOK
  <2>2. /\ OneMore(c, b) \in Call /\ OneMore(c, b).at = call[c].at
        /\ OneMore(c, b).overlay = call[c].overlay
    BY OneMoreIs
  <2> QED
    BY <1>1, <2>1, <2>2
<1>6. CASE Thaw(c)
  <2>1. PICK k \in {Stored(c), Idle}, D \in {{}, Calls \ {c}} : call' = [Crossed(D) EXCEPT ![c] = k]
    BY <1>1, <1>6 DEF Thaw, Stored
  <2>2. Stored(c) \in Call /\ Stored(c).overlay # 1 /\ Stored(c).at # "revert"
    BY <1>1, StoredIs
  <2> QED
    BY <1>2, <2>1, <2>2
<1>7. CASE BackupReturns(c) \/ RollbackGivesUp(c)
  BY <1>1, <1>2, <1>7 DEF BackupReturns, RollbackGivesUp
<1> QED
  BY <1>1, <1>3, <1>4, <1>5, <1>6, <1>7 DEF BackupSteps

LEMMA BackupStep ==
  ASSUME DiskInv, NEW c \in Calls, BackupSteps(c)
  PROVE  DiskInv'
<1> USE DiskAssumption DEF DiskInv
<1>1. PICK k \in Call, D \in SUBSET Calls :
        call' = [Crossed(D) EXCEPT ![c] = k] /\ k.overlay # 1 /\ k.at # "revert"
  BY BackupCall
<1>2. call' \in [Calls -> Call] /\ CallsKnow'
  BY <1>1, CallGoesOn
<1>3. UNCHANGED <<running, snaps, snap, taken, writes, wrote, reverted, astray>>
  BY DEF BackupSteps, BackupBegins, Freeze, Copy, Thaw, BackupReturns, RollbackGivesUp,
         domainVars, snapVars, guestVars
<1>4. /\ ImageOK' /\ Ground' /\ View(files', back', own', live') = Reads(live)
      /\ Follow /\ used' \in used .. used + 1
  <2>0. used \in Nat /\ live \in 1 .. used
    BY DEF ImageOK, Ids
  <2>1. CASE UNCHANGED <<imageVars, named, live>>
    BY <2>0, <2>1, ImagesStay DEF Follow, imageVars
  <2>2. CASE Overlay(live) /\ Follow
    <3>1. used' = used + 1
      BY <2>2 DEF Overlay, NewFile
    <3> QED
      BY <2>0, <2>2, <3>1, OverlayEffect
  <2>3. CASE Thaw(c)
    <3>1. PICK pivoted \in BOOLEAN :
            /\ IF pivoted /\ call[c].overlay # NoFile THEN BlockCommit ELSE UNCHANGED <<own, live>>
            /\ files' = AfterThaw(call[c].overlay, pivoted)
            /\ Follow
      BY <2>3 DEF Thaw
    <3>2. UNCHANGED <<used, back>>
      BY <2>3 DEF Thaw
    <3>3. CASE pivoted /\ call[c].overlay # NoFile
      <4>1. files' = files \ {call[c].overlay} /\ call[c].overlay # 1
        BY <3>1, <3>3 DEF AfterThaw, CallsKnow
      <4>2. BlockCommit /\ Follow
        BY <3>1, <3>3
      <4>3. ImageOK' /\ Ground' /\ View(files', back', own', live') = Reads(live)
        BY <3>2, <4>1, <4>2, CommitStep
      <4> QED
        BY <2>0, <3>2, <4>2, <4>3
    <3>4. CASE ~ (pivoted /\ call[c].overlay # NoFile)
      <4>1. 0 \notin files
        BY DEF ImageOK
      <4>2. files' = files
        BY <3>1, <3>4, <4>1 DEF AfterThaw, NoFile
      <4>3. UNCHANGED imageVars /\ live' = live /\ Follow
        BY <3>1, <3>2, <3>4, <4>2 DEF imageVars
      <4>4. live' \in 1 .. used /\ used' = used
        BY <2>0, <3>2, <4>3
      <4> QED
        BY <2>0, <4>3, <4>4, ImagesStay
    <3> QED
      BY <3>3, <3>4
  <2> QED
    BY <2>1, <2>2, <2>3 DEF BackupSteps, BackupBegins, Freeze, Copy, BackupReturns,
                            RollbackGivesUp, domainVars, imageVars
<1>5. RestOK' /\ KeptWhole'
  BY <1>2, <1>3 DEF RestOK, KeptWhole
<1> QED
  BY <1>2, <1>3, <1>4, <1>5, DiskStays

LEMMA DiskStep == DiskInv /\ [Next]_vars => DiskInv'
<1> SUFFICES ASSUME DiskInv, [Next]_vars PROVE DiskInv'
  OBVIOUS
<1>1. ASSUME NEW b \in Blocks, GuestWrites(b) PROVE DiskInv'
  BY <1>1, WriteStep
<1>2. CASE SwitchOn \/ SwitchOff \/ RunnerRestarts
  BY <1>2, MachineStep
<1>3. ASSUME NEW s \in Snaps, SnapshotLive(s) \/ SnapshotInternal(s)
      PROVE  DiskInv'
  BY <1>3, SnapshotStep
<1>4. ASSUME NEW s \in Snaps, RevertInternal(s) \/ RevertExternal(s)
      PROVE  DiskInv'
  BY <1>4, RevertStep
<1>5. ASSUME NEW s \in Snaps, DeleteMerging(s) \/ DeleteMetadata(s)
      PROVE  DiskInv'
  BY <1>5, DeleteStep
<1>6. ASSUME NEW s \in Snaps, NEW c \in Calls, NEW start \in BOOLEAN, RollbackDestroys(c, s, start)
      PROVE  DiskInv'
  BY <1>6, DestroyStep
<1>7. ASSUME NEW c \in Calls, RollbackEnds(c)
      PROVE  DiskInv'
  BY <1>7, RollbackStep
<1>8. ASSUME NEW c \in Calls, BackupSteps(c)
      PROVE  DiskInv'
  BY <1>8, BackupStep
<1>9. CASE UNCHANGED vars
  BY <1>9 DEF DiskInv, ImageOK, Ground, Based, RestOK, NamedIsLive, WritesSurvive, RunsWhole,
              CallsKnow, KeptWhole, Reads, vars, imageVars, domainVars, snapVars, guestVars
<1> QED
  BY <1>1, <1>2, <1>3, <1>4, <1>5, <1>6, <1>7, <1>8, <1>9 DEF Next, BackupSteps

\* The disk and its calls keep the invariant, whichever calls run at once.
THEOREM DiskInvariant == Spec => []DiskInv
<1>1. Init => DiskInv
  BY DiskInit
<1>2. DiskInv /\ [Next]_vars => DiskInv'
  BY DiskStep
<1> QED
  BY <1>1, <1>2, PTL DEF Spec

\* Every variable has its type, and a file lies on an older one.
THEOREM TypeCorrect == Spec => []TypeOK
<1>1. DiskInv => TypeOK
  BY DEF DiskInv, ImageOK, RestOK, NamedIsLive, TypeOK
<1> QED
  BY <1>1, DiskInvariant, PTL

\* The disk shows what the guest wrote or got back, whatever calls, failures
\* and restarts come in between, until a machine that a rollback redefined
\* while it ran goes off.
THEOREM NoWriteIsLost == Spec => []WritesSurvive
<1>1. DiskInv => WritesSurvive
  BY DEF DiskInv
<1> QED
  BY <1>1, DiskInvariant, PTL

-------------------------------------------------------------------------------
(* Backups.                                                                *)

\* An archive of a file that lies on another lacks what that one holds.
Lacks(k, b) == k.format = "tar" /\ k.source # 1 /\ k.copied[b] = Hole

\* While a backup is copied and nobody else moves the disk, the file it reads
\* shows what the guest had when the copy began: the machine is off, or writes
\* to the overlay above.
Copied(c) ==
  LET k == call[c]
  IN ~ k.crossed =>
       /\ k.at = "freeze" => k.source = live /\ k.copied = [b \in Blocks |-> NotYet]
       /\ k.at = "copy" =>
            /\ k.source \in 1 .. used
            /\ Reads(k.source) = k.was
            /\ \A b \in Blocks : k.copied[b] \in {NotYet, k.was[b]} \/ Lacks(k, b)
            /\ IF k.overlay = NoFile THEN ~ running ELSE live = k.overlay /\ k.source < k.overlay
       /\ k.at = "stored" =>
            /\ k.source \in 1 .. used
            /\ \A b \in Blocks : k.copied[b] = k.was[b] \/ Lacks(k, b)

CopyInv == DiskInv /\ \A c \in Calls : Copied(c)

\* A call that does not back anything up.
LEMMA NoCopy ==
  ASSUME NEW c \in Calls, call'[c].at \notin {"freeze", "copy", "stored"}
  PROVE  Copied(c)'
  BY DEF Copied

LEMMA CopyInit == Init => CopyInv
<1> SUFFICES ASSUME Init, NEW c \in Calls PROVE Copied(c)
  BY DiskInit DEF CopyInv
<1>1. call[c].at = "idle"
  BY IdleOK DEF Init
<1> QED
  BY <1>1 DEF Copied

\* A backup that is marked, is copied, or finds its file and the disk as they were.
LEMMA CopyKept ==
  ASSUME DiskInv, NEW c \in Calls, Copied(c), Same(call'[c], call[c]),
         call[c].crossed => call'[c].crossed, used' \in used .. used + 1,
         \/ call'[c].crossed
         \/ call[c].at \notin {"freeze", "copy"}
         \/ /\ live' = live
            /\ call[c].at = "copy" =>
                 /\ View(files', back', own', call[c].source) = Reads(call[c].source)
                 /\ call[c].overlay = NoFile /\ ~ running => ~ running'
  PROVE  Copied(c)'
<1> SUFFICES ASSUME ~ call'[c].crossed PROVE Copied(c)'
  BY DEF Copied
<1>1. used \in Nat /\ used' \in Nat /\ used <= used'
  BY DEF DiskInv, ImageOK, Ids
<1>2. \A b \in Blocks : Lacks(call[c], b) => Lacks(call'[c], b)
  BY DEF Lacks, Same
<1>3. CASE call[c].at = "freeze"
  BY <1>3 DEF Copied, Same
<1>4. CASE call[c].at = "copy"
  <2>1. /\ call[c].source \in 1 .. used /\ Reads(call[c].source) = call[c].was
        /\ \A b \in Blocks : call[c].copied[b] \in {NotYet, call[c].was[b]} \/ Lacks(call[c], b)
        /\ IF call[c].overlay = NoFile THEN ~ running
           ELSE live = call[c].overlay /\ call[c].source < call[c].overlay
    BY <1>4 DEF Copied
  <2>2. /\ call'[c].at = "copy" /\ call'[c].source \in 1 .. used'
        /\ View(files', back', own', call'[c].source) = call'[c].was
    BY <1>1, <1>4, <2>1 DEF Same
  <2>3. \A b \in Blocks : call'[c].copied[b] \in {NotYet, call'[c].was[b]} \/ Lacks(call'[c], b)
    BY <1>2, <2>1 DEF Same
  <2>4. IF call'[c].overlay = NoFile THEN ~ running'
        ELSE live' = call'[c].overlay /\ call'[c].source < call'[c].overlay
    BY <1>4, <2>1 DEF Same
  <2> QED
    BY <2>2, <2>3, <2>4 DEF Copied, Reads
<1>5. CASE call[c].at = "stored"
  BY <1>1, <1>2, <1>5 DEF Copied, Same
<1>6. CASE call[c].at \notin {"freeze", "copy", "stored"}
  BY <1>6, NoCopy DEF Same
<1> QED
  BY <1>3, <1>4, <1>5, <1>6

\* One that somebody else marks.
LEMMA CopyMarked ==
  ASSUME DiskInv, NEW c \in Calls, Copied(c), NEW D, c \in D, call'[c] = Crossed(D)[c],
         used' \in used .. used + 1
  PROVE  Copied(c)'
<1>1. /\ Same(call'[c], call[c])
      /\ call'[c].crossed = (call[c].crossed \/ (c \in D /\ call[c].at \in {"freeze", "copy"}))
  BY CrossedCalls DEF DiskInv, RestOK
<1>2. call'[c].crossed \/ call[c].at \notin {"freeze", "copy"}
  BY <1>1
<1>3. call[c].crossed => call'[c].crossed
  BY <1>1
<1> QED
  BY <1>1, <1>2, <1>3, CopyKept

\* One that nobody touches.
LEMMA CopyUntouched ==
  ASSUME DiskInv, NEW c \in Calls, Copied(c), call'[c] = call[c],
         UNCHANGED imageVars, live' = live, ~ running => ~ running'
  PROVE  Copied(c)'
<1>1. /\ Same(call'[c], call[c]) /\ (call[c].crossed => call'[c].crossed)
      /\ used' \in used .. used + 1
      /\ View(files', back', own', call[c].source) = Reads(call[c].source)
  BY DEF Same, imageVars, DiskInv, ImageOK, Ids, Reads
<1> QED
  BY <1>1, CopyKept

\* The machine as a backup under way meets it.
LEMMA CopyAndMachine ==
  ASSUME DiskInv, NEW c \in Calls, Copied(c),
         (\E b \in Blocks : GuestWrites(b)) \/ SwitchOn \/ SwitchOff \/ RunnerRestarts
  PROVE  Copied(c)'
<1>1. used \in Nat /\ live \in 1 .. used /\ call \in [Calls -> Call]
  BY DEF DiskInv, ImageOK, RestOK, Ids
<1>2. ASSUME NEW b \in Blocks, GuestWrites(b) PROVE Copied(c)'
  <2>1. /\ running /\ own' = [own EXCEPT ![live][b] = writes + 1]
        /\ UNCHANGED <<files, used, back, live, running, call>>
    BY <1>2 DEF GuestWrites, domainVars
  <2>2. writes + 1 \in 0 .. MaxWrites
    BY <1>2, DiskAssumption DEF GuestWrites, DiskInv, RestOK
  <2>3. \A g \in 0 .. live - 1 : View(files', back', own', g) = Reads(g)
    BY <1>2, <2>1, <2>2, WriteEffect, RunningFile DEF DiskInv, WriteTo
  <2>4. CASE call[c].crossed \/ call[c].at # "copy"
    <3>1. /\ Same(call'[c], call[c]) /\ (call[c].crossed => call'[c].crossed)
          /\ used' \in used .. used + 1
      BY <1>1, <2>1 DEF Same
    <3> QED
      BY <2>1, <2>4, <3>1, CopyKept
  <2>5. CASE ~ call[c].crossed /\ call[c].at = "copy"
    <3>1. call[c].source \in 0 .. live - 1
      BY <1>1, <2>1, <2>5 DEF Copied
    <3>2. View(files', back', own', call[c].source) = Reads(call[c].source)
      BY <2>3, <3>1
    <3>3. /\ Same(call'[c], call[c]) /\ (call[c].crossed => call'[c].crossed)
          /\ used' \in used .. used + 1
      BY <1>1, <2>1 DEF Same
    <3> QED
      BY <2>1, <3>2, <3>3, CopyKept
  <2> QED
    BY <2>4, <2>5
<1>3. CASE SwitchOn
  <2> DEFINE D == {d \in Calls : call[d].at = "copy" /\ call[d].overlay = NoFile}
  <2>1. call' = Crossed(D) /\ UNCHANGED imageVars /\ live' = live
    BY <1>3 DEF SwitchOn
  <2>2. used' \in used .. used + 1
    BY <1>1, <2>1 DEF imageVars
  <2>3. CASE c \in D
    <3> HIDE DEF D
    <3> QED
      BY <2>1, <2>2, <2>3, CopyMarked
  <2>4. CASE c \notin D
    <3>1. ~ (call[c].at = "copy" /\ call[c].overlay = NoFile)
      BY <2>4
    <3> HIDE DEF D
    <3>2. Same(call'[c], call[c]) /\ (call[c].crossed => call'[c].crossed)
      BY <1>1, <2>1, CrossedCalls
    <3>3. View(files', back', own', call[c].source) = Reads(call[c].source)
      BY <2>1 DEF imageVars, Reads
    <3> QED
      BY <2>1, <2>2, <3>1, <3>2, <3>3, CopyKept
  <2> QED
    BY <2>3, <2>4
<1>4. CASE SwitchOff
  <2>1. /\ UNCHANGED imageVars /\ ~ running' /\ live' = named
        /\ call' = IF named = live THEN call ELSE Crossed(Calls)
    BY <1>4 DEF SwitchOff, Off
  <2>2. CASE named = live
    BY <2>1, <2>2, CopyUntouched
  <2>3. CASE named # live
    <3>1. used' \in used .. used + 1
      BY <1>1, <2>1 DEF imageVars
    <3> QED
      BY <2>1, <2>3, <3>1, CopyMarked
  <2> QED
    BY <2>2, <2>3
<1>5. CASE RunnerRestarts
  <2>1. call'[c].at = "idle"
    BY <1>5, IdleOK DEF RunnerRestarts
  <2> QED
    BY <2>1, NoCopy
<1> QED
  BY <1>2, <1>3, <1>4, <1>5

\* Calls about a snapshot either move the disk, and mark the backups, or leave
\* the images alone.
LEMMA CopyAndSnapshot ==
  ASSUME DiskInv, NEW c \in Calls, Copied(c), NEW s \in Snaps,
         \/ SnapshotLive(s) \/ SnapshotInternal(s) \/ RevertInternal(s) \/ RevertExternal(s)
         \/ DeleteMerging(s) \/ DeleteMetadata(s)
  PROVE  Copied(c)'
<1>1. used \in Nat
  BY DEF DiskInv, ImageOK, Ids
<1>2. CASE SnapshotInternal(s)
  BY <1>2, CopyUntouched DEF SnapshotInternal, domainVars
<1>3. CASE \/ SnapshotLive(s) \/ RevertInternal(s) \/ RevertExternal(s) \/ DeleteMerging(s)
           \/ (DeleteMetadata(s) /\ call' = Crossed(Calls))
  <2>1. call' = Crossed(Calls) /\ (used' = used \/ used' = used + 1)
    BY <1>3 DEF SnapshotLive, RevertInternal, RevertExternal, DeleteMerging, DeleteMetadata, Overlay,
                NewFile
  <2> QED
    BY <1>1, <2>1, CopyMarked
<1>4. CASE DeleteMetadata(s) /\ UNCHANGED <<own, live, call>>
  BY <1>4, CopyUntouched DEF DeleteMetadata, imageVars
<1> QED
  BY <1>2, <1>3, <1>4 DEF DeleteMetadata

\* So do the calls that roll back.
LEMMA CopyAndRollback ==
  ASSUME DiskInv, NEW c \in Calls, Copied(c), NEW d \in Calls,
         \/ \E s \in Snaps, start \in BOOLEAN : RollbackDestroys(d, s, start)
         \/ RollbackGivesUp(d) \/ RollbackEnds(d)
  PROVE  Copied(c)'
<1>1. used \in Nat /\ call \in [Calls -> Call] /\ Crossed(Calls) \in [Calls -> Call]
  BY CrossedCalls DEF DiskInv, ImageOK, RestOK, Ids
<1>2. ASSUME NEW s \in Snaps, NEW start \in BOOLEAN, RollbackDestroys(d, s, start) PROVE Copied(c)'
  <2> DEFINE k == [Idle EXCEPT !.at = "revert", !.of = s, !.start = start]
  <2>1. /\ UNCHANGED imageVars /\ running' \in {running, running /\ ~start}
        /\ call' = [(IF live' = live THEN call ELSE Crossed(Calls)) EXCEPT ![d] = k]
    BY <1>2 DEF RollbackDestroys
  <2>2. k.at = "revert"
    BY DEF Idle
  <2> HIDE DEF k
  <2>3. CASE c = d
    <3>1. call'[c] = k
      BY <1>1, <2>1, <2>3
    <3> QED
      BY <2>2, <3>1, NoCopy
  <2>4. CASE c # d /\ live' = live
    <3>1. call'[c] = call[c]
      BY <1>1, <2>1, <2>4
    <3>2. ~ running => ~ running'
      BY <2>1
    <3> QED
      BY <2>1, <2>4, <3>1, <3>2, CopyUntouched
  <2>5. CASE c # d /\ live' # live
    <3>1. call'[c] = Crossed(Calls)[c] /\ used' \in used .. used + 1
      BY <1>1, <2>1, <2>5 DEF imageVars
    <3> QED
      BY <3>1, CopyMarked
  <2> QED
    BY <2>3, <2>4, <2>5
<1>3. CASE RollbackGivesUp(d)
  <2>1. CASE c = d
    <3>1. call'[c].at = "idle"
      BY <1>1, <1>3, <2>1, IdleOK DEF RollbackGivesUp
    <3> QED
      BY <3>1, NoCopy
  <2>2. CASE c # d
    BY <1>1, <1>3, <2>2, CopyUntouched DEF RollbackGivesUp, domainVars
  <2> QED
    BY <2>1, <2>2
<1>4. CASE RollbackEnds(d)
  <2>1. call' = [Crossed(Calls) EXCEPT ![d] = Idle] /\ used' \in used .. used + 1
    BY <1>1, <1>4 DEF RollbackEnds, NewFile
  <2>2. CASE c = d
    <3>1. call'[c].at = "idle"
      BY <1>1, <2>1, <2>2, IdleOK
    <3> QED
      BY <3>1, NoCopy
  <2>3. CASE c # d
    <3>1. call'[c] = Crossed(Calls)[c]
      BY <1>1, <2>1, <2>3
    <3> QED
      BY <2>1, <3>1, CopyMarked
  <2> QED
    BY <2>2, <2>3
<1> QED
  BY <1>2, <1>3, <1>4

\* A step of the backup itself.
LEMMA CopyAndItself ==
  ASSUME DiskInv, NEW c \in Calls, Copied(c), BackupSteps(c)
  PROVE  Copied(c)'
<1>1. /\ call \in [Calls -> Call] /\ call[c] \in Call /\ live \in 1 .. used /\ used \in Nat
      /\ \A D : Crossed(D) \in [Calls -> Call]
  BY CrossedCalls DEF DiskInv, RestOK, ImageOK, Ids
<1>2. ASSUME NEW f \in [Calls -> Call], call' = [f EXCEPT ![c] = Idle] PROVE Copied(c)'
  <2>1. call'[c].at = "idle"
    BY <1>2, IdleOK
  <2> QED
    BY <2>1, NoCopy
<1>3. ASSUME NEW format \in Format, NEW on \in BOOLEAN, BackupBegins(c, format, on)
      PROVE  Copied(c)'
  <2> DEFINE k == Begun(format, on)
  <2>1. call'[c] = k /\ UNCHANGED <<files, used, back, own, live, running>>
    BY <1>1, <1>3 DEF BackupBegins, Begun, imageVars, domainVars
  <2>2. /\ k.at = (IF on THEN "freeze" ELSE "copy") /\ k.source = live /\ k.was = Reads(live)
        /\ k.crossed = (running /\ ~on) /\ k.overlay = NoFile
        /\ k.copied = [b \in Blocks |-> NotYet]
    BY BegunIs
  <2> HIDE DEF k
  <2>3. \A b \in Blocks : k.copied[b] = NotYet
    BY <2>2
  <2> QED
    BY <1>1, <2>1, <2>2, <2>3 DEF Copied, Reads
<1>4. CASE Freeze(c)
  <2>1. CASE call' = [call EXCEPT ![c] = Idle]
    BY <1>1, <1>2, <2>1
  <2>2. CASE /\ Overlay(live)
             /\ call' = [Crossed(Calls \ {c}) EXCEPT
                           ![c] = [@ EXCEPT !.at = "copy", !.overlay = used + 1, !.was = Reads(live)]]
    <3> DEFINE k == Frozen(c)
    <3>1. call' = [Crossed(Calls \ {c}) EXCEPT ![c] = k]
      BY <1>1, <2>2, FrozenCall
    <3>2. used < MaxFiles /\ live' = used + 1 /\ used' = used + 1
      BY <2>2 DEF Overlay, NewFile
    <3>3. /\ k.at = "copy" /\ k.source = call[c].source /\ k.was = Reads(live)
          /\ k.crossed = call[c].crossed /\ k.overlay = used + 1 /\ k.copied = call[c].copied
      BY <3>2, FrozenIs
    <3> HIDE DEF k
    <3>4. call'[c] = k
      BY <1>1, <3>1
    <3>5. ~ call[c].crossed => call[c].source = live /\ call[c].copied = [b \in Blocks |-> NotYet]
      BY <1>4 DEF Freeze, Copied
    <3>6. View(files', back', own', live) = Reads(live)
      BY <1>1, <2>2, OverlayEffect DEF DiskInv
    <3>7. ~ k.crossed => \A b \in Blocks : k.copied[b] = NotYet
      BY <3>3, <3>5
    <3> QED
      BY <1>1, <3>2, <3>3, <3>4, <3>5, <3>6, <3>7 DEF Copied, Reads, NoFile
  <2> QED
    BY <1>4, <2>1, <2>2 DEF Freeze
<1>5. ASSUME NEW b \in Blocks, Copy(c, b) PROVE Copied(c)'
  <2> DEFINE k == OneMore(c, b)
  <2>1. /\ call[c].at = "copy" /\ UNCHANGED <<files, used, back, own, live, running>>
        /\ call'[c] = k
    BY <1>1, <1>5 DEF Copy, OneMore, Read, imageVars, domainVars
  <2>2. /\ k.at = call[c].at /\ k.format = call[c].format /\ k.source = call[c].source
        /\ k.was = call[c].was /\ k.crossed = call[c].crossed /\ k.overlay = call[c].overlay
        /\ k.copied = [call[c].copied EXCEPT ![b] = Read(c, b)]
    BY OneMoreIs
  <2> HIDE DEF k
  <2> SUFFICES ASSUME ~ call[c].crossed PROVE Copied(c)'
    BY <2>1, <2>2 DEF Copied
  <2>3. /\ call[c].source \in 1 .. used /\ Reads(call[c].source) = call[c].was
        /\ \A d \in Blocks : call[c].copied[d] \in {NotYet, call[c].was[d]} \/ Lacks(call[c], d)
        /\ IF call[c].overlay = NoFile THEN ~ running
           ELSE live = call[c].overlay /\ call[c].source < call[c].overlay
    BY <2>1 DEF Copied
  <2>4. call[c].copied \in [Blocks -> -3 .. MaxWrites]
    BY <1>1 DEF Call
  <2>5. \/ Read(c, b) = call[c].was[b]
        \/ call[c].format = "tar" /\ call[c].source # 1 /\ Read(c, b) = Hole
    <3>1. Unfolds(files, back, own, call[c].source, b)
      <4>1. call[c].source \in 0 .. MaxFiles /\ Chained(files, back)
        BY <2>3, ImagesChained, DiskAssumption DEF DiskInv, ImageOK, Ids
      <4> QED
        BY <4>1, ViewIs
    <3>2. own[1][b] # Hole
      BY DEF DiskInv, Ground
    <3> QED
      BY <2>3, <3>1, <3>2 DEF Read, Reading, Unfolds, Reads
  <2>6. \A d \in Blocks : k.copied[d] = IF d = b THEN Read(c, b) ELSE call[c].copied[d]
    BY <2>2, <2>4
  <2>7. \A d \in Blocks : k.copied[d] \in {NotYet, k.was[d]} \/ Lacks(k, d)
    BY <2>2, <2>3, <2>5, <2>6 DEF Lacks
  <2> QED
    BY <2>1, <2>2, <2>3, <2>7 DEF Copied, Reads
<1>6. CASE Thaw(c)
  <2>1. PICK D \in {{}, Calls \ {c}} :
          \/ call' = [Crossed(D) EXCEPT ![c] = Idle]
          \/ Made(c) /\ call' = [Crossed(D) EXCEPT ![c] = Stored(c)]
    <3>1. call = Crossed({})
      BY <1>1, CrossedNone
    <3> QED
      BY <1>6, <3>1 DEF Thaw, Stored
  <2>2. CASE call' = [Crossed(D) EXCEPT ![c] = Idle]
    BY <1>1, <1>2, <2>2
  <2>3. CASE Made(c) /\ call' = [Crossed(D) EXCEPT ![c] = Stored(c)]
    <3> DEFINE k == Stored(c)
    <3>1. /\ k.at = "stored" /\ k.format = call[c].format /\ k.source = call[c].source
          /\ k.was = call[c].was /\ k.crossed = call[c].crossed /\ k.copied = call[c].copied
      BY StoredIs
    <3>2. call'[c] = k
      BY <1>1, <2>3
    <3> HIDE DEF k
    <3>3. ~ call[c].crossed =>
            /\ call[c].source \in 1 .. used
            /\ \A b \in Blocks : call[c].copied[b] = call[c].was[b] \/ Lacks(call[c], b)
      BY <1>6, <2>3 DEF Thaw, Made, Copied
    <3>4. \A b \in Blocks : Lacks(call[c], b) => Lacks(k, b)
      BY <3>1 DEF Lacks
    <3>5. used' = used
      BY <1>6 DEF Thaw
    <3> QED
      BY <3>1, <3>2, <3>3, <3>4, <3>5 DEF Copied
  <2> QED
    BY <2>1, <2>2, <2>3
<1>7. CASE BackupReturns(c) \/ RollbackGivesUp(c)
  BY <1>1, <1>2, <1>7 DEF BackupReturns, RollbackGivesUp
<1> QED
  BY <1>3, <1>4, <1>5, <1>6, <1>7 DEF BackupSteps

\* A step of another backup, which marks this one if it moves the disk.
LEMMA CopyAndBackup ==
  ASSUME DiskInv, NEW c \in Calls, Copied(c), NEW d \in Calls, d # c, BackupSteps(d)
  PROVE  Copied(c)'
<1>1. /\ call \in [Calls -> Call] /\ used \in Nat /\ 0 \notin files
      /\ \A D : Crossed(D) \in [Calls -> Call]
  BY CrossedCalls DEF DiskInv, RestOK, ImageOK, Ids
<1>2. ASSUME NEW k, call' = [call EXCEPT ![d] = k],
             UNCHANGED imageVars, live' = live, running' = running
      PROVE  Copied(c)'
  <2>1. call'[c] = call[c]
    BY <1>1, <1>2
  <2> QED
    BY <1>2, <2>1, CopyUntouched
<1>3. ASSUME NEW k, call' = [Crossed(Calls \ {d}) EXCEPT ![d] = k], used' = used \/ used' = used + 1
      PROVE  Copied(c)'
  <2>1. call'[c] = Crossed(Calls \ {d})[c] /\ c \in Calls \ {d} /\ used' \in used .. used + 1
    BY <1>1, <1>3
  <2> QED
    BY <2>1, CopyMarked
<1>4. CASE Freeze(d)
  <2>1. CASE call' = [call EXCEPT ![d] = Idle] /\ UNCHANGED <<imageVars, named, live>>
    BY <1>2, <1>4, <2>1 DEF Freeze
  <2>2. CASE /\ Overlay(live)
             /\ call' = [Crossed(Calls \ {d}) EXCEPT
                           ![d] = [@ EXCEPT !.at = "copy", !.overlay = used + 1, !.was = Reads(live)]]
    <3>1. call' = [Crossed(Calls \ {d}) EXCEPT ![d] = Frozen(d)]
      BY <1>1, <2>2, FrozenCall
    <3>2. used' = used + 1
      BY <2>2 DEF Overlay, NewFile
    <3> QED
      BY <1>3, <3>1, <3>2
  <2> QED
    BY <1>4, <2>1, <2>2 DEF Freeze
<1>5. CASE Thaw(d)
  <2>1. PICK pivoted \in BOOLEAN, k \in {Idle, Stored(d)} :
          LET commits == pivoted /\ call[d].overlay # NoFile
          IN /\ IF commits THEN BlockCommit ELSE UNCHANGED <<own, live>>
             /\ files' = AfterThaw(call[d].overlay, pivoted)
             /\ call' = [(IF commits THEN Crossed(Calls \ {d}) ELSE call) EXCEPT ![d] = k]
    BY <1>5 DEF Thaw, Stored
  <2>2. UNCHANGED <<used, back, running>>
    BY <1>5 DEF Thaw
  <2>3. CASE pivoted /\ call[d].overlay # NoFile
    BY <1>3, <2>1, <2>2, <2>3
  <2>4. CASE ~ (pivoted /\ call[d].overlay # NoFile)
    <3>1. files' = files
      BY <1>1, <2>1, <2>4 DEF AfterThaw, NoFile
    <3>2. UNCHANGED imageVars /\ live' = live /\ running' = running
      BY <2>1, <2>2, <2>4, <3>1 DEF imageVars
    <3>3. call' = [call EXCEPT ![d] = k]
      BY <2>1, <2>4
    <3> QED
      BY <1>2, <3>2, <3>3
  <2> QED
    BY <2>3, <2>4
<1>6. ASSUME \/ \E format \in Format, on \in BOOLEAN : BackupBegins(d, format, on)
             \/ \E b \in Blocks : Copy(d, b)
             \/ BackupReturns(d) \/ RollbackGivesUp(d)
      PROVE  Copied(c)'
  <2>1. call'[c] = call[c] /\ UNCHANGED imageVars /\ live' = live /\ running' = running
    BY <1>1, <1>6 DEF BackupBegins, Copy, BackupReturns, RollbackGivesUp, domainVars
  <2> QED
    BY <2>1, CopyUntouched
<1> QED
  BY <1>4, <1>5, <1>6 DEF BackupSteps

LEMMA CopyStep == CopyInv /\ [Next]_vars => CopyInv'
<1> SUFFICES ASSUME CopyInv, [Next]_vars, NEW c \in Calls PROVE Copied(c)'
  BY DiskStep DEF CopyInv
<1>1. DiskInv /\ Copied(c)
  BY DEF CopyInv
<1>2. CASE (\E b \in Blocks : GuestWrites(b)) \/ SwitchOn \/ SwitchOff \/ RunnerRestarts
  BY <1>1, <1>2, CopyAndMachine
<1>3. ASSUME NEW s \in Snaps,
             \/ SnapshotLive(s) \/ SnapshotInternal(s) \/ RevertInternal(s) \/ RevertExternal(s)
             \/ DeleteMerging(s) \/ DeleteMetadata(s)
      PROVE  Copied(c)'
  BY <1>1, <1>3, CopyAndSnapshot
<1>4. ASSUME NEW d \in Calls,
             \/ \E s \in Snaps, start \in BOOLEAN : RollbackDestroys(d, s, start)
             \/ RollbackGivesUp(d) \/ RollbackEnds(d)
      PROVE  Copied(c)'
  BY <1>1, <1>4, CopyAndRollback
<1>5. ASSUME NEW d \in Calls, BackupSteps(d) PROVE Copied(c)'
  BY <1>1, <1>5, CopyAndItself, CopyAndBackup
<1>6. CASE UNCHANGED vars
  BY <1>1, <1>6, CopyUntouched DEF vars, domainVars
<1> QED
  BY <1>2, <1>3, <1>4, <1>5, <1>6 DEF Next, BackupSteps

\* A backup that is reported, and that no other call and no start of the machine
\* has crossed, holds what the guest had at one moment, whatever the guest writes
\* meanwhile and wherever the machine stops; only an archive may lack blocks,
\* those of the files below the one it holds.
THEOREM BackupsAreOfOneMoment == Spec => []BackupIsPointInTime
<1>1. Init => CopyInv
  BY CopyInit
<1>2. CopyInv /\ [Next]_vars => CopyInv'
  BY CopyStep
<1>3. CopyInv => BackupIsPointInTime
  <2> SUFFICES ASSUME CopyInv, NEW c \in Calls, call[c].at = "stored", ~ call[c].crossed,
                      NEW b \in Blocks
               PROVE  \/ call[c].copied[b] = call[c].was[b]
                      \/ /\ call[c].format = "tar" /\ back[call[c].source] # NoFile
                         /\ call[c].copied[b] = Hole
    BY DEF BackupIsPointInTime
  <2>1. call[c].source \in 1 .. used /\ (call[c].copied[b] = call[c].was[b] \/ Lacks(call[c], b))
    BY DEF CopyInv, Copied
  <2>2. Based /\ used \in Nat
    BY DEF CopyInv, DiskInv, Ground, ImageOK, Ids
  <2>3. call[c].source # 1 => back[call[c].source] # NoFile
    BY <2>1, <2>2 DEF Based
  <2> QED
    BY <2>1, <2>3 DEF Lacks
<1> QED
  BY <1>1, <1>2, <1>3, PTL DEF Spec
===============================================================================
