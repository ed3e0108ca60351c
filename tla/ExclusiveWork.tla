---------------------------- MODULE ExclusiveWork ----------------------------
(***************************************************************************)
(* What the task and lock tables of the VDM promise to an operator, and    *)
(* withVmDefineLock of the runner to the cycles inside it: pieces of work  *)
(* on sets of resources that begin only when no other work uses any of     *)
(* them, that end one at a time, and that a crash may all end.  There are  *)
(* no tables, clocks, leases, promises or processes here.                  *)
(***************************************************************************)
CONSTANTS Job, Item

VARIABLE work   \* work[j]: the items job j is working on, {} when it is not

Init == work = [j \in Job |-> {}]

Begin(j, K) ==
  /\ work[j] = {}
  /\ \A other \in Job : work[other] \cap K = {}
  /\ work' = [work EXCEPT ![j] = K]

End(j) == work' = [work EXCEPT ![j] = {}]

EndAll == work' = [j \in Job |-> {}]

Next ==
  \/ \E j \in Job, K \in SUBSET Item : Begin(j, K)
  \/ \E j \in Job : End(j)
  \/ EndAll

Spec == Init /\ [][Next]_work
=============================================================================
