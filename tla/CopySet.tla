------------------------------- MODULE CopySet -------------------------------
(***************************************************************************)
(* What moving and cloning promise to the owner of a guest: complete       *)
(* copies of it appear in new places and disappear from old ones one at a  *)
(* time, a copy is only ever made of a copy, and one always remains.  The  *)
(* owner may forsake a guest, and is then promised nothing of it.          *)
(***************************************************************************)
CONSTANTS Original, Place

VARIABLES
  copies,   \* copies[g]: the places that hold guest g complete
  forsaken  \* guests that were given up

Init ==
  /\ \E at \in [Original -> Place] : copies = [g \in Original |-> {at[g]}]
  /\ forsaken = {}

Add(g, p) == copies[g] # {} /\ p \notin copies[g] /\ copies'[g] = copies[g] \cup {p}

Remove(g, p) == p \in copies[g] /\ copies[g] # {p} /\ copies'[g] = copies[g] \ {p}

(* At most one place changes at a time, for the guests that count.         *)
Next ==
  /\ copies' \in [Original -> SUBSET Place]
  /\ forsaken \subseteq forsaken' /\ forsaken' \subseteq Original
  /\ \E p \in Place : \A g \in Original \ forsaken' :
       copies'[g] = copies[g] \/ Add(g, p) \/ Remove(g, p)

Spec == Init /\ [][Next]_<<copies, forsaken>>
=============================================================================
