------------------------------- MODULE IRPool -------------------------------
(***************************************************************************)
(* What the IR library promises the mutator: for each IR type a set of     *)
(* texts of bounded size.  A new text is added while there is room and     *)
(* takes the place of exactly one other text when there is none; nothing   *)
(* else happens to a set.                                                  *)
(***************************************************************************)
EXTENDS Naturals, FiniteSets

CONSTANTS IRTYPE, Texts, Capacity

VARIABLE pool

Init == pool = [t \in IRTYPE |-> {}]

Add(t, h) ==
  /\ h \notin pool[t]
  /\ Cardinality(pool[t]) < Capacity
  /\ pool' = [pool EXCEPT ![t] = @ \cup {h}]

Replace(t, g, h) ==
  /\ h \notin pool[t]
  /\ Cardinality(pool[t]) = Capacity
  /\ g \in pool[t]
  /\ pool' = [pool EXCEPT ![t] = (@ \ {g}) \cup {h}]

Next ==
  \E t \in IRTYPE, h \in Texts :
    Add(t, h) \/ \E g \in Texts : Replace(t, g, h)

Spec == Init /\ [][Next]_pool
=============================================================================
