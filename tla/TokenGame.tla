----------------------------- MODULE TokenGame -----------------------------
(***************************************************************************)
(* The abstract specification of the execution of a place/transition net  *)
(* with unit arc weights, as the spec's glossary states the firing rule:  *)
(* a transition may fire iff every input place holds a token, and firing  *)
(* atomically removes one token from each input place and adds one to     *)
(* each output place.  Nothing else changes the marking.                  *)
(***************************************************************************)
EXTENDS Integers

CONSTANTS
  Place,        \* the places of the net
  Trans,        \* its transitions
  Pre,          \* Pre[t]: the input places of t
  Post,         \* Post[t]: the output places of t
  M0            \* the initial marking

ASSUME Pre \in [Trans -> SUBSET Place] /\ Post \in [Trans -> SUBSET Place]
ASSUME M0 \in [Place -> Nat]

VARIABLE marking

Enabled(t) == \A p \in Pre[t] : marking[p] > 0

\* The change firing t makes to place p: -1 per input arc, +1 per output arc.
Delta(t, p) == (IF p \in Post[t] THEN 1 ELSE 0) - (IF p \in Pre[t] THEN 1 ELSE 0)

Fire(t) ==
  /\ Enabled(t)
  /\ marking' = [p \in Place |-> marking[p] + Delta(t, p)]

Init == marking = M0

Next == \E t \in Trans : Fire(t)

Spec == Init /\ [][Next]_marking

\* The firing rule keeps every marking a natural number.
NonNegative == \A p \in Place : marking[p] >= 0
=============================================================================
