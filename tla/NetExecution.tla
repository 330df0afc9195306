---------------------------- MODULE NetExecution ----------------------------
(***************************************************************************)
(* The token game as the Execution Controller plays it: a caller holds a  *)
(* net value and repeatedly replaces it by controller.fireTransition(net, *)
(* t) for a transition t of the net (the test "should return available    *)
(* transitions" and the spec's cyclic scenario do exactly this).          *)
(* The structure of the net is fixed here; only its places' markings     *)
(* change.  A call on a transition that is not hot throws and leaves the  *)
(* caller's net as it was, a step that changes nothing, so it is a        *)
(* stuttering step of this specification.                                 *)
(***************************************************************************)
EXTENDS Controller

CONSTANTS
  InitNet,      \* the net value the caller starts from
  MaxTokens     \* model bound: no place is driven above MaxTokens tokens

ASSUME MaxTokens \in Nat

VARIABLE net

vars == << net >>

TransIds == Ids(InitNet.transitions)
PlaceIds == Ids(InitNet.places)

\* The model bound, applied to the net a step would produce.
WithinBound(n) == \A p \in ToSet(n.places) : p.marking <= MaxTokens

\* The caller fires transition t (controller.fireTransition).
Fire(t) ==
  /\ TransitionIsHot(net, TransRef(t))
  /\ WithinBound(FireTransition(net, TransRef(t)))
  /\ net' = FireTransition(net, TransRef(t))

Init == net = InitNet

Next == \E t \in TransIds : Fire(t)

Spec == Init /\ [][Next]_vars

-----------------------------------------------------------------------------
(***************************************************************************)
(* Refinement.  The pre- and post-sets of the abstract net are read off   *)
(* the arcs directly, not through controller.inputs/outputs, and the      *)
(* abstract marking is the live marking of the places.                    *)
(***************************************************************************)
Abstract == INSTANCE TokenGame WITH
  Place   <- PlaceIds,
  Trans   <- TransIds,
  Pre     <- [t \in TransIds |-> ArcPre(InitNet, t)],
  Post    <- [t \in TransIds |-> ArcPost(InitNet, t)],
  M0      <- LiveMarking(InitNet),
  marking <- LiveMarking(net)

(***************************************************************************)
(* Properties.                                                             *)
(***************************************************************************)
\* Markings stay natural numbers within the model bound and the structure
\* of the net is the caller's.
TypeOK ==
  /\ \A p \in ToSet(net.places) : p.marking \in 0 .. MaxTokens
  /\ Ids(net.places) = PlaceIds
  /\ net.transitions = InitNet.transitions
  /\ net.arcs = InitNet.arcs

\* fireTransition plays the classical token game (spec glossary, section
\* 4.2): every change it makes to the live marking is the firing of one
\* enabled transition, taking one token from each input place and putting
\* one on each output place.
ImplementsTokenGame == Abstract!Spec

=============================================================================
