-------------------------------- MODULE Net --------------------------------
(***************************************************************************)
(* The data model of src/cmd/petri/app/models/net.ts, as TLA+ values.      *)
(*                                                                         *)
(* A net is a record                                                       *)
(*   [id, name, places, transitions, arcs, children]                       *)
(* whose collections are sequences, as the arrays of Net.PetriNet are:     *)
(* declaration order matters to availableTransitions and handleEvent.     *)
(*   place      [id, name, initialMarking, marking]   (bound is advisory  *)
(*              and read by no operation, so it is left out)               *)
(*   transition [id, name, events]  events: a sequence of event ids        *)
(*              (an event's name and typed fields are read by no core      *)
(*              operation; only its id is)                                 *)
(*   arc        [id, from, to]  from/to: node references                  *)
(* The code stores the whole Place or Transition object as an arc          *)
(* endpoint and tells the two kinds apart by their shape; the model keeps  *)
(* a reference [kind, id] with the kind the shape test would report.       *)
(***************************************************************************)
EXTENDS Naturals, Sequences, SequencesExt

PlaceRef(id) == [kind |-> "place", id |-> id]
TransRef(id) == [kind |-> "transition", id |-> id]

\* Net.isPlace / Net.isTransition: a Place has a bound, a Transition has
\* events.
IsPlace(node) == node.kind = "place"
IsTransition(node) == node.kind = "transition"

\* Net.sameKind: both endpoints places or both transitions.
SameKind(n1, n2) ==
  \/ IsPlace(n1) /\ IsPlace(n2)
  \/ IsTransition(n1) /\ IsTransition(n2)

\* The ids of the elements of a collection (places, transitions, arcs).
Ids(coll) == { x.id : x \in ToSet(coll) }

\* The element of a collection with a given id (callers check it exists).
ById(coll, id) == CHOOSE x \in ToSet(coll) : x.id = id

\* Constructors used by the model configurations to write a net literal.
MkPlace(id, m) ==
  [id |-> id, name |-> id, initialMarking |-> m, marking |-> m]
MkTransition(id) == [id |-> id, name |-> id, events |-> << >>]
MkArc(id, from, to) == [id |-> id, from |-> from, to |-> to]
MkNet(id, places, transitions, arcs) ==
  [id |-> id, name |-> id, places |-> places, transitions |-> transitions,
   arcs |-> arcs, children |-> << >>]

\* The live marking of a net, as a function from place id to token count.
LiveMarking(net) == [p \in Ids(net.places) |-> ById(net.places, p).marking]

\* The pre- and post-set of transition t read off the arcs directly: the
\* reference against which the controller's inputs/outputs are checked.
ArcPre(net, t) ==
  { a.from.id : a \in { b \in ToSet(net.arcs) : b.to = TransRef(t) } } \cap Ids(net.places)
ArcPost(net, t) ==
  { a.to.id : a \in { b \in ToSet(net.arcs) : b.from = TransRef(t) } } \cap Ids(net.places)

\* Every event id attached to some transition of the net.
EventsOf(net) == UNION { ToSet(t.events) : t \in ToSet(net.transitions) }
=============================================================================
