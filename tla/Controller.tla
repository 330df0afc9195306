----------------------------- MODULE Controller -----------------------------
(***************************************************************************)
(* The Execution Controller, src/cmd/petri/app/models/controller.ts.       *)
(* Every method is a pure function of a net value, so the component is a   *)
(* set of operators; NetExecution and EventService turn them into steps.  *)
(* A node argument is a reference [kind, id] (see Net); the code branches  *)
(* on the shape of the object it is given, which is what kind records.    *)
(***************************************************************************)
EXTENDS Net

\* The arcs of the net that end (inputs) or start (outputs) at a node.
ArcsTo(net, node) == { a \in ToSet(net.arcs) : a.to.id = node.id }
ArcsFrom(net, node) == { a \in ToSet(net.arcs) : a.from.id = node.id }

\* controller.inputs: the opposite-kind nodes, in declaration order, with
\* an arc into node.  A place whose arc has dangling or duplicate entries
\* is listed once, since the code filters the node collection.
Inputs(net, node) ==
  LET nodeArcs == ArcsTo(net, node)
      From(x) == \E a \in nodeArcs : a.from.id = x.id
  IN IF IsPlace(node) THEN SelectSeq(net.transitions, From)
                      ELSE SelectSeq(net.places, From)

\* Mutation: outputs with its two branches swapped, listing same-kind nodes.
OutputsSameKind(net, node) ==
  LET nodeArcs == ArcsFrom(net, node)
      Into(x) == \E a \in nodeArcs : a.to.id = x.id
  IN IF IsPlace(node) THEN SelectSeq(net.places, Into)
                      ELSE SelectSeq(net.transitions, Into)

\* controller.outputs: the opposite-kind nodes with an arc out of node.
Outputs(net, node) ==
  LET nodeArcs == ArcsFrom(net, node)
      Into(x) == \E a \in nodeArcs : a.to.id = x.id
  IN IF IsPlace(node) THEN SelectSeq(net.transitions, Into)
                      ELSE SelectSeq(net.places, Into)

\* Mutation: the hot test accepting an empty input place.
TransitionIsHotAnyMarking(net, t) ==
  \A p \in ToSet(Inputs(net, t)) : p.marking >= 0

\* controller.transitionIsHot: every input place holds a token; a
\* transition without input places is hot.
TransitionIsHot(net, t) ==
  \A p \in ToSet(Inputs(net, t)) : p.marking > 0

\* controller.availableTransitions: the hot transitions in declaration order.
AvailableTransitions(net) ==
  SelectSeq(net.transitions, LAMBDA tr : TransitionIsHot(net, TransRef(tr.id)))

\* controller.fireTransition, once the hot check has passed.  The updated
\* input places are listed before the updated output places and each place
\* takes the FIRST updated copy with its id, so a place that is both an
\* input and an output of t is decremented and its increment is lost.
FireTransition(net, t) ==
  LET ins  == Ids(Inputs(net, t))
      outs == Ids(Outputs(net, t))
      Updated(p) ==
        CASE p.id \in ins  -> [p EXCEPT !.marking = @ - 1]
          [] p.id \in outs -> [p EXCEPT !.marking = @ + 1]
          [] OTHER         -> p
  IN [net EXCEPT !.places = [i \in DOMAIN net.places |-> Updated(net.places[i])]]

\* controller.marking: the map it builds from each place's INITIAL marking.
Marking(net) == [p \in Ids(net.places) |-> ById(net.places, p).initialMarking]
=============================================================================
