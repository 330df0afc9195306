------------------------------ MODULE Builder ------------------------------
(***************************************************************************)
(* The Structural Builder, src/cmd/petri/app/models/builder.ts.  A caller *)
(* holds a net value (net) and replaces it by the result of each builder  *)
(* call; it may also keep an earlier value (saved), as an undo history or *)
(* the net of makeNet() before its arcs were added does.                  *)
(*                                                                         *)
(* Builder results share objects with their inputs ({...net} copies only *)
(* the top level), and updateArc assigns to the arc object it finds.  To  *)
(* make that sharing visible, an arc is kept once, in arcHeap, under its  *)
(* id (every new arc object gets a fresh id, so id = object identity),    *)
(* and a net lists the ids of its arcs.  Places and transitions are never *)
(* assigned to, so a net holds them as values.                            *)
(*                                                                         *)
(* Names are sequences of strings, printed by concatenation: copy names   *)
(* its result name \o << " (i)" >>.  Ids come from one pool, as createId  *)
(* serves them all; issued records every id handed out, never reused.     *)
(***************************************************************************)
EXTENDS Net

CONSTANTS
  IdSeq,        \* the ids createId() returns, in order (all distinct)
  Names,        \* names callers give to places, transitions and nets
  Markings,     \* initial markings callers give to new places
  Numerals,     \* Numerals[i] = " (i)": the suffixes copy probes
  Undefined,    \* an arc endpoint the caller left undefined
  MaxNets       \* model bound: nets in a net, itself and nested children

ASSUME Numerals \in Seq(STRING)
ASSUME IsInjective(IdSeq)

IdPool == ToSet(IdSeq)

VARIABLES net, arcHeap, issued, saved, savedView, call, result

vars == << net, arcHeap, issued, saved, savedView, call, result >>

NoArc == [from |-> Undefined, to |-> Undefined]

\* The next k ids createId() returns.
Fresh(k) == SubSeq(SelectSeq(IdSeq, LAMBDA x : x \notin issued), 1, k)
CanIssue(k) == Cardinality(IdPool \ issued) >= k

\* A net with its arc ids resolved through the heap: the value the caller
\* sees, and the one the Controller's operators take.
Resolve(n) ==
  [n EXCEPT !.arcs = [i \in DOMAIN n.arcs |->
                        [id |-> n.arcs[i]] @@ arcHeap[n.arcs[i]]]]

PlaceNodes(n) == { PlaceRef(p.id) : p \in ToSet(n.places) }
TransNodes(n) == { TransRef(t.id) : t \in ToSet(n.transitions) }
Nodes(n) == PlaceNodes(n) \cup TransNodes(n)

\* The number of nets in n: n and its children, recursively.
RECURSIVE NetCount(_)
NetCount(n) == 1 + FoldLeft(LAMBDA acc, c : acc + NetCount(c), 0, n.children)

\* builder.newNet
NewNet(id, name) ==
  [id |-> id, name |-> name, places |-> << >>, transitions |-> << >>,
   arcs |-> << >>, children |-> << >>]

\* builder.isUniqueName: no place, transition or direct child has the name.
IsUniqueName(n, name) ==
  /\ \A p \in ToSet(n.places) : p.name # name
  /\ \A t \in ToSet(n.transitions) : t.name # name
  /\ \A c \in ToSet(n.children) : c.name # name

\* builder.incrementNewName: name (i) for the least i >= 1 that is unique.
IncrementNewName(n, name) ==
  LET free == { i \in DOMAIN Numerals : IsUniqueName(n, name \o << Numerals[i] >>) }
  IN name \o << Numerals[CHOOSE i \in free : \A j \in free : i <= j] >>

(***************************************************************************)
(* builder.copy(n), given the ids s that the createId() calls return in   *)
(* order: the net's id, then one per place, per transition, per arc, then *)
(* the copies of the children in turn.  Returns the copy, the ids left    *)
(* over, and the pairs <<new arc id, old arc id>> of the arc objects it   *)
(* made ({...a, id}: same from and to).                                   *)
(***************************************************************************)
IdsNeeded(n) ==
  LET RECURSIVE Count(_)
      Count(m) == 1 + Len(m.places) + Len(m.transitions) + Len(m.arcs)
                  + FoldLeft(LAMBDA acc, c : acc + Count(c), 0, m.children)
  IN Count(n)

\* Mutation: a copy that keeps the children as they are.
CopyNetShallow(n, s) ==
  LET np == Len(n.places)
      nt == Len(n.transitions)
      na == Len(n.arcs)
      newArcs == [i \in 1 .. na |-> s[1 + np + nt + i]]
  IN [net |-> [id |-> s[1],
               name |-> IncrementNewName(n, n.name),
               places |-> [i \in 1 .. np |-> [n.places[i] EXCEPT !.id = s[1 + i]]],
               transitions |-> [i \in 1 .. nt |->
                                  [n.transitions[i] EXCEPT !.id = s[1 + np + i]]],
               arcs |-> newArcs,
               children |-> n.children],
      rest |-> SubSeq(s, 2 + np + nt + na, Len(s)),
      pairs |-> { << newArcs[i], n.arcs[i] >> : i \in 1 .. na }]

RECURSIVE CopyNet(_, _)
CopyNet(n, s) ==
  LET np == Len(n.places)
      nt == Len(n.transitions)
      na == Len(n.arcs)
      newArcs == [i \in 1 .. na |-> s[1 + np + nt + i]]
      kids == FoldLeft(LAMBDA acc, c :
                LET r == CopyNet(c, acc.rest)
                IN [nets |-> Append(acc.nets, r.net), rest |-> r.rest,
                    pairs |-> acc.pairs \cup r.pairs],
              [nets |-> << >>, rest |-> SubSeq(s, 2 + np + nt + na, Len(s)),
               pairs |-> {}],
              n.children)
  IN [net |-> [id |-> s[1],
               name |-> IncrementNewName(n, n.name),
               places |-> [i \in 1 .. np |-> [n.places[i] EXCEPT !.id = s[1 + i]]],
               transitions |-> [i \in 1 .. nt |->
                                  [n.transitions[i] EXCEPT !.id = s[1 + np + i]]],
               arcs |-> newArcs,
               children |-> kids.nets],
      rest |-> kids.rest,
      pairs |-> { << newArcs[i], n.arcs[i] >> : i \in 1 .. na } \cup kids.pairs]

\* The criterion r of removePlace/removeTransition matches entity x: by id
\* when r carries an id, by name otherwise.
Matches(r, x) == IF "id" \in DOMAIN r THEN r.id = x.id ELSE r.name = x.name

\* Every criterion the caller may pass: the id of a node it has seen, or a name.
Criteria(ids) == { [id |-> i] : i \in ids } \cup { [name |-> nm] : nm \in Names }
-----------------------------------------------------------------------------
(***************************************************************************)
(* Operations.  Each call either returns a net, which replaces the        *)
(* caller's, or throws, leaving every variable but call and result as it  *)
(* was.  A bulk call (addPlace(net, p1, p2)) is the same as the calls one *)
(* input at a time, since a later input never sees an earlier one; the    *)
(* model takes one input per call.                                        *)
(***************************************************************************)
Returns(op) == call' = op /\ result' = "net"

Throws(op, err) ==
  /\ call' = op /\ result' = err
  /\ UNCHANGED << net, arcHeap, issued, saved, savedView >>

\* What the caller has seen: the nodes, places and transitions of its
\* current net and of the value it kept.
SeenNodes == Nodes(net) \cup Nodes(saved)
SeenPlaces == ToSet(net.places) \cup ToSet(saved.places)
SeenTransitions == ToSet(net.transitions) \cup ToSet(saved.transitions)
SeenArcIds == ToSet(net.arcs) \cup ToSet(saved.arcs)

\* builder.addPlace: the input with a fresh id, appended.
AddPlace(name, m) ==
  /\ CanIssue(1)
  /\ LET id == Fresh(1)[1]
     IN /\ net' = [net EXCEPT !.places = Append(@,
             [id |-> id, name |-> name, initialMarking |-> m, marking |-> m])]
        /\ issued' = issued \cup {id}
  /\ Returns("addPlace")
  /\ UNCHANGED << arcHeap, saved, savedView >>

\* builder.addTransition: the input with a fresh id, appended.
AddTransition(name) ==
  /\ CanIssue(1)
  /\ LET id == Fresh(1)[1]
     IN /\ net' = [net EXCEPT !.transitions = Append(@,
             [id |-> id, name |-> name, events |-> << >>])]
        /\ issued' = issued \cup {id}
  /\ Returns("addTransition")
  /\ UNCHANGED << arcHeap, saved, savedView >>

\* builder.addArc: endpoints must be defined and of different kinds; the
\* endpoints are NOT looked up in the net.
AddArc(from, to) ==
  /\ from # Undefined /\ to # Undefined /\ ~SameKind(from, to)
  /\ CanIssue(1)
  /\ LET id == Fresh(1)[1]
     IN /\ arcHeap' = [arcHeap EXCEPT ![id] = [from |-> from, to |-> to]]
        /\ net' = [net EXCEPT !.arcs = Append(@, id)]
        /\ issued' = issued \cup {id}
  /\ Returns("addArc")
  /\ UNCHANGED << saved, savedView >>

AddArcRejected(from, to) ==
  /\ IF from = Undefined \/ to = Undefined THEN TRUE ELSE SameKind(from, to)
  /\ Throws("addArc", CASE from = Undefined  -> "ArcFromNotDefined"
                     [] to = Undefined    -> "ArcToNotDefined"
                     [] SameKind(from, to) -> "ArcBetweenSameType")

\* builder.addChild: the child net value appended as it is.  The child is
\* the value the caller kept, or a builder.newNet(name) made for the call.
AddChild(child) ==
  /\ NetCount(net) + NetCount(child) <= MaxNets
  /\ net' = [net EXCEPT !.children = Append(@, child)]
  /\ Returns("addChild")
  /\ UNCHANGED << arcHeap, issued, saved, savedView >>

AddNewChild(name) ==
  /\ NetCount(net) + 1 <= MaxNets
  /\ CanIssue(1)
  /\ net' = [net EXCEPT !.children = Append(@, NewNet(Fresh(1)[1], name))]
  /\ issued' = issued \cup {Fresh(1)[1]}
  /\ Returns("addChild")
  /\ UNCHANGED << arcHeap, saved, savedView >>

\* builder.removePlace / removeTransition: drop every entity the criterion
\* matches; arcs to them stay.
RemovePlace(r) ==
  /\ net' = [net EXCEPT !.places = SelectSeq(@, LAMBDA p : ~Matches(r, p))]
  /\ Returns("removePlace")
  /\ UNCHANGED << arcHeap, issued, saved, savedView >>

RemoveTransition(r) ==
  /\ net' = [net EXCEPT !.transitions = SelectSeq(@, LAMBDA t : ~Matches(r, t))]
  /\ Returns("removeTransition")
  /\ UNCHANGED << arcHeap, issued, saved, savedView >>

\* builder.removeArc / removeChild: by id.
RemoveArc(id) ==
  /\ net' = [net EXCEPT !.arcs = SelectSeq(@, LAMBDA a : a # id)]
  /\ Returns("removeArc")
  /\ UNCHANGED << arcHeap, issued, saved, savedView >>

RemoveChild(id) ==
  /\ net' = [net EXCEPT !.children = SelectSeq(@, LAMBDA c : c.id # id)]
  /\ Returns("removeChild")
  /\ UNCHANGED << arcHeap, issued, saved, savedView >>

\* builder.updatePlace / updateTransition: the entity with the input's id
\* is filtered out and the input appended at the end.
\* Mutation: updatePlace appending the input without filtering the old one.
UpdatePlaceNoFilter(p) ==
  IF p.id \in Ids(net.places)
  THEN /\ net' = [net EXCEPT !.places = @ \o << p >>]
       /\ Returns("updatePlace")
       /\ UNCHANGED << arcHeap, issued, saved, savedView >>
  ELSE Throws("updatePlace", "PlaceNotFound")

UpdatePlace(p) ==
  IF p.id \in Ids(net.places)
  THEN /\ net' = [net EXCEPT !.places = SelectSeq(@, LAMBDA x : x.id # p.id) \o << p >>]
       /\ Returns("updatePlace")
       /\ UNCHANGED << arcHeap, issued, saved, savedView >>
  ELSE Throws("updatePlace", "PlaceNotFound")

UpdateTransition(t) ==
  IF t.id \in Ids(net.transitions)
  THEN /\ net' = [net EXCEPT !.transitions =
                    SelectSeq(@, LAMBDA x : x.id # t.id) \o << t >>]
       /\ Returns("updateTransition")
       /\ UNCHANGED << arcHeap, issued, saved, savedView >>
  ELSE Throws("updateTransition", "TransitionNotFound")

\* Mutation: updateArc assigning both endpoints, defined or not.
UpdateArcUnconditional(id, from, to) ==
  IF id \in ToSet(net.arcs)
  THEN /\ arcHeap' = [arcHeap EXCEPT ![id] = [from |-> from, to |-> to]]
       /\ net' = [net EXCEPT !.arcs = SelectSeq(@, LAMBDA a : a # id) \o << id >>]
       /\ Returns("updateArc")
       /\ UNCHANGED << issued, saved, savedView >>
  ELSE Throws("updateArc", "ArcNotFound")

\* builder.updateArc: assigns the defined endpoints of the input to the arc
\* OBJECT found in the net, then moves its id to the end.
UpdateArc(id, from, to) ==
  IF id \in ToSet(net.arcs)
  THEN /\ arcHeap' = [arcHeap EXCEPT
                        ![id].from = IF from # Undefined THEN from ELSE @,
                        ![id].to   = IF to # Undefined THEN to ELSE @]
       /\ net' = [net EXCEPT !.arcs = SelectSeq(@, LAMBDA a : a # id) \o << id >>]
       /\ Returns("updateArc")
       /\ UNCHANGED << issued, saved, savedView >>
  ELSE Throws("updateArc", "ArcNotFound")

\* builder.rename
Rename(name) ==
  /\ net' = [net EXCEPT !.name = name]
  /\ Returns("rename")
  /\ UNCHANGED << arcHeap, issued, saved, savedView >>

\* builder.copy; the caller goes on with the copy.
Copy ==
  LET k == IdsNeeded(net)
      r == CopyNet(net, Fresh(k))
  IN /\ CanIssue(k)
     /\ net' = r.net
     /\ arcHeap' = [x \in IdPool |->
                     IF \E pr \in r.pairs : pr[1] = x
                     THEN arcHeap[(CHOOSE pr \in r.pairs : pr[1] = x)[2]]
                     ELSE arcHeap[x]]
     /\ issued' = issued \cup ToSet(Fresh(k))
     /\ Returns("copy")
     /\ UNCHANGED << saved, savedView >>

\* The caller keeps the current value (savedView: what it looked like).
Save ==
  /\ saved' = net
  /\ savedView' = Resolve(net)
  /\ call' = "save" /\ result' = "none"
  /\ UNCHANGED << net, arcHeap, issued >>

InitId == IdSeq[1]

Init ==
  /\ net = NewNet(InitId, CHOOSE nm \in Names : TRUE)
  /\ arcHeap = [x \in IdPool |-> NoArc]
  /\ issued = {InitId}
  /\ saved = net
  /\ savedView = Resolve(net)
  /\ call = "newNet" /\ result = "net"

Next ==
  \/ \E nm \in Names, m \in Markings : AddPlace(nm, m)
  \/ \E nm \in Names : AddTransition(nm)
  \/ \E f, t \in SeenNodes : AddArc(f, t)
  \/ \E f, t \in SeenNodes \cup {Undefined} : AddArcRejected(f, t)
  \/ AddChild(saved)
  \/ \E nm \in Names : AddNewChild(nm)
  \/ \E r \in Criteria(Ids(net.places) \cup Ids(saved.places)) : RemovePlace(r)
  \/ \E r \in Criteria(Ids(net.transitions) \cup Ids(saved.transitions)) : RemoveTransition(r)
  \/ \E id \in SeenArcIds : RemoveArc(id)
  \/ \E id \in Ids(net.children) : RemoveChild(id)
  \/ \E p \in SeenPlaces, m \in Markings : UpdatePlace([p EXCEPT !.marking = m])
  \/ \E t \in SeenTransitions, nm \in Names : UpdateTransition([t EXCEPT !.name = nm])
  \/ \E id \in SeenArcIds, f, t \in SeenNodes \cup {Undefined} : UpdateArc(id, f, t)
  \/ \E nm \in Names : Rename(nm)
  \/ Copy
  \/ Save

Spec == Init /\ [][Next]_vars
-----------------------------------------------------------------------------
(***************************************************************************)
(* Properties.                                                             *)
(***************************************************************************)
ArcValues == [from : SeenNodes \cup {Undefined}, to : SeenNodes \cup {Undefined}]

TypeOK ==
  /\ issued \subseteq IdPool
  /\ Ids(net.places) \cup Ids(net.transitions) \cup ToSet(net.arcs) \subseteq issued
  /\ \A p \in ToSet(net.places) : p.marking \in Markings /\ p.name \in Names
  /\ \A t \in ToSet(net.transitions) : t.name \in Names /\ t.events = << >>
  /\ \A a \in ToSet(net.arcs) : arcHeap[a] # NoArc
  /\ result \in {"net", "none", "ArcFromNotDefined", "ArcToNotDefined",
                 "ArcBetweenSameType", "PlaceNotFound", "TransitionNotFound",
                 "ArcNotFound"}

\* Every id in a net value and in its children, recursively.
RECURSIVE AllIds(_)
AllIds(n) ==
  {n.id} \cup Ids(n.places) \cup Ids(n.transitions) \cup ToSet(n.arcs)
    \cup UNION { AllIds(c) : c \in ToSet(n.children) }

\* The places, transitions and arcs of the caller's net each have distinct
\* ids (spec data-model invariant 1), whatever sequence of adds, updates
\* with entities of an older value, removals and copies led there.
IdsUniquePerCollection ==
  /\ IsInjective([i \in DOMAIN net.places |-> net.places[i].id])
  /\ IsInjective([i \in DOMAIN net.transitions |-> net.transitions[i].id])
  /\ IsInjective(net.arcs)

\* copy gives the net, and every place, transition, arc and child at every
\* level, an id never handed out before (spec section 8).
CopyFreshIds ==
  [][call' = "copy" => AllIds(net') \cap issued = {}]_vars

\* Every arc of the net connects a place and a transition (spec data-model
\* invariant 2: same-kind endpoints are rejected).
ArcsBipartite ==
  \A a \in ToSet(net.arcs) : ~SameKind(arcHeap[a].from, arcHeap[a].to)

\* No builder call changes a net value the caller already holds (spec
\* section 4.1: the input is never mutated).
BuilderIsPure == Resolve(saved) = savedView
=============================================================================
