---------------------------- MODULE EventService ----------------------------
(***************************************************************************)
(* The Event Service, src/cmd/petri/app/models/eventService.ts, wrapping  *)
(* the Controller.  One service instance and one caller: the caller holds *)
(* a net value (net) and calls registerEvent, registerHandler,            *)
(* handleEvent, isValidEventSequence and availableEvents on it; the       *)
(* service holds the handler registry (handlers), its only mutable state. *)
(*                                                                         *)
(* A handler is user code (net, payload) => net.  The model gives each    *)
(* handler h a fixed effect on the net: it sets the marking of the places *)
(* Drains[h] to zero (Drains[h] = {} is a handler that only observes the  *)
(* payload, like the handlers of eventService.test.ts).  A handler may   *)
(* also call registerHandler on the service while it runs: Registers[h]   *)
(* lists the (event, handler) pairs h registers, in order.  What a call ran*)
(* is recorded in ran: the handlers it invoked, in order, with the        *)
(* payload each one saw.  call and result record the last call and what  *)
(* it returned or threw.                                                   *)
(***************************************************************************)
EXTENDS Controller

CONSTANTS
  InitNet,          \* the caller's net, with no events registered yet
  EventIds,         \* the ids createId() can hand out to new events
  NoTransition,     \* a transition id that is not in the net
  Handlers,         \* the handler functions a caller may register
  Drains,           \* Drains[h]: the places handler h empties
  Registers,        \* Registers[h]: the (event, handler) pairs h registers
  Payloads,         \* the payloads callers pass to handleEvent
  EmptyPayload,     \* the {} that isValidEventSequence passes
  MaxHandlers,      \* model bound: handlers registered per event
  MaxSeqLen,        \* model bound: length of a validated event sequence
  MaxTokens         \* model bound: tokens per place

ASSUME Drains \in [Handlers -> SUBSET Ids(InitNet.places)]
ASSUME Registers \in [Handlers -> Seq(EventIds \X Handlers)]
ASSUME EmptyPayload \notin Payloads
ASSUME NoTransition \notin Ids(InitNet.transitions)
ASSUME {MaxHandlers, MaxSeqLen, MaxTokens} \subseteq Nat

VARIABLES net, handlers, ran, call, result

vars == << net, handlers, ran, call, result >>

TransIds == Ids(InitNet.transitions)
PlaceIds == Ids(InitNet.places)
Ops == {"none", "registerEvent", "registerHandler", "handleEvent",
        "isValidEventSequence", "availableEvents"}
Results == {"none", "net", "TransitionNotFound", "CannotHandleEvent",
            "TransitionNotEnabled", "true", "false"}

WithinBound(n) == \A p \in ToSet(n.places) : p.marking <= MaxTokens
RegistryWithinBound(reg) == \A e \in EventIds : Len(reg[e]) <= MaxHandlers

\* registerHandler(net, e, h) on registry reg: a new array with h appended
\* replaces the entry of e; an array read earlier is left as it was.
AddHandler(reg, pair) == [reg EXCEPT ![pair[1]] = Append(@, pair[2])]

\* The effect of running handler h on the net and the live registry.
RunHandler(st, h) ==
  [net |-> [st.net EXCEPT !.places = [i \in DOMAIN st.net.places |->
              IF st.net.places[i].id \in Drains[h]
              THEN [st.net.places[i] EXCEPT !.marking = 0]
              ELSE st.net.places[i]]],
   reg |-> FoldLeft(AddHandler, st.reg, Registers[h])]

\* Mutation: a transition with any event taken to own e.
OwnsAnyEvent(tr, e) == tr.events # << >>

\* A transition owns event e if e is in its event list.
Owns(tr, e) == e \in ToSet(tr.events)

\* canHandleEvent: some enabled transition owns e.
CanHandleEvent(n, e) == \E tr \in ToSet(AvailableTransitions(n)) : Owns(tr, e)

\* Mutation: the events of every transition, enabled or not.
AvailableEventsAll(n) == FlattenSeq([i \in DOMAIN n.transitions |-> n.transitions[i].events])

\* availableEvents: availableTransitions(n).flatMap(t => t.events).
AvailableEvents(n) ==
  LET av == AvailableTransitions(n)
  IN FlattenSeq([i \in DOMAIN av |-> av[i].events])

\* The transition handleEvent fires: the first enabled one owning e.
Owner(n, e) == Head(SelectSeq(AvailableTransitions(n), LAMBDA tr : Owns(tr, e)))

(***************************************************************************)
(* handleEvent(n, e, payload) with registry reg, as a record: the net it  *)
(* returns (the input net when it throws), the registry after it, what it *)
(* returned or threw, and the handlers it ran.  The handlers are the array *)
(* reg[e] read once, at the call; they are folded over the net in          *)
(* registration order, each seeing the same payload; then the transition  *)
(* chosen BEFORE the handlers ran is fired on the handlers' net, which    *)
(* throws if the handlers left it not hot.  With no handler registered    *)
(* the code fires on the input net directly, which is the same fold over  *)
(* an empty sequence.                                                      *)
(***************************************************************************)
HandleOutcome(n, reg, e, payload) ==
  IF ~CanHandleEvent(n, e)
  THEN [net |-> n, reg |-> reg, result |-> "CannotHandleEvent", ran |-> << >>]
  ELSE LET t   == TransRef(Owner(n, e).id)
           hs  == reg[e]
           st  == FoldLeft(RunHandler, [net |-> n, reg |-> reg], hs)
           log == [i \in DOMAIN hs |-> << hs[i], payload >>]
       IN IF TransitionIsHot(st.net, t)
          THEN [net |-> FireTransition(st.net, t), reg |-> st.reg, result |-> "net", ran |-> log]
          ELSE [net |-> n, reg |-> st.reg, result |-> "TransitionNotEnabled", ran |-> log]

(***************************************************************************)
(* isValidEventSequence: handleEvent on each event in turn with the empty *)
(* payload, stopping at the first failure.  Returns whether it got        *)
(* through, the registry after it (handlers registered by the handlers it *)
(* ran stay registered), and the handlers all those calls ran.             *)
(***************************************************************************)
\* Mutation: validation that looks at the first event only.
RunSequenceFirstOnly(n, reg, seq, log) ==
  IF seq = << >> THEN [valid |-> TRUE, reg |-> reg, ran |-> log]
  ELSE LET o == HandleOutcome(n, reg, Head(seq), EmptyPayload)
       IN [valid |-> o.result = "net", reg |-> o.reg, ran |-> log \o o.ran]

RECURSIVE RunSequence(_, _, _, _)
RunSequence(n, reg, seq, log) ==
  IF seq = << >> THEN [valid |-> TRUE, reg |-> reg, ran |-> log]
  ELSE LET o == HandleOutcome(n, reg, Head(seq), EmptyPayload)
       IN IF o.result = "net"
          THEN RunSequence(o.net, o.reg, Tail(seq), log \o o.ran)
          ELSE [valid |-> FALSE, reg |-> o.reg, ran |-> log \o o.ran]

-----------------------------------------------------------------------------
(***************************************************************************)
(* Operations.                                                             *)
(***************************************************************************)

\* registerEvent(net, t, input): a fresh event is appended to the events of
\* the first transition with id t, which stays at its index.
RegisterEvent(t) ==
  \E e \in EventIds \ EventsOf(net) :
    LET i == CHOOSE j \in DOMAIN net.transitions :
               /\ net.transitions[j].id = t
               /\ \A k \in 1 .. j - 1 : net.transitions[k].id # t
    IN /\ net' = [net EXCEPT !.transitions[i].events = Append(@, e)]
       /\ call' = [op |-> "registerEvent", arg |-> t]
       /\ result' = "net"
       /\ ran' = << >>
       /\ UNCHANGED handlers

\* registerEvent on an id no transition has throws "Transition not found".
RegisterEventNotFound ==
  /\ call' = [op |-> "registerEvent", arg |-> NoTransition]
  /\ result' = "TransitionNotFound"
  /\ ran' = << >>
  /\ UNCHANGED << net, handlers >>

\* registerHandler(net, e, h): appends h to the registry entry of e, for any
\* event id, and returns the net unchanged.
RegisterHandler(e, h) ==
  /\ Len(handlers[e]) < MaxHandlers
  /\ handlers' = [handlers EXCEPT ![e] = Append(@, h)]
  /\ call' = [op |-> "registerHandler", arg |-> e]
  /\ result' = "net"
  /\ ran' = << >>
  /\ UNCHANGED net

\* handleEvent(net, e, payload): on success the caller's net is replaced by
\* the returned one; on a throw the caller keeps its net.
HandleEvent(e, payload) ==
  LET o == HandleOutcome(net, handlers, e, payload)
  IN /\ WithinBound(o.net) /\ RegistryWithinBound(o.reg)
     /\ net' = o.net
     /\ handlers' = o.reg
     /\ result' = o.result
     /\ ran' = o.ran
     /\ call' = [op |-> "handleEvent", arg |-> e]

\* isValidEventSequence(net, seq): the caller's net is unchanged, but what
\* the handlers it ran registered stays in the registry.
IsValidEventSequence(seq) ==
  LET o == RunSequence(net, handlers, seq, << >>)
  IN /\ RegistryWithinBound(o.reg)
     /\ handlers' = o.reg
     /\ result' = IF o.valid THEN "true" ELSE "false"
     /\ ran' = o.ran
     /\ call' = [op |-> "isValidEventSequence", arg |-> seq]
     /\ UNCHANGED net

\* availableEvents(net): a query; the net and the registry are unchanged.
QueryAvailableEvents ==
  /\ call' = [op |-> "availableEvents", arg |-> "none"]
  /\ result' = AvailableEvents(net)
  /\ ran' = << >>
  /\ UNCHANGED << net, handlers >>

Init ==
  /\ net = InitNet
  /\ handlers = [e \in EventIds |-> << >>]
  /\ ran = << >>
  /\ call = [op |-> "none", arg |-> "none"]
  /\ result = "none"

Next ==
  \/ \E t \in TransIds : RegisterEvent(t)
  \/ RegisterEventNotFound \/ QueryAvailableEvents
  \/ \E e \in EventIds, h \in Handlers : RegisterHandler(e, h)
  \/ \E e \in EventIds, pl \in Payloads : HandleEvent(e, pl)
  \/ \E seq \in BoundedSeq(EventIds, MaxSeqLen) : IsValidEventSequence(seq)

Spec == Init /\ [][Next]_vars

-----------------------------------------------------------------------------
(***************************************************************************)
(* The token game of the net's structure, and a reference for sequence    *)
(* validation written against it.                                          *)
(***************************************************************************)
Abstract == INSTANCE TokenGame WITH
  Place   <- PlaceIds,
  Trans   <- TransIds,
  Pre     <- [t \in TransIds |-> ArcPre(InitNet, t)],
  Post    <- [t \in TransIds |-> ArcPost(InitNet, t)],
  M0      <- LiveMarking(InitNet),
  marking <- LiveMarking(net)

\* The events of transition t in the current net.
EventsOfTrans(t) == ToSet(ById(net.transitions, t).events)

\* seq can be played in the classical token game from marking m, each event
\* firing some enabled transition that owns it.
RECURSIVE Playable(_, _)
Playable(m, seq) ==
  \/ seq = << >>
  \/ \E t \in TransIds :
       /\ Head(seq) \in EventsOfTrans(t)
       /\ \A p \in ArcPre(InitNet, t) : m[p] > 0
       /\ Playable([p \in PlaceIds |-> m[p]
                      + (IF p \in ArcPost(InitNet, t) THEN 1 ELSE 0)
                      - (IF p \in ArcPre(InitNet, t) THEN 1 ELSE 0)],
                   Tail(seq))

(***************************************************************************)
(* Properties.                                                             *)
(***************************************************************************)
TypeOK ==
  /\ \A p \in ToSet(net.places) : p.marking \in 0 .. MaxTokens
  /\ Ids(net.places) = PlaceIds /\ Ids(net.transitions) = TransIds
  /\ EventsOf(net) \subseteq EventIds
  /\ handlers \in [EventIds -> Seq(Handlers)]
  /\ ToSet(ran) \subseteq Handlers \X (Payloads \cup {EmptyPayload})
  /\ call.op \in Ops
  /\ result \in Results \/ result \in Seq(EventIds)

\* A handleEvent(e) call that returns a net changes the marking exactly as
\* firing, in the token game, one enabled transition that owns e; no other
\* call changes the marking.  Breaking it takes a registered event, a
\* handler fold and the controller's firing to disagree.
HandleEventFiresOwner ==
  [][IF call'.op = "handleEvent" /\ result' = "net"
     THEN \E t \in TransIds : call'.arg \in EventsOfTrans(t) /\ Abstract!Fire(t)
     ELSE LiveMarking(net') = LiveMarking(net)]_vars

\* isValidEventSequence(net, seq) holds exactly when seq can be played in
\* the token game from the current marking (spec 4.3: a structural
\* reachability probe), for every sequence of at most MaxSeqLen events.
ValidationAgreesWithTokenGame ==
  \A seq \in BoundedSeq(EventIds, MaxSeqLen) :
    RunSequence(net, handlers, seq, << >>).valid = Playable(LiveMarking(net), seq)

\* availableEvents(net) lists, each once, exactly the events owned by the
\* transitions the token game enables at the current marking (spec 4.3),
\* however registerEvent calls have spread events over the transitions.
AvailableEventsMatchTokenGame ==
  [][call'.op = "availableEvents" =>
       /\ IsInjective(result')
       /\ ToSet(result') = UNION {EventsOfTrans(t) : t \in {u \in TransIds : Abstract!Enabled(u)}}]_vars

\* A handleEvent call whose handlers ran fires the event's transition: the
\* spec (section 7) says a failed operation leaves nothing done, and its
\* event scenario has the handler observe the payload once per firing.
HandlersRunOnlyWhenFired ==
  [][call'.op = "handleEvent" /\ ran' # << >> => result' = "net"]_vars

=============================================================================
