--------------------------- MODULE MCEventService ---------------------------
(***************************************************************************)
(* EventService on the net of controller.test.ts, which eventService.test *)
(* uses too.  Handlers, event ids and payloads are model values.          *)
(***************************************************************************)
EXTENDS EventService, MCNets

CONSTANTS h1, h2, e1, e2

\* Handlers that only observe their payload, as in eventService.test.ts.
ObserveOnly == [h \in Handlers |-> {}]

\* h1 observes; h2 also empties p1, the input place of t1 (a handler that
\* returns a net in which another step consumed that token).
H2DrainsP1 == [h \in Handlers |-> IF h = h2 THEN {"p1"} ELSE {}]
\* No handler registers handlers.
RegistersNone == [h \in Handlers |-> << >>]

\* h2, while it runs, registers h1 for e1 (a handler that sets up the
\* handling of a follow-up event, or of its own event).
H2RegistersH1 == [h \in Handlers |-> IF h = h2 THEN << << e1, h1 >> >> ELSE << >>]
=============================================================================
