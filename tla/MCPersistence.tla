--------------------------- MODULE MCPersistence ---------------------------
(* Persistence with model-value ids: one net id of each format, two     *)
(* events with one field each, and four row ids: room for two  *)
(* actions or two runs.                                               *)
EXTENDS Persistence

CONSTANTS u1, u2, c1, x1, r1, r2, r3, r4, d1, e1, e2, f1, f2

TwoEventFields == (e1 :> {f1}) @@ (e2 :> {f2})
=============================================================================
