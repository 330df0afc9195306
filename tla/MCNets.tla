------------------------------- MODULE MCNets -------------------------------
(***************************************************************************)
(* Net values the model configurations start from.  Ids are strings; the *)
(* code only compares them for equality.                                   *)
(***************************************************************************)
EXTENDS Net

\* The net of controller.test.ts makeNet(): p1 -> t1 -> p2 -> t2 -> p1.
CycleNet ==
  MkNet("n", << MkPlace("p1", 1), MkPlace("p2", 0) >>,
        << MkTransition("t1"), MkTransition("t2") >>,
        << MkArc("a1", PlaceRef("p1"), TransRef("t1")),
           MkArc("a2", TransRef("t1"), PlaceRef("p2")),
           MkArc("a3", PlaceRef("p2"), TransRef("t2")),
           MkArc("a4", TransRef("t2"), PlaceRef("p1")) >>)

\* A net with a choice (t1 and t3 compete for p1), a join (t3) and a fork
\* (t4), a duplicated arc (a1, a2: addArc accepts both), a source
\* transition t5 without input places and a sink t6, and an independent
\* cycle t7/t8.
RichNet ==
  MkNet("n", << MkPlace("p1", 3), MkPlace("p2", 0), MkPlace("p3", 1),
                MkPlace("p4", 0), MkPlace("p5", 0), MkPlace("p6", 2),
                MkPlace("p7", 0) >>,
        << MkTransition("t1"), MkTransition("t2"), MkTransition("t3"),
           MkTransition("t4"), MkTransition("t5"), MkTransition("t6"),
           MkTransition("t7"), MkTransition("t8") >>,
        << MkArc("a1", PlaceRef("p1"), TransRef("t1")),
           MkArc("a2", PlaceRef("p1"), TransRef("t1")),
           MkArc("a3", TransRef("t1"), PlaceRef("p2")),
           MkArc("a4", PlaceRef("p2"), TransRef("t2")),
           MkArc("a5", TransRef("t2"), PlaceRef("p1")),
           MkArc("a6", PlaceRef("p1"), TransRef("t3")),
           MkArc("a7", PlaceRef("p3"), TransRef("t3")),
           MkArc("a8", TransRef("t3"), PlaceRef("p4")),
           MkArc("a9", PlaceRef("p4"), TransRef("t4")),
           MkArc("a10", TransRef("t4"), PlaceRef("p1")),
           MkArc("a11", TransRef("t4"), PlaceRef("p3")),
           MkArc("a12", TransRef("t5"), PlaceRef("p5")),
           MkArc("a13", PlaceRef("p5"), TransRef("t6")),
           MkArc("a14", PlaceRef("p6"), TransRef("t7")),
           MkArc("a15", TransRef("t7"), PlaceRef("p7")),
           MkArc("a16", PlaceRef("p7"), TransRef("t8")),
           MkArc("a17", TransRef("t8"), PlaceRef("p6")) >>)

\* The cycle net with a self-loop t3 on p1 (arcs p1 -> t3 and t3 -> p1).
SelfLoopNet ==
  [CycleNet EXCEPT
     !.transitions = Append(@, MkTransition("t3")),
     !.arcs = @ \o << MkArc("a5", PlaceRef("p1"), TransRef("t3")),
                      MkArc("a6", TransRef("t3"), PlaceRef("p1")) >>]
=============================================================================
