--------------------------- MODULE MCTypeCatalog ---------------------------
(* The type catalog with the first two entries of GLOBAL_TYPES. *)
EXTENDS TypeCatalog

CONSTANTS u1, s1, s2, t1, t2, t3, t4

FirstGlobals == << "number", "string" >>
=============================================================================
