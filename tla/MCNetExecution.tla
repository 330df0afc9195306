--------------------------- MODULE MCNetExecution ---------------------------
(* NetExecution instantiated on the nets of MCNets. *)
EXTENDS NetExecution, MCNets
=============================================================================
