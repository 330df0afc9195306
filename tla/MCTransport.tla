---------------------------- MODULE MCTransport ----------------------------
(***************************************************************************)
(* Two connections, two command frames, one device.  The device id has    *)
(* the shape of a cuid (lowercase letters and digits); one event name has *)
(* a capital and a dot, the command name a capital and a space.           *)
(***************************************************************************)
EXTENDS Transport

CONSTANTS s1, s2, m1, m2

Device1 == {<< "c", "k" >>}
Events2 == {<< "G", "o" >>, << "a", ".", "b" >>}
Commands1 == {<< "S", " ", "t" >>}
Spaces == {" "}
Lower == [ch \in {"c", "k", "G", "o", "a", "b", ".", "S", " ", "t"} |->
            IF ch = "G" THEN "g" ELSE IF ch = "S" THEN "s" ELSE ch]
=============================================================================
