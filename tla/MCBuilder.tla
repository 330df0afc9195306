----------------------------- MODULE MCBuilder -----------------------------
(* Builder with a pool of model-value ids. *)
EXTENDS Builder

CONSTANTS i1, i2, i3, i4, i5, i6, i7, i8

Ids4 == << i1, i2, i3, i4 >>
Ids8 == << i1, i2, i3, i4, i5, i6, i7, i8 >>

\* One name: enough where names play no part in the property.
OneName == { << "a" >> }
\* A name and the name "a (1)" that copy derives from it, so that copy
\* has to probe past a taken name.
TwoNames == { << "a" >>, << "a", " (1)" >> }
MCNumerals == << " (1)", " (2)", " (3)", " (4)" >>
=============================================================================
