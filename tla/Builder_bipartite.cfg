CONSTANTS
  i1 = i1
  i2 = i2
  i3 = i3
  i4 = i4
  i5 = i5
  i6 = i6
  i7 = i7
  i8 = i8
  IdSeq <- Ids4
  Names <- OneName
  Markings = {1}
  Numerals <- MCNumerals
  Undefined = undef
  MaxNets = 2
SPECIFICATION Spec
INVARIANT ArcsBipartite
