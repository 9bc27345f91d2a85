SPECIFICATION Spec
CONSTANTS
  n1 = n1
  g1 = g1
  g2 = g2
  Anon = Anon
  Name <- MCName
  Group <- TwoGroups
  MaxBitpos = 2
  MaxVersion = 1


SYMMETRY Symmetry

INVARIANT RelayGroupsFresh
 
