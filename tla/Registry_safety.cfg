\* Two workers and main, two services, two names.
SPECIFICATION Spec
CONSTANTS
  Workers = {w1, w2}
  Main = main
  Names = {n1, n2}
  NoName = NoName
  NoCall = NoCall
  MaxServices = 2
SYMMETRY Symmetry
INVARIANT IInv
PROPERTY NamesAreStable
CHECK_DEADLOCK FALSE
