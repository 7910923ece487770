SPECIFICATION Spec
CONSTANTS
  d1 = d1
  d2 = d2
  Domains <- MCDomains
  MaxRoots = 3
SYMMETRY Symmetry
INVARIANT Recoverable
INVARIANT NothingLeftBehind
