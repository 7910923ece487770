SPECIFICATION Spec
CONSTANTS
  p1 = p1
  p2 = p2
  d1 = d1
  d2 = d2
  h1 = h1
  Procs <- MCProcs
  Domains <- MCDomains
  Hosts <- MCHosts
  DomainOf <- MCDomainOf
  Validity = 3
  Renew = 1
  MaxKeys = 4
  MaxClock = 3
SYMMETRY Symmetry
INVARIANT ServedIsSound
INVARIANT RootUsable
PROPERTY RootKept
