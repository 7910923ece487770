SPECIFICATION Spec
CONSTANTS
  r1 = r1
  r2 = r2
  q1 = q1
  v1 = v1
  v2 = v2
  Elsewhere = Elsewhere
  Apps = {"shop"}
  Services = {"web", "api"}
  ValidNames = {"shop", "web", "api"}
  Requested <- MCRequested
  DefaultService = "web"
  Rank <- MCRank
  Runs <- MCRuns
  RunOf <- MCRunOf
  Added <- MCAdded
  Ports <- MCPorts
  Requests <- MCRequests
  Asked <- MCAsked
  Viewers <- MCViewers
  MaxStreams = 1
  MaxPids = 2
SYMMETRY Symmetry
INVARIANT SlotsExact
 
 
CONSTRAINT Focus
