CONSTANTS
  old = old
  new = new
  web = web
  api = api
  Daemons = {old, new}
  Ports <- TwoPorts
  Updates = {web, api}
  Registered = {api}
  MaxStarts = 2
  MaxFaults = 1
SPECIFICATION FairSpec
INVARIANTS
  WholeOrNothing
  AnsweredIsKept
PROPERTIES
  StaleSocketHarmless
  SecondIsHarmless
  StopsWhole
CHECK_DEADLOCK FALSE
