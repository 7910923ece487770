CONSTANTS
  r1 = r1
  web = web
  api = api
  Services = {web, api}
  Readers = {r1}
  Follows <- MCFollows
  MaxServices = 1
  MaxLines = 2
  MaxBytes = 3
  WireCap = 1
  Texts <- MCTexts
  MaxPosts = 1
  MaxAppends = 3
  MaxFaults = 1
SPECIFICATION FairSpec
INVARIANTS
  NoLostWakeup
  Gapless
  NoLeakedSubscription
PROPERTIES
  CatchesUp
  GoneEnds
