CONSTANTS
  web = web
  api = api
  db = db
  Services = {web, api, db}
  Readers = {}
  Follows <- NoFollows
  MaxServices = 2
  MaxLines = 3
  MaxBytes = 4
  WireCap = 1
  Texts <- MCTexts
  MaxPosts = 1
  MaxAppends = 4
  MaxFaults = 1
  Pages = {1}
  Cats = {1}
  Watched = web
  Tails = {0, 1, 3}
SPECIFICATION ClientSpec
INVARIANTS
  Bounded
  RecentlyActiveKept
  CutsBehindLines
  
  TailExact
  PrintedOnce
CONSTRAINT Focus
