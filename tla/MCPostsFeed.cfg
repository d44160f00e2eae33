SPECIFICATION FairSpec
CONSTANTS
  Keys = {1, 2}
  OwnKeys = {2}
  Vals = {a, b, bad}
  Malformed = {bad}
  Null = Null
  MaxCalls = 2
  MaxQueue = 2
  MaxPosts = 2
INVARIANTS
  OnePerPost
  FeedExact
  ShownCatchesUp
PROPERTIES OrderStable EventuallyShown
