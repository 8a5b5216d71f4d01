SPECIFICATION Spec
CONSTANTS
  p1 = p1
  p2 = p2
  id1 = id1
  id2 = id2
  id3 = id3
  id4 = id4
  id5 = id5
  i1 = i1
  i2 = i2
  u1 = u1
  u2 = u2
  u3 = u3
  b1 = b1
  b2 = b2
  NoStory = NoStory
  Poll <- TwoPolls
  Offered <- Overlapping
  Item <- TwoItems
  Id <- FiveIds
  Url = {u1, u2, u3}
  Body = {b1, b2}
  Feed <- Apart
  Page <- Resolved
  Old <- OneItem
  Short <- TwoItems
  Lenient <- OnePoll
  Backfill <- None
  KeepForever = FALSE
  MaxCrashes = 1
SYMMETRY AnyId
INVARIANTS TypeOK CreditsAreTrue
PROPERTIES KeepsItsAddress
