SPECIFICATION FairSpec
CONSTANTS
  GROWAMOUNT = 20
  MaxEntries = 21
  Sizes = {14}
  Blocks = {b1, b2, b3}
  Gaps = {0, 8}
  Hinted = {"pixel_type", "texture_filter"}
  AllMPEs = {m1, m2}
  NoBlock = NoBlock
  None = None
INVARIANTS  DrawsOwnTriangle DrawsAsHinted NothingLeftBehind
PROPERTIES DrawsEachOnce ExecuteReturns
