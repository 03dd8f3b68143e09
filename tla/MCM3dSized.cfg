SPECIFICATION Spec
CONSTANTS
  GROWAMOUNT = 5
  MaxEntries = 21
  Sizes = {7}
  Blocks = {b1, b2, b3}
  Gaps = {0}
  Hinted = {"pixel_type", "texture_filter"}
  AllMPEs = {m1, m2}
  NoBlock = NoBlock
  None = None
INVARIANT OnlyGetsLarger
