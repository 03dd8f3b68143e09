SPECIFICATION Spec
CONSTANTS
  MPEs = {m1, m2, m3}
  NumMPEs = 2
  Textures = {t1, t2}
  Disciplined = FALSE
INVARIANT EndsLiveContext
