SPECIFICATION Spec
CONSTANTS
  MPEs = {m1, m2, m3}
  NumMPEs = 2
  Textures = {t1, t2}
  Disciplined = TRUE
INVARIANTS NoLeak VectorRestored ReportsMeetContext OnlyOwnMPEsRun BoundTextureLive
