SPECIFICATION Spec
CONSTANTS
  m1 = m1
  m2 = m2
  MPEs = {m1, m2}
  Rendering <- MCRendering
  Applications <- MCApplications
  Values = {0, 1}
  Textures = {"white", "clut"}
  DefaultTexture = "white"
  Clut = {"clut"}
  Size <- MCSize
  OverlayTop = 6
  BindWhileDisabled = FALSE
  Null = Null
  Junk = Junk
CHECK_DEADLOCK FALSE
PROPERTIES DrawsWithCurrentData DrawsWithCurrentCode
