SPECIFICATION Spec
CONSTANTS
  m1 = m1
  m2 = m2
  MPEs = {m1, m2}
  Rendering <- MCRendering
  Applications = {{"texture", "env", "lighting"}}
  Values = {0, 1}
  Textures = {"white"}
  DefaultTexture = "white"
  Clut = {}
  Size <- MCSize
  OverlayTop = 6
  BindWhileDisabled = FALSE
  Null = Null
  Junk = Junk
CHECK_DEADLOCK FALSE
PROPERTY DrawsWithCurrentData
