SPECIFICATION Spec
CONSTANTS
  m1 = m1
  m2 = m2
  MPEs = {m1, m2}
  Rendering <- MCRendering
  Applications = {{"texture", "bound"}}
  Values = {0, 1}
  Textures = {"white", "rgb"}
  DefaultTexture = "white"
  Clut = {}
  Size <- MCSize
  OverlayTop = 6
  BindWhileDisabled = TRUE
  Null = Null
  Junk = Junk
CHECK_DEADLOCK FALSE
PROPERTY DrawsWithCurrentData
