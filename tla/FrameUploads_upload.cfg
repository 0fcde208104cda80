SPECIFICATION UploadsSpec
CONSTANTS
  p1 = p1
  p2 = p2
  Places <- mcPlaces
  MaxLights = 2
  MAX_SDFS = 3
  LightBound = 3
  ShapeBound = 4
CHECK_DEADLOCK FALSE
INVARIANTS UploadsTypeOK  FirstShapeReachesShader
