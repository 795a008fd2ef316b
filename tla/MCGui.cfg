SPECIFICATION guiSpec
CONSTANTS
  Width = 9
  Height = 8
  MAX_WINDOWS = 3
  TitleHeight = 2
  TaskBarHeight = 2
  Geometries <- MCGeometries
  MouseAt <- MCMouseAt
  mouse_t <- MCMouse
  BlackPixels <- MCBlack
  WhitePixels <- MCWhite
  ClientPoints <- MCClientPoints
INVARIANTS
  guiTypeOK
  LineIsStraight
  PictureIsRight
CHECK_DEADLOCK FALSE
