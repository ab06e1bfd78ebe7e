SPECIFICATION LibsSpec
CONSTANTS
  Root = Root
  NoEdge = NoEdge
  NoLock = NoLock
  Empty = Empty
  NoTouch = NoTouch
  Unset = Unset
  a = a
  n1 = n1
  n2 = n2
  f1 = f1
  f2 = f2
  Mouse = Mouse
  NoBody = NoBody
  NoPlace = NoPlace
  Unknown = Unknown
  Inputs <- Misled
  NodeWidth <- Widths
  NodeHeight <- Heights
  LabelWidth = 2
  NodeSep = 4
  EdgeSep = 1
  RankSep = 6
  MaxSweeps = 24
  MaxExchanges = 4
  Names = {a}
  MaxId = 1
  Wishes <- TheWishes
  MaxTreeNodes = 8
  Draws <- TheDraws
  Delays = {0, 1}
  Duration = 1
  MaxNodes = 2
  MaxDraws = 3
  Points = {0, 4, 8}
  Spots = {0, 4}
  Fingers = {1, 2, 3}
  MaxScale = 1
  MaxX = 8
  MaxGestures = 2
  Length = 8
  Stops <- TheStops
  Domains <- TheDomains
  MaxBrushings = 2
  MaxCalls = 2
  MaxInputs = 1
  Bodies = {n1, n2}
  Touches = {f1, f2}
  Heat = 2
  MaxDrags = 3
  MaxStops = 2
  Places <- ThePlaces
  Extents <- TheSquares
  Grid = 32
  Close = 64
  MaxData = 2
  MaxPoints = 4
INVARIANTS
  MinLenRespected
CHECK_DEADLOCK FALSE
