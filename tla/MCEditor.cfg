SPECIFICATION MCSpec
CONSTANTS
  None = None
  x1 = x1  x2 = x2  y1 = y1  y2 = y2
  Limit = 1
  MaxVersion = 2
  Marks = {x1, x2}
  MarkVersions = 3
  Docs = {x1, x2}
  DocVersions = 3
  Pages = {x1, x2}
  Queries = {y1, y2}
  Names = {x1, x2}
  Defs = {y1, y2}
  Vals = {z1}
  MaxOps = 2
  N = 2
  Stride = 1
  MaxStroke = 3
  MaxPoints = 3
  Searches = {y1, y2}
  Passwords = {z1}
  Matches = {k1}
INVARIANTS
  TypeOK
  OneFatePerMark
  ShownIsMade
  LaidOut
PROPERTIES
  KeptUntilStored
  HistoryIsTrue
  SentIsSeen
CHECK_DEADLOCK FALSE
