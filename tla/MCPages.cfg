SPECIFICATION MCSpec
CONSTANTS
  None = None
  x1 = x1  x2 = x2  x3 = x3
  y2 = y2  z1 = z1
  Reqs = {x1, x2}
  MaxToken = 2
  MaxGuest = 2
  LibraryDocs = {x1, x2, x3}
  WindowSize = 1
  PanelDocs = {x1, x2}
  Offsets = {0, 1}
  Formats = {y1}
  MaxPages = 2
  Texts = {x1}
  Ticks = {x2}
  Pictures = {x3}
  Required = {x1, x3}
  Vals = {y1}
  Empty = y2
  MaxPolls = 0
  LetterPages = 1
  MaxCalls = 2
  Names = {x1, x2}
  Unwritten = y1
  Fonts = {z1, z2}
  MaxRenders = 2
  People = {x1}
  BuilderPages = 2
  BuilderLimit = 1
  MaxRows = 1
  MaxFields = 1
  MaxSaves = 2
  SignDocs = {x1, x2}
  Sigs = {y1}
  SignPages = 2
  SignLimit = 1
  MaxIds = 1
  MaxHead = 2
  MaxAsks = 1
  Places = {"dashboard", "settings", "doc", "verify"}
  Unsafe = {"doc"}
  AdFree = {"doc", "verify"}
  SettingsPlace = "settings"
  Uploads = {x1}
  ToolFiles = {x1, x2}
  MaxPicked = 2
  MaxRuns = 2
  ToolPages = 2
INVARIANTS TypeOK SentIsSeen ListsAreTrue VisitorKeeps
PROPERTIES WorkIsInReach
CHECK_DEADLOCK FALSE
