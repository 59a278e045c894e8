SPECIFICATION PatientSpec
CONSTANTS
  None = None
  Marks = {m1}
  Limit = 1
  MaxVersion = 2
PROPERTIES KeptUntilStored
CHECK_DEADLOCK FALSE
