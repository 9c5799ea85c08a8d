SPECIFICATION Spec
CONSTANTS
  Counts = {1, 2}
  Capacity = 2
  MaxChanges = 1  MaxWrites = 1  MaxFonts = 1
  NoData = NoData  NoPipeline = NoPipeline
INVARIANTS SubResourcesFollow
PROPERTIES BuffersAtRest CatchesUp
CHECK_DEADLOCK FALSE
