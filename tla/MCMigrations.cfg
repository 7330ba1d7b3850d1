SPECIFICATION Spec
CONSTANTS
  Instances = {i1, i2, i3}
  Count = 4
  MaxFaults = 2
INVARIANTS
  SchemaIsRecorded
  AppliedInOrder
  FailedWasOvertaken
PROPERTIES
  SchemaGetsComplete
CHECK_DEADLOCK FALSE
