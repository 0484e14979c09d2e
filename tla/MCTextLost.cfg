CONSTANTS
  SampleTexts <- MCTexts
  SampleIds = {1}
  MaxRecords = 1
INIT SilverInit
NEXT SilverNext
INVARIANT TextAroundIsKept
CHECK_DEADLOCK FALSE
