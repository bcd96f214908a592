SPECIFICATION LiveSpec
CONSTANTS
  Attempts = 2
  MaxStalls = 1
  d1 = d1
  t1 = t1
  blank = blank
  NoText = NoText
  Docs = {d1}
  Texts = {t1, blank}
  Blank = {blank}
  Requests = {1, 2}
  FaultPoints <- ToleratedFaultPoints
  MaxFaults = 2
  MaxCompletes = 2
  Reput = TRUE
CHECK_DEADLOCK FALSE
INVARIANTS
  TypeOK
  ProcessingIsOwned
  SucceededHasText
  NormalizedIsPursued
  BookedWasUploaded
  ExtractedIsPursued
PROPERTIES
  ScheduledIsResolved
  ImplementsLife
