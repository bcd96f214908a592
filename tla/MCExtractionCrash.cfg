SPECIFICATION Spec
CONSTANTS
  Attempts = 2
  MaxStalls = 1
  d1 = d1
  t1 = t1
  blank = blank
  NoText = NoText
  Docs = {d1}
  Texts = {t1, blank}
  Blank = {blank}
  Requests = {1}
  FaultPoints <- EnqueueWindow
  MaxFaults = 1
  MaxCompletes = 1
  Reput = FALSE
CHECK_DEADLOCK FALSE
INVARIANT ExtractedIsPursued
