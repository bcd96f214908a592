SPECIFICATION MailLiveSpec
CONSTANTS
  Attempts = 1
  MaxStalls = 0
  a1 = a1
  m1 = m1
  m2 = m2
  s1 = s1
  s2 = s2
  k1 = k1
  t1 = t1
  h1 = h1
  NoText = NoText
  NoHash = NoHash
  NoMessages = NoMessages
  Docs = {k1}
  Texts = {t1}
  Blank = {}
  Requests = {}
  FaultPoints <- MailFaultPoints
  MaxFaults = 1
  MaxCompletes = 0
  Reput = FALSE
  Accounts = {a1}
  Msgs = {m1, m2}
  Attachments <- OneAttachment
  Readable = {k1}
  Hash <- SameHash
  Syncs = {s1, s2}
  Source <- OneAccount
  Batch <- Mails
CHECK_DEADLOCK FALSE
INVARIANTS
  MailTypeOK
  MessageIsPursued
  SyncIsComplete
  PendingIsScheduledOrDropped
PROPERTIES
  MessageIsResolved
  ImplementsLife
