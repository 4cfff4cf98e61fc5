\* The byte of the status as the radio's thread and the loop write it.
CONSTANT
  QMax = 3
SPECIFICATION MailboxFairSpec
INVARIANTS MailboxReadFinds MailboxWaitHasTarget
PROPERTIES MailboxLoopTurns MailboxKeepsReading MailboxOpenFrees
CHECK_DEADLOCK FALSE
