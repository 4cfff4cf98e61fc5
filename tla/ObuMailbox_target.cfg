\* A store that undoes the end of a wait.
CONSTANT
  QMax = 3
SPECIFICATION MailboxSpec
INVARIANT MailboxMarksAsked
CHECK_DEADLOCK FALSE
