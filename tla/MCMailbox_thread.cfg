SPECIFICATION FairSpec
CONSTANTS
  Signallers = {s1}
  Sender = Sender
  Granter = Granter
  MaxSignals = 2
  MaxMains = 2
  Lengths = {1}
  Forever = Forever
  None = None
INVARIANTS TypeOK MailKept
PROPERTIES Implements MailHeard
CHECK_DEADLOCK FALSE
