SPECIFICATION FairSpec
CONSTANTS
  Senders = {s1, s2}
  Interrupts = {i1}
  Receiver = Receiver
  Homes = {h1, h2}
  Movers = {s1, Receiver}
  Capacity = 2
  MaxSends <- Offers
  None = None
INVARIANTS TypeOK EndsWoken
PROPERTIES Implements SendEnds
CHECK_DEADLOCK FALSE
