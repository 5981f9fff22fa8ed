\* Both receivers, at the code's capacity.
SPECIFICATION FairChannelSpec
CONSTANTS
  Capacity = 4
  Pollings = {TRUE, FALSE}
  MaxSends = 7
INVARIANTS
  ChannelTypeOK
  NewestKept
  NoPrematureEnd
PROPERTIES
  ReceivedInOrder
  PollerCatchesUp
CHECK_DEADLOCK FALSE
