\* The blocking receiver discards tokens it has not served.
SPECIFICATION FairChannelSpec
CONSTANTS
  Capacity = 4
  Pollings = {FALSE}
  MaxSends = 3
PROPERTIES
  CatchesUp
CHECK_DEADLOCK FALSE
