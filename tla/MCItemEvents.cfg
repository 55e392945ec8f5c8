SPECIFICATION FairSpec
CONSTANTS
  None = None
  Malformed = Malformed
  Mistyped = Mistyped
  Procs = {p1, p2}
  Events = {e1}
  Items = {i1}
  MaxRetries = 2
  MaxInterruptions = 2
INVARIANTS TypeOK NoEventLost DuplicatesNeedInterruptions
PROPERTIES EveryEventEnds
