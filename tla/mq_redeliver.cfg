\* One producer and one consumer process that may be started again, two faults.
\* Processes end and are not started for ever.
CHECK_DEADLOCK FALSE
SPECIFICATION FairSpec
CONSTANTS
  Producer = p
  Consumer = {c1}
  Messages = 2
  MaxStarts = 2
  MaxFaults = 2
INVARIANTS
  TypeOK
  NothingLost
PROPERTIES
  AtLeastOnce
  DestructorReturns
