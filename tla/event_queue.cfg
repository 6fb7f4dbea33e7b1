\* Three usable slots and enough events to go round the ring twice.
CONSTANTS
  Capacity = 4
  MaxEvents = 12
SPECIFICATION FairSpec
INVARIANTS TypeOK SlotsDisjoint
PROPERTIES RefinesFifo AcceptedIsDelivered
CHECK_DEADLOCK FALSE
