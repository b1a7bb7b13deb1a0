\* Every push of up to three events through all stages.
SPECIFICATION Spec
CONSTANTS
  RawEvent <- MCRawEvent
  Clock <- MCClock
  Padded <- MCPadded
  NotString = "null"
  MaxEvents = 3
INVARIANTS TypeOK EventsTraced PlacedByItsTime LatestOfThePush DeliveriesMarked
