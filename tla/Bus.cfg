SPECIFICATION Spec
CONSTANTS
  Events = {e1, e2}
  Listeners = {l1}
  NumWorkers = 2
  NoEvent = none
  NoOne = 0
INVARIANTS
  Fifo
  NoSleepOnWork
  NoCallAfterUnsubscribe
PROPERTIES
  EventsDispatched
  StopsUnlessMissed
CHECK_DEADLOCK FALSE
