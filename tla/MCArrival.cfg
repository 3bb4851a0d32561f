\* Liveness, part by part: deliveries, epics, the event feed, live transcripts.
SPECIFICATION ArrivalSpec
CONSTANTS
  c1 = c1
  c2 = c2
  w1 = w1
  w2 = w2
  d1 = d1
  d2 = d2
  None = None
  Off = Off
PROPERTIES
  DeliveriesFinish
  EpicFinishes
  PagesCatchUp
CHECK_DEADLOCK FALSE
