CONSTANTS
  EventIds = {"start"}
  OccasionOf <- MCOccasionOf
  PublisherLayers = 0
  Deliveries = {d1}
  Requests = {c1}
  Creators = {c1}
  Sessions = {s1}
  MaxDeliveryAttempts = 2
  Absent = Absent
  NoCheckpoint = NoCheckpoint
  NoSession = NoSession
  NoEvent = NoEvent
SPECIFICATION Spec
INVARIANT AckedNotLost
CHECK_DEADLOCK FALSE
