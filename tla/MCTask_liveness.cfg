CONSTANTS
  EventIds = {"start", "approve"}
  OccasionOf <- MCOccasionOf
  PublisherLayers = 1
  Deliveries = {d1}
  Requests = {c1}
  Creators = {c1}
  Sessions = {s1}
  MaxDeliveryAttempts = 2
  Absent = Absent
  NoCheckpoint = NoCheckpoint
  NoSession = NoSession
  NoEvent = NoEvent
SPECIFICATION FairSpec
PROPERTIES
  EventLeavesSubscription
CHECK_DEADLOCK FALSE
