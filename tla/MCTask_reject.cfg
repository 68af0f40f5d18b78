CONSTANTS
  EventIds = {"start", "reject"}
  OccasionOf <- MCOccasionOf
  PublisherLayers = 0
  Deliveries = {d1}
  Requests = {c1}
  Creators = {c1}
  Sessions = {s1}
  MaxDeliveryAttempts = 1
  Absent = Absent
  NoCheckpoint = NoCheckpoint
  NoSession = NoSession
  NoEvent = NoEvent
SPECIFICATION Spec
INVARIANT RejectionNeverApplied
CHECK_DEADLOCK FALSE
