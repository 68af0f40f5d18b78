CONSTANTS
  EventIds = {"start", "approve"}
  OccasionOf <- MCOccasionOf
  PublisherLayers = 0
  Deliveries = {d1, d2}
  Requests = {c1}
  Creators = {c1}
  Sessions = {s1, s2}
  MaxDeliveryAttempts = 2
  Absent = Absent
  NoCheckpoint = NoCheckpoint
  NoSession = NoSession
  NoEvent = NoEvent
SPECIFICATION Spec
INVARIANTS
  TypeOK
  CompleteMeansDone
  CheckpointRestorable
  StartAppliedOnce
PROPERTIES
  RefinesTaskMachine
  ResumeKeepsSession
SYMMETRY Symmetry
CHECK_DEADLOCK FALSE
