SPECIFICATION FairOperations
CONSTANTS
  Language = {l1}
  MaxJobs = 1
  Notification = {n1}
  MaxEpisode = 1
  MaxAttempts = 2
  MaxParts = 2
INVARIANTS
  InstalledIsComplete
  RepeatedOnlyUnknown
PROPERTIES
  DeliveryKept
  DeliverySettles
