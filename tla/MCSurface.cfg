SPECIFICATION LiveSurface
CONSTANTS
  CommandLines <- Every
  TargetLists <- Lists
  K8sTimeout = 1
  FailureThreshold = 3
INVARIANTS
  SurfaceInv FreshWithinBudget DeliveryWithinWorstCase UsableOrRefused
  TargetsAreFirstOccurrences
PROPERTIES OneClusterPerAnswer EventuallyReady StallEnds
