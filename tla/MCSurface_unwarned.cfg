SPECIFICATION SurfaceSpec
CONSTANTS
  CommandLines <- Unwarned
  TargetLists <- Lists
  K8sTimeout = 1
  FailureThreshold = 3
INVARIANT NoWarningMeansFresh
