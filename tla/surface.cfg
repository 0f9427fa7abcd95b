SPECIFICATION SurfaceSpec
CONSTANTS
  ReviewMembers = {m1, m2}
  MaxRuns = 3
  MaxClicks = 3
  MaxCallsAway = 2
  MaxLostCalls = 1
  Revalidations = 1
PROPERTIES
  PageCatchesUp
INVARIANTS
  ReviewsMeant
CHECK_DEADLOCK FALSE
