INIT SurfaceInit
NEXT SurfaceNext
CONSTANTS
  ReviewMembers = {m1, m2}
  MaxRuns = 3
  MaxClicks = 3
  MaxCallsAway = 2
  MaxLostCalls = 1
  Revalidations = 1
INVARIANTS
  ForkNoticeTrue
CHECK_DEADLOCK FALSE
