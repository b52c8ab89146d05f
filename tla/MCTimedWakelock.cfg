CONSTANTS
  p1 = p1
  p2 = p2
  Posters = {p1, p2}
  WakeCounts = {1, 2}
  MaxRefs = 2
  Timeout = 2
  MaxLag = 1
  MaxTime = 5
SYMMETRY PosterSymmetry
SPECIFICATION TimedSpec
INVARIANTS
  WakeEventsProtected
  HeldOnlyIfReferenced
  ReleasedInTime
PROPERTIES
  ImplementsSharedWakelock
