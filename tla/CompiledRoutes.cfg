INIT BuildsInit
NEXT BuildsNext
CONSTANTS
  Unset = Unset
  Durations <- MCDurations
  Projects <- MCProjects
INVARIANT RoutesAdmitGrants
CHECK_DEADLOCK FALSE
