SPECIFICATION FairSpec
CONSTANTS
  p1 = p1  p2 = p2  h1 = h1  h2 = h2  pinned = pinned  open = open
  Job = {pinned, open}
  Proc = {p1, p2}
  Host = {h1, h2}
  None = None
  MaxFaults = 2
  Task <- MCTask
  ProcOf <- MCProcOf
  JobOf <- MCJobOf
  HostOf <- MCHostOf
  Pin <- MCPin
INVARIANTS TypeOK OneBuilder
PROPERTIES ServesJobs OnlyUnheardAreForgotten PendingIsClaimed
\* Every job has been built and no fault is left.
CHECK_DEADLOCK FALSE
