SPECIFICATION SceneSpec
CONSTANTS
  j1 = j1  j2 = j2
  Job = {j1, j2}
  Tailed = j1
  MaxRunning = 1
  Mishaps <- MCMishaps
  Chunks <- MCChunks
  RingChunks = 2
  OutputCap = 3
INVARIANTS RevokedEndsAll
CHECK_DEADLOCK FALSE
