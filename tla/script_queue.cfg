SPECIFICATION FairSpec
CONSTANTS
  Token = {k1, k2, k3}
  None = None
INVARIANTS TypeOK InStepUnlessShifted
PROPERTIES StrayIsTold CompleteIsFinished QueueEnds
