SPECIFICATION Spec
CONSTANTS
  Task = {t1, t2, t3}
  MaxWrites = 2
  Window = 2
  Word = 8
  MaxClock = 6
INVARIANTS TypeOK CountIsExact
