\* Two workers, two callers, one destroyer.
SPECIFICATION FairSpec
CONSTANTS
  Workers = {w1, w2}
  Adders = {a1, a2}
  Destroyers = {d1}
  Tasks = {t1, t2, t3}
  NoTask = NoTask
  Unlocked = Unlocked
INVARIANTS TypeOK SizeCountsList FifoNoLoss NoLostSignal 
PROPERTIES ImplementsQueue TasksStart
CHECK_DEADLOCK FALSE
