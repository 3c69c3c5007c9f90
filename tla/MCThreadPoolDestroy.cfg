SPECIFICATION FairSpec
CONSTANTS
  Workers = {w1, w2}
  Adders = {a1, a2}
  Destroyers = {d1}
  Tasks = {t1}
  NoTask = NoTask
  Unlocked = Unlocked
PROPERTY DestroyReturns
CHECK_DEADLOCK FALSE
