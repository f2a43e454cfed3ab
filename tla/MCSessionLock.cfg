SPECIFICATION FairSpec
CONSTANTS
  Task = {t1, t2, t3, t4}
  Session = {s1, s2}
  Lock = {k1, k2}
  NoLock = NoLock
INVARIANTS
  TypeOK
  MutualExclusion
  DictionaryExact
  WakeupNotLost
PROPERTIES
  TurnsInOrder
  EveryWaiterMoves
