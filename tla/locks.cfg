SPECIFICATION FairSpec
CONSTANTS
  Threads = {t1, t2, t3}
  Keys = {k1, k2}
  Mutexes = {m1, m2, m3}
  NoThread = NoThread
  NoMutex = NoMutex
  NoKey = NoKey
INVARIANTS
  MutualExclusion
  OneMutexPerKey
PROPERTIES
  CallsReturn
  ImplementsKeyedMutex
