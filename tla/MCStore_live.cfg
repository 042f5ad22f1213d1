\* What must eventually happen: methods return, expired keys are reclaimed, the destructor joins.
SPECIFICATION FairSpec
CONSTANTS
  c1 = c1  c2 = c2  k1 = k1  k2 = k2  k3 = k3  f1 = f1  f2 = f2
  small = small  large = large
  Key = {k1, k2}  Field = {}  Str = {small}  Nil = Nil
  Client = {c1, c2}
  Size <- MCSize
  kPerEntryOverheadBytes = 2
  kPerListElementOverheadBytes = 1
  kPerHashFieldOverheadBytes = 1
  kSampleSize = 2
  TicksPerSecond = 1
  MaxTimePoint = 100
  SampleMayBeEmpty = FALSE
  Commands = {"GET", "SET", "EXPIRE", "KEYS", "MAXMEMORY"}
  Pushes <- NoPushes
  KeyLists <- TwoKeyLists
  Seconds = {1}
  Index = {}
  Budgets = {5}
  MaxNow = 2
  MaxSeq = 3
  MaxListLen = 0
PROPERTIES ExpiredIsReclaimed MethodsReturn DestructorJoins
