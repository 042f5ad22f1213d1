\* Writes over a memory budget: which entries eviction takes, next to reads and TTLs.
SPECIFICATION Spec
CONSTANTS
  c1 = c1  c2 = c2  k1 = k1  k2 = k2  k3 = k3  f1 = f1  f2 = f2
  small = small  large = large
  Key = {k1, k2, k3}  Field = {}  Str = {small, large}  Nil = Nil
  Client = {c1}
  Size <- MCSize
  kPerEntryOverheadBytes = 2
  kPerListElementOverheadBytes = 1
  kPerHashFieldOverheadBytes = 1
  kSampleSize = 2
  TicksPerSecond = 1
  MaxTimePoint = 100
  SampleMayBeEmpty = FALSE
  Commands = {"GET", "SET", "EXPIRE", "MAXMEMORY"}
  Pushes <- NoPushes
  KeyLists <- TwoKeyLists
  Seconds = {1}
  Index = {}
  Budgets = {0, 5, 9}
  MaxNow = 1
  MaxSeq = 4
  MaxListLen = 0
SYMMETRY KeySymmetry
INVARIANTS MemoryAccounted WithinBudget
PROPERTIES ImplementsKeyspace
