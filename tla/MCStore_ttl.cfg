\* Two clients race on two keys with TTLs, against the sweeper and the clock.
SPECIFICATION Spec
CONSTANTS
  c1 = c1  c2 = c2  k1 = k1  k2 = k2  k3 = k3  f1 = f1  f2 = f2
  small = small  large = large
  Key = {k1, k2}  Field = {}  Str = {small}  Nil = Nil
  Client = {c1, c2}
  Size <- MCSize
  kPerEntryOverheadBytes = 2
  kPerListElementOverheadBytes = 1
  kPerHashFieldOverheadBytes = 1
  kSampleSize = 2
  TicksPerSecond = 1
  MaxTimePoint = 100
  SampleMayBeEmpty = FALSE
  Commands = {"GET", "SET", "EXPIRE", "TTL", "DEL", "EXISTS", "KEYS", "FLUSHALL"}
  Pushes <- NoPushes
  KeyLists <- TwoKeyLists
  Seconds = {0, 1}
  Index = {}
  Budgets = {}
  MaxNow = 3
  MaxSeq = 4
  MaxListLen = 0
SYMMETRY KeySymmetry
INVARIANTS TypeOK TouchedEntryIsPresent StampsDistinct
PROPERTIES ReapsOnlyTheDead 
VIEW View
