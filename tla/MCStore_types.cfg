\* One client mixes the three value types on one key, against the sweeper and the clock.
SPECIFICATION Spec
CONSTANTS
  c1 = c1  c2 = c2  k1 = k1  k2 = k2  k3 = k3  f1 = f1  f2 = f2
  small = small  large = large
  Key = {k1}  Field = {f1, f2}  Str = {small, large}  Nil = Nil
  Client = {c1}
  Size <- MCSize
  kPerEntryOverheadBytes = 2
  kPerListElementOverheadBytes = 1
  kPerHashFieldOverheadBytes = 1
  kSampleSize = 2
  TicksPerSecond = 2
  MaxTimePoint = 100
  SampleMayBeEmpty = FALSE
  Commands = {"GET", "SET", "EXPIRE", "TTL", "LPUSH", "RPUSH", "LLEN", "LRANGE", "HSET", "HGET", "HDEL", "HGETALL", "HLEN", "HEXISTS", "HKEYS", "HVALS"}
  Pushes <- OnePushes
  KeyLists <- OneKeyLists
  Seconds = {1}
  Index <- Positions
  Budgets = {}
  MaxNow = 3
  MaxSeq = 4
  MaxListLen = 3
INVARIANTS MemoryAccounted NoEmptyCollection
 
