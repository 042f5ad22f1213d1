\* Four keys grow the table from two buckets to eight and empty it again.
SPECIFICATION Spec
CONSTANTS
  k1 = k1  k2 = k2  k3 = k3  k4 = k4
  Key = {k1, k2, k3, k4}  Val = {a, b}  Nil = Nil
  HashKey <- MCHashKey
  kHashBits = 4
  kInitialCapacity = 2
  kGrowthMultiplier = 2
  kMaxLoadNum = 3
  kMaxLoadDen = 4
  Counts = {1}
INVARIANTS WellPlaced LoadBounded
PROPERTIES NoThrashing ImplementsDictionary
