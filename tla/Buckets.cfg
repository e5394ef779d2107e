SPECIFICATION Spec
CONSTANTS
  Ids = {a, b, c}
  open_buckets = 2
  MaxKey = 6
  null_bkt = 99
INVARIANTS
  OneGoodCopy
  NumElmsCountsCopies
  NoCopyBehind
PROPERTIES
  ImplementsBucketSpec
  NextBucketReturns
CHECK_DEADLOCK FALSE
