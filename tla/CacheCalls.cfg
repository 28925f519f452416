\* Two calls on k1 and one on k2, which may ask for maxAge = 0, in a cache that holds one entry; the data
\* changes once, one read, load or write fails.
CONSTANTS
  c1 = c1
  c2 = c2
  c3 = c3
  k1 = k1
  k2 = k2
  t1 = t1
  t2 = t2
  NoCall = NoCall
  NoEntry = NoEntry
  Keys = {k1, k2}
  Tags = {t1, t2}
  MaxEntries = 1
  Calls = {c1, c2, c3}
  KeyOf <- TwoKeys
  TagsFor <- SomeTags
  MayBypass = {c3}
  Uncacheable = {2}
  MaxVersion = 1
  MaxCacheFaults = 1
SPECIFICATION CacheSpec
INVARIANTS StoreSound SingleFlight FreshAfterInvalidate
PROPERTIES CallsSettle
\* Every call returns in the end.
CHECK_DEADLOCK FALSE
