\* Two sessions and the sweep alone: a session is resumed while the registry
\* is being asked about it.
CONSTANTS
  x1 = x1
  x2 = x2
  x3 = x3
  d1 = d1
  Sessions = {x1, x2}
  Unreadable = {}
  NoSession = NoSession
  Deleters = {}
  Sweeper = Sweeper
  KeepLast = 1
SPECIFICATION SessionsSpec
PROPERTIES LeaseProtects
