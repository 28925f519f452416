\* Two sessions, one of them without a readable id, a sweep and a deletion.
CONSTANTS
  x1 = x1
  x3 = x3
  x2 = x2
  d1 = d1
  Sessions = {x1, x3}
  Unreadable = {x3}
  NoSession = NoSession
  Deleters = {d1}
  Sweeper = Sweeper
  KeepLast = 1
SPECIFICATION SessionsSpec
INVARIANTS EntriesHaveTranscripts
PROPERTIES LiveLostUnseen SomethingToContinue SweepsEnd
