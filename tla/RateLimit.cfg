\* A caller of a sliding limiter, one of a per-route limiter and a login, and
\* room for two of the three windows.
CONSTANTS
  ip = ip
  path = path
  user = user
  a1 = a1
  a2 = a2
  Callers = {ip, path}
  Sliders = {ip}
  Logins = {user}
  StoreKeys = {path, ip, user}
  Attempts = {a1, a2}
  MaxEntries = 2
  WindowMs = 3
  Budget = 3
  MaxAttempts = 2
  LockoutMs = 2
  MaxTime = 7
  MaxCount = 5
SPECIFICATION LimitsSpec
INVARIANTS NoDoubleBurst GuessBound
PROPERTIES WaiterServed
\* The clock has an end.
CHECK_DEADLOCK FALSE
