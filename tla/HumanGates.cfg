\* Two parallel calls of one thread, one of them without an owner, two
\* approvals, two questions; a surface and a bystander, two screens.
CONSTANTS
  k1 = k1
  k2 = k2
  t1 = t1
  s1 = s1
  b1 = b1
  u1 = u1
  u2 = u2
  alice = alice
  bob = bob
  Surfaces = {s1}
  Bystanders = {b1}
  SubjectOf <- Identities
  NoOne = NoOne
  Nothing = Nothing
  Timeout = Timeout
  MaxApprovals = 2
  Calls = {k1, k2}
  Threads = {t1}
  ThreadOf <- CallThreads
  Screens = {u1, u2}
  NoScreen = NoScreen
  MaxQuestions = 2
  OwnerOfRun <- RunOwners
  MaxPauses = 2
SPECIFICATION GatesSpec
INVARIANTS OneDecision CardsStayDismissed AskHonest
PROPERTIES GatesOpen
