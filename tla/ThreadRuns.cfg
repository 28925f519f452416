\* Three follow-ups on one thread and one plain POST, two clients that come, go and
\* come back.
CONSTANTS
  a = a
  b = b
  NoRun = 0
  Pumped = {1, 2, 3}
  Pulled = {9}
  Clients = {a, b}
  MaxPosts = 3
  MaxFrames <- FewFrames
SPECIFICATION Spec
INVARIANTS ReplayFaithful OneAtATime NoLeak
PROPERTIES FollowUpsRun
\* Every run ends, and nobody has to come back.
CHECK_DEADLOCK FALSE
