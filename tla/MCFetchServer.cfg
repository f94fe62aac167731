SPECIFICATION FairSpec
CHECK_DEADLOCK FALSE
CONSTANTS
  Conns = {c1, c2, c3}
  Fds = {1, 2, 3}
  Free = Free
  Peer = Peer
  NoFd = NoFd
  Allowed = {c1, c2, c3}
  Huge = {c3}
  Calls = {c1}
  Oversized = {c2}
  Slow = {c1, c2}
  Impatient = {c1}
  Limit <- OneTick
INVARIANTS
  HeldOnce
  CallKept
PROPERTIES
  Serves
  
