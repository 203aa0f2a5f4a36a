SPECIFICATION Spec
CONSTANTS
  p1 = p1
  p2 = p2
  p3 = p3
  Threads = {t1}
  LocalPeers <- ThreePeers
  Exceptions = {"Platform::Exception", "task_discarded"}
  UI = UI
  Nobody = Nobody
  NoPeer = NoPeer
INVARIANTS LocksAreReleased ToldInsideLock
PROPERTY UIEnters
CHECK_DEADLOCK FALSE
