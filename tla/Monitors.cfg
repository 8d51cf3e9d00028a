SPECIFICATION MSpec
CONSTANTS
  Givers = {g1, g2, g3}
  Takers = {k1, k2, k3}
  Threads = {g1, g2, g3, k1, k2, k3}
  Owner = k1
  Calls = 2
  MaxLatch = 6
  MaxRoom = 2
INVARIANTS HandedOverInOrder NoneSleeps
PROPERTIES AllReturn
CHECK_DEADLOCK FALSE
