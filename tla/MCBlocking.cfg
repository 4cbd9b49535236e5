CONSTANTS
  p1 = p1
  p2 = p2
  p3 = p3
  a1 = a1
  a2 = a2
  a3 = a3
  lk = lk
  w1 = w1
  w2 = w2
  w3 = w3
  m1 = m1
  Nil = Nil
  Procs = {p1, p2, p3}
  NTimer = 2
  MaxTimeout = 2
  Callers = {"sleep", "poll", "pollforever", "net"}
SPECIFICATION BlockingSpec
INVARIANTS WaitersSound 
PROPERTIES ServesInOrder
CHECK_DEADLOCK FALSE
