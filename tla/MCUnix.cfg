CONSTANTS
  f1 = f1
  Nil = Nil
  Procs = {p1, p2}
  Socks = {s1, s2, s3, s4}
  Names = {n1}
  Files = {}
  RingSz = 1
  MaxLen = 1
  Backlog = 2
  ScmMax = 2
  ScmQLen = 2
  Types = {"stream"}
  Calls = {"socket", "bind", "unlink", "listen", "connect", "accept", "send", "recv", "close"}
  MaxRefs = 4
SPECIFICATION UnixSpec
INVARIANTS NoStraySocket ParkedHasNothing 
SYMMETRY Symmetry
CHECK_DEADLOCK FALSE
