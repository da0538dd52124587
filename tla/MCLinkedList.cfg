CONSTANTS
  n1 = n1 n2 = n2 n3 = n3 p1 = p1 p2 = p2 t1 = t1 t2 = t2
  Nodes = {n1, n2, n3}
  Vals = {p1, p2}
  Threads = {t1, t2}
  NULL = NULL Nobody = Nobody UnsignedMax = 7
SPECIFICATION Spec
SYMMETRY Symmetry
INVARIANTS TypeOK IsSequence PushesOnlyLose
\* The nodes are used up, and the list may be destroyed.
CHECK_DEADLOCK FALSE
