SPECIFICATION Spec
CONSTANTS
  None = None
  t1 = t1
  t2 = t2
  p1 = p1
  p2 = p2
  Keys = {k1}
  Values = {v1, v2}
  Inodes = {i1, i2, i3, i4}
  Threads = {t1, t2}
  Pids = {p1, p2}
  Pid <- MCOwnProcess
PROPERTY ImplementsPromise
SYMMETRY MCInodeSymmetry
