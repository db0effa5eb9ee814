SPECIFICATION LoadsSpec
CONSTANTS
  s1 = s1
  f1 = f1
  f2 = f2
  Sock = {s1, s2}
  Fd = {f1, f2}
  NoFd = NoFd
  NoSock = NoSock
  Writer = {w1}
  Cap = 1
  MaxUnits = 2
INVARIANT
  NoLostWakeup
PROPERTIES
  StreamKept
  Delivered
