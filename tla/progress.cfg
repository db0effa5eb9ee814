SPECIFICATION ProgressSpec
CONSTANTS
  u1 = u1
  u2 = u2
  Channel = {1}
  Uid = {u1, u2}
  Invisibility <- MCInvisibility
  Gender <- MCGender
  Contacts <- MCContacts
  Thread = {t1}
  Kind = {"www_join", "part", "kick"}
  HasInv = {}
  MaxRequests = 3
  Listener = {l1, l2}
  Handler = {h1, h2, h3}
  Conn = {c1, c2, c3}
  NoConn = NoConn
  MaxHandlers = 1
  Limit = 8
  c1 = c1
  c2 = c2
  Peer = {c1, c2}
  Fd = {f1}
  DialogThread = {t1, t2}
  LineKind <- MCKinds
  MaxLines <- MCLines
INVARIANTS
  PoolCounted
  SomeoneWillServe
  LinesInOrder
  SelectorKeeps
PROPERTIES
  Served
  LeaversDisappear
  DialogsServed
CHECK_DEADLOCK FALSE
