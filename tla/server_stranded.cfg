SPECIFICATION TcpSpec
CONSTANTS
  Listener = {l1}
  Handler = {h1, h2}
  Conn = {c1, c2}
  NoConn = NoConn
  MaxHandlers = 0
  Limit = 8
INVARIANT
  FreeOrCreated
CHECK_DEADLOCK FALSE
