SPECIFICATION SessionsLoadSpec
CONSTANTS
  Request = {r1, r2}
  Conn = {c1, c2}
  MaxSessions = 2
  Windows = {r1}
CHECK_DEADLOCK FALSE
PROPERTY
  SessionsFollow
