SPECIFICATION MessagesLoadSpec
SYMMETRY ThreadSymmetry
CHECK_DEADLOCK FALSE
CONSTANTS
  u1 = u1
  u2 = u2
  Channel = {1, 2}
  Uid = {u1, u2}
  Ignores <- MCIgnores
  Invisibility <- MCInvisibility
  Admins = {u1}
  Klapped <- MCKlapped
  Filtered <- MCFiltered
  RequestThread = {r1, r2}
  MaxRequests = 3
INVARIANTS
  AnnouncementsBalance
  PagesTrue
  NickFindsItsUser
