SPECIFICATION SharedSpec
SYMMETRY Symmetry
CHECK_DEADLOCK FALSE
CONSTANTS
  Channel = {y1, y2}
  Uid = {x1, x2}
  Status = {online}
  Undef = Undef
  Account = {1, 2, 3}
  Teller = {"t1", "t2"}
  BotOf <- Bots
  Sums = {0, 2}
  Opening = 3
  MaxMoves = 3
  MaxFailures = 1
  Item = {a, b}
  Stored = {a}
  WebPage = {y1, y2}
  MaxObjects = 3
  MaxChanges = 2
  MaxLost = 1
  Incoming = {m1, m2}
  Outgoing = {m3}
  System = {m4}
  Page = {p1, p2}
  MaxId = 3
  MaxFolder = 3
  MaxPages = 4
  Offender = {x1, x2}
  Moder = {mo}
  Moderator = {mo}
  KlapPage = {y1, y2}
  MaxKlaps = 2
  MaxEdits = 1
INVARIANTS
  CacheCoherent
  CreditsAddUp
  OverdraftBounded
  ProfileFollows
  
  
PROPERTY
  AbsSpec
