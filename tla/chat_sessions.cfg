SPECIFICATION LoadsSpec
CONSTANTS
  u1 = u1
  u2 = u2
  Channel = {1,2}
  Uid = {u1}
  Invisibility <- MCInvisibility
  Gender <- MCGender
  Contacts <- MCContacts
  Thread = {t1,t2}
  Kind = {"www_join","irc_join","part","kick","login","expire","nick"}
  HasInv = {}
  MaxRequests = 4
  MaxEvents = 2
  MaxFaults = 1
  Requests <- MCRequests
  Header = {"host", "length", "multipart"}
  Body = {"b1", "b2"}
SYMMETRY Symmetry
INVARIANTS
  TypeOK
  WwwExclusive
  TrashIsIdle
  JoinTimeCovers
  GlobalNotAhead
  KickedHearNothing
  CalmExact
  EventsDone
  FlushedIsFresh
  RequestIsRead
PROPERTY
  MembershipMoves
