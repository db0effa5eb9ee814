SPECIFICATION ListsSpec
CONSTANTS
  u1 = u1
  u2 = u2
  Channel = {1}
  Uid = {u1,u2}
  Invisibility <- MCInvisibility
  Gender <- MCGender
  Contacts <- MCContacts
  Thread = {t1}
  Kind = {"www_join","irc_join","status","M","part","kick"}
  HasInv = {u1}
  MaxRequests = 4
  a1 = a1
  a2 = a2
  v1 = v1
  Admin = {a1, a2}
  Victim = {v1}
  Level <- MCLevel
  Ability <- MCLevel
  Shield <- MCLevel
  MaxBans = 2
SYMMETRY Symmetry
INVARIANTS
  ListsAccurate
  BansHold
PROPERTIES
  LiftedAreFree
