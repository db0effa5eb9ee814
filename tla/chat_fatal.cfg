SPECIFICATION Spec
CONSTANTS
  u1 = u1
  u2 = u2
  Channel = {1}
  Uid = {u1}
  Invisibility <- MCInvisibility
  Gender <- MCGender
  Contacts <- MCContacts
  Thread = {t1,t2}
  Kind = {"www_join","kick"}
  HasInv = {}
  MaxRequests = 2
SYMMETRY Symmetry
INVARIANTS
  FatalUnreachable
