SPECIFICATION Spec
CONSTANTS
  fast = fast
  spare = spare
  coding = coding
  chat = chat
  m1 = m1
  Roster = {fast, spare}
  Model = {m1}
  Domain = {coding, chat}
  StaticDomain = {coding}
  BaseRosters <- MCBaseRosters
  BaseAssigned <- MCBaseAssigned
  Undefined = Undefined
  Absent = Absent
  Torn = Torn
INVARIANTS DiskMatchesMemory
