SPECIFICATION HandlersSpec
CHECK_DEADLOCK FALSE
CONSTANTS
  Groups = {g1, g2, g3}
  MemberIDs = {m1, m2, m3}
  Denied = {g3}
  Connections = {h1, h2}
  NoMember = NoMember
  MaxGroups = 1
  SessionTimeout = 1
  MaxGeneration = 4
  MaxClock = 3
INVARIANTS
  LeaderIsMember
  JoinAnswerConsistent
PROPERTY GenerationIdentifiesMembers
