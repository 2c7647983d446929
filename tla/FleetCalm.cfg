SPECIFICATION FairSpec
CONSTANTS
  Member = {home, away}
  Home = home
  Boot = boot
  Post = {p1}
  MaxVersion = 1
  BusCap = 16
  ClientCap = 8
  Happens = {"fleet"}
  None = None
 
PROPERTIES MembersStay 
CHECK_DEADLOCK FALSE
