SPECIFICATION FairSpec
CONSTANTS
  b1 = b1
  b2 = b2
  Boards = {b1, b2}
  NoBoard = NoBoard
  MaxAddress = 2
  LineCap = 2
  QueueCap = 2
INVARIANTS
  TypeOK
  NoTwins
PROPERTIES
  HeardIsTaken
