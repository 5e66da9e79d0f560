CONSTANTS
  Depth = 2
  Trigger = 2
  Chars = 4
  MinGap = 3
  MayErr = {TRUE, FALSE}
  MayOverrun = FALSE
SPECIFICATION FairSpec
INVARIANTS ReadInOrder DataReady
PROPERTY CharTaken
