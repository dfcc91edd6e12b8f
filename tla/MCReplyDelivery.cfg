CONSTANTS
  d1 = d1
  d2 = d2
  a = a
  b = b
  c = c
  image = image
  picture = picture
  audio = audio
  tool = tool
  Replies = {d1, d2}
  Pieces = {a, b, c, image, picture, audio, tool}
  Trouble = Trouble
  Cases <- TestedCases
SPECIFICATION FairSpec
INVARIANTS TypeOK HeardAsSaid RestartWaits
PROPERTIES RestartHappens
CHECK_DEADLOCK FALSE
