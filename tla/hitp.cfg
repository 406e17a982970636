CONSTANTS
  r1 = r1
  r2 = r2
  Requests = {r1, r2}
  MaxPauses = 2
  Contexts = {TRUE, FALSE}
CHECK_DEADLOCK FALSE
SPECIFICATION FairSpec
INVARIANTS
  TypeOK
  StoredTokenStays
  OkMeansTaken
PROPERTIES
  RefinesOneAnswer
  AnswerGetsThrough
