SPECIFICATION Spec
CONSTANTS
  r1 = r1
  r2 = r2
  empty = empty
  full = full
  large = large
  Request = {r1, r2}
  Url <- MCUrl
  Token = {t1, t2, forged}
  Genuine = {t1, t2}
  Body = {empty, full, large}
  Size <- MCSize
  Limit = 2
  None = None
CHECK_DEADLOCK FALSE
INVARIANTS
  TypeOK
  FetchedWithToken
  AnswerIsWhole
  OnlyDirectoriesContacted
PROPERTIES
  EveryCallIsAnswered
  ServesThePage
