CONSTANTS
  Note = {n1}
  Build = {b1, b2}
  MaxChanges = 3
  MaxAsked = 4
  None = None
  Env = {"failure"}
SPECIFICATION FairSpec
INVARIANTS TypeOK IndexIsFresh LinksAreFresh
PROPERTIES DialogIsHonest ClicksAreAnswered
CHECK_DEADLOCK FALSE
