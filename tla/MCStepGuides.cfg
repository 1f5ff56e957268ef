CONSTANTS
  Products = {p1, p2}
  Total = 2
  Threads = {t1, t2}
  NoKey = NoKey
  NoThread = NoThread
SPECIFICATION FairSpec
INVARIANTS
  TypeOK
  NoForeignGuide
  StaleGuideIsReplaced
  GuideInv
PROPERTY GuideArrives
CHECK_DEADLOCK FALSE
