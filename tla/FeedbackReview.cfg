CONSTANTS
  a = a
  h = h
  Learners = {a}
  Host = h
  Labels = {1, 2}
  BotLabels = {}
  Score <- TwoPeople
  Workers = {w1, w2}
  Requests = {q1}
  None = None
  Nobody = Nobody
  Transcript = Transcript
  MaxArrivals = 1
  MaxClicks = 1
  MaxMaps = 1
  MaxOverrides = 1
  MaxFailures = 1
SPECIFICATION FairSpec
INVARIANTS ResolverKeepsApart FInv
PROPERTIES ReviewLoopCloses PublishedStaysPublished
CHECK_DEADLOCK FALSE
