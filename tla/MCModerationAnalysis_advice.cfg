CONSTANTS
  t1 = t1  t2 = t2  low = low  odd = odd  w1 = w1  w2 = w2  r1 = r1  r2 = r2
  Texts = {t1, t2}
  Evidence = {low, odd}
  Supported = {low}
  Workers = {w1, w2}
  Runners = {r1, r2}
  Legacy = {t1}
  MaxAttempts = 2
  MaxFaults = 1
SPECIFICATION FairAnalysisSpec
INVARIANTS AdviceIsAboutTheText
PROPERTIES SettledAdviceStays 
CHECK_DEADLOCK FALSE
