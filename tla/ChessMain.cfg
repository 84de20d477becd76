\* Two threads and up to two jobs: main may sleep for ever.
SPECIFICATION FairSpec
CONSTANTS
  Programs = {"chess"}
  NotUsed = NotUsed
  w1 = w1  w2 = w2  w3 = w3
  Workers <- TwoWorkers
  Capacity = 4
  Small = 1
  NSort = 1
  NPart = 2
  PartValues <- TwoValues
  NMerge = 1
  MergeValues <- TwoValues
  NExpr = 1
  TExpr = 1
  CellWord = 3
  MaxJobs = 2
  MaxMeals = 2
  MaxLate = 1
PROPERTIES MainEnds
CHECK_DEADLOCK FALSE
