\* Every program under fair scheduling: two workers.
SPECIFICATION FairSpec
CONSTANTS
  Programs = {"qsort", "partition", "msort", "expr", "chess", "phil"}
  NotUsed = NotUsed
  w1 = w1  w2 = w2  w3 = w3
  Workers <- TwoWorkers
  Capacity = 2
  Small = 1
  NSort = 5
  NPart = 4
  PartValues <- ThreeValues
  NMerge = 3
  MergeValues <- TwoValues
  NExpr = 3
  TExpr = 2
  CellWord = 3
  MaxJobs = 3
  MaxMeals = 2
  MaxLate = 1
PROPERTIES ThreadsEnd
CHECK_DEADLOCK FALSE
