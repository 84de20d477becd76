\* Two threads, one of which is scheduled before the first epoch.
SPECIFICATION Spec
CONSTANTS
  Programs = {"expr"}
  NotUsed = NotUsed
  w1 = w1  w2 = w2  w3 = w3
  Workers <- OneWorker
  Capacity = 4
  Small = 1
  NSort = 1
  NPart = 2
  PartValues <- TwoValues
  NMerge = 1
  MergeValues <- TwoValues
  NExpr = 3
  TExpr = 2
  CellWord = 3
  MaxJobs = 1
  MaxMeals = 2
  MaxLate = 1
INVARIANTS ResultRight
CHECK_DEADLOCK FALSE
