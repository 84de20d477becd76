\* One worker, three elements.
SPECIFICATION Spec
CONSTANTS
  Programs = {"msort"}
  NotUsed = NotUsed
  w1 = w1  w2 = w2  w3 = w3
  Workers <- OneWorker
  Capacity = 4
  Small = 1
  NSort = 1
  NPart = 2
  PartValues <- TwoValues
  NMerge = 3
  MergeValues <- ThreeValues
  NExpr = 1
  TExpr = 1
  CellWord = 3
  MaxJobs = 1
  MaxMeals = 2
  MaxLate = 1
INVARIANTS OutputSorted
CHECK_DEADLOCK FALSE
