\* Every program: three workers, a queue of one segment, six elements to sort.
SPECIFICATION Spec
CONSTANTS
  Programs = {"qsort", "partition", "msort", "expr", "chess", "phil"}
  NotUsed = NotUsed
  w1 = w1  w2 = w2  w3 = w3
  Workers <- ThreeWorkers
  Capacity = 1
  Small = 1
  NSort = 6
  NPart = 5
  PartValues <- FourValues
  NMerge = 4
  MergeValues <- TwoValues
  NExpr = 3
  TExpr = 3
  CellWord = 3
  MaxJobs = 5
  MaxMeals = 4
  MaxLate = 1
INVARIANTS TypeOK Accounted DoneMeansSorted Disjoint SemaphoreCounts
INVARIANTS InBounds Partitioned Permuted HalvesCounted QuietAtEnd
INVARIANTS Barrier ColumnsRight DoneMeansAll SleepersWoken
INVARIANTS NeighboursApart MealsInTurn
SYMMETRY WorkersAlike
CHECK_DEADLOCK FALSE
