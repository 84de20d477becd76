\* The kernel, the search of chess, the string, the file service, the crossword, the dormitory,
\* the copy without comments.
SPECIFICATION Spec
CONSTANTS
  Programs = {"console", "convert", "date", "search", "string", "files", "crossword", "dormitory", "comments"}
  NotUsed = NotUsed
  LastRow = 1
  Width = 7
  StrLen = 5
  TextLen = 1
  MaxPrints = 2
  MaxPos = 7
  MaxBase = 12
  Kilo = 25
  Numbers <- SomeNumbers
  Bases <- SomeBases
  Sizes <- LimitSizes
  MaxDay = 49710
  FirstYears <- OldYears
  SecondsOfDay <- DaySeconds
  Boards = {2, 3, 4}
  Pieces = {1, 2, 3, 4, 5}
  MaxPresets = 2
  Bytes = {1, 2}
  MaxArgument = 2
  MaxSize = 4
  Clients = {c, d}
  Users <- Names
  Paths <- OneFile
  Contents <- SomeContents
  NoFile = NoFile
  Rights <- AnnsFile
  Puzzles <- SomePuzzles
  Students <- ThreeStudents
  MaxStudents = 3
  CFiles <- ShortCFiles
INVARIANTS TypeOK ConsoleLine  DateRight PlacementsCounted EditsRight QueriesRight
  OwnIdentity DownloadsIntact SolutionsExact CommentsRemoved
PROPERTIES KeepsRegister
CHECK_DEADLOCK FALSE
