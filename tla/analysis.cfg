CONSTANTS
  office = office
  scripts = scripts
  word = word
  WORD = WORD
  ps = ps
  other = other
  p1 = p1
  None = None
  Fold <- Folded
  Holds <- Found2
  Indicators <- SomeIndicators
  Nodes <- SomeNodes
  Height <- SomeHeights
  MaxNesting = 2
  Directories <- SomeDirectories
  Lists <- NamedLists
  Events <- SomeEvents
  MaxEvaluated = 3
  Contents <- SomeContents
  Base <- Parts
  Lower <- Folded
  Numbers <- NoNumbers
  Nothing = Nothing
  PipeCap = 1
  FetchKeys <- SomeKeys
  archive = archive
  page = page
  Checked <- SomeChecked
  Recordings <- SomeFiles
  good = good
  better = better
  Page = Page
  Pointer = Pointer
  Absent = Absent
  Attempts = 2
  MaxChanges = 1
  RecordingSets <- SomeCorpora
  Unlabelled = Unlabelled
  ReaderLabelled = {"officer_vm"}
  Nobody = Nobody
  RowSets <- SomeRows
  Environments <- Abc
  Recipes <- SomeRecipes
  NInner = 2
  GroupCap = 2
  ImageCap = 2
  Budget = 1
  GapCap = 2
  ScoreSet = {1, 2}
  Everywhere = Everywhere
  Files <- SomeFiles2
  Missing = Missing
SPECIFICATION Spec
INVARIANTS
  RulesSound
  VerdictsSound
  IngestSound
  LabelsSound
  FoldsSound
  RecordingsSound
PROPERTIES
  FetchSound
CHECK_DEADLOCK FALSE
