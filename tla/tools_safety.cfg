\* Two cases, two scripts, one sheet, three revisions; two edits and one failed write.
SPECIFICATION Spec
CONSTANTS
  Plans = {"PLAN_11"}
  Cases <- TwoCases
  Category <- Categories
  Scripts <- TwoScripts
  Cut <- Beginnings
  RowNumbers <- Numbers
  Milestones <- DeferCells
  Revs = {"r1", "r2", "r3"}
  Ships <- Nix
  NewBuiltins = {"5.3"}
  SheetIds = {"cd"}
  SheetTexts <- SheetVariants
  CallSites <- Sites
  CorpusPath <- Cells
  CaseTexts <- Texts
  ReferenceTexts <- Docs
  FlakeRevs = {"r1", "r2", "r3", "branch"}
  ShellResults <- Shells
  BashResult <- Bash
  CompatFilters <- Filters
  StartCases <- Begin
  StartShell <- Start
  StartSheets <- BeginSheets
  StartRev = "r1"
  MaxEdits = 2
  MaxFailures = 1
INVARIANTS
  TypeOK
  RecordingIsWhole
  GreenCorpusIsTrue
  ReportAccounts
  MatrixMatchesCompat
  RefusalsAreDocumented
  BinaryCitesSheets
  PinIsTheOracle
CHECK_DEADLOCK FALSE
