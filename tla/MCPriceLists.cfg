SPECIFICATION Spec
CONSTANTS
  run1 = run1
  run2 = run2
  resume1 = resume1
  resume2 = resume2
  canon1 = canon1
  canon2 = canon2
  report = report
  Imports = {run1, run2}
  Resumes = {resume1, resume2}
  Canonicalizers = {canon1, canon2}
  Reports = {report}
  Scenarios <- MCScenarios
  Vehicles <- MCVehicles
  ReportVersion = 1
  Aliases <- MCAliases
  Masters <- MCMasters
  ExcludedIds = {3}
  ElectricSheets = {"electricos"}
  ElectricKeys = {"ev"}
  ElectricFuels = {"electrico"}
  StageBatch = 2
  VersionBatch = 1
  HistoryBatch = 1
  MaxStaged = 5
  Unread = Unread
  NULL = NULL
CHECK_DEADLOCK FALSE
INVARIANTS
  CompleteIsKnown
  EpisodesAreSound
PROPERTIES
  ImportsLoseNothing
  SuccessIsFresh
