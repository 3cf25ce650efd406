SPECIFICATION MarketSpec
CONSTANTS
  full = full
  again = again
  head = head
  tail = tail
  early = early
  twin = twin
  late = late
  january = january
  february = february
  week1 = week1
  week2 = week2
  WholeImports = {full, again}
  Chunks = {head, tail}
  Months = {early, twin, late}
  Scenarios <- MCScenarios
  Documents <- MCDocuments
  DocOf <- MCDocOf
  RangeOf <- MCRangeOf
  RowsOf <- MCRowsOf
  OtherMarket = {4}
  FileOf <- MCFileOf
  BatchesOf <- MCBatchesOf
  NULL = NULL
  lastYear = lastYear
  close = close
  apart = apart
  crowded = crowded
  years = years
  RegistrationsOf <- MCRegistrationsOf
  SnapshotDate <- MCSnapshotDate
  MonthRows <- MCMonthRows
  QuantityOf <- MCQuantityOf
  LoadedFirst <- MCLoadedFirst
  ReportsIn <- MCReportsIn
  MonthLength = 2
  YearMonths = 4
  QuarterMonths = 2
  Aliases <- MCAliases
  BrandOfModel <- MCBrandOfModel
  OriginOf <- MCOriginOf
  MasterOrigin <- MCMasterOrigin
  HistoricalRules <- MCHistoricalRules
  CompanySales <- MCCompanySales
  Portfolio = {"Rex"}
  Dfm = "DFM"
  MaxMedianGapPp = 3
  MinJointMonths = 6
  MinCrossings = 1
  Missing = Missing
CHECK_DEADLOCK FALSE
PROPERTIES
  ReportsReconcile
  ImportsAreWhole
