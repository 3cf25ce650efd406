SPECIFICATION Spec
CONSTANTS
  MonthLength = 3
  NoVin = NoVin
  NoValue = NoValue
  NotRead = NotRead
  DominantCustomers = {1}
  Attributes = {"client", "store", "seller", "operation"}
  SpecialCustomers = {1, 2}
  TopCustomers = 1
  SalesTables <- MCSalesTables
  Canonicals <- MCCanonicals
  MasterTables <- MCMasterTables
  EvidenceTables <- MCEvidenceTables
  Aliases <- MCAliases
  Registered <- MCRegistered
  Skus = {1, 2, 3}
  Cutoffs <- MCCutoffs
  Windows <- MCWindows
  Thresholds = {50, 80}
  ForecastDays = {6, 9}
  BacktestStart = 0
  YearLength = 2
  ErrorHistory = 1
  StatusWindow = 1
  Expectations <- MCExpectations
  Signals <- MCSignals
  MaxChanges = 1
PROPERTIES
  AuditsAgree
  ReportsAreSound
  SellersWereThere
  ForecastsAreLive
  ClosedSalesStay

