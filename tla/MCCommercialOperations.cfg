SPECIFICATION Spec
CONSTANTS
  Ops = {o1, o2}
  Deals = {d1, d2}
  o1 = o1
  o2 = o2
  d1 = d1
  d2 = d2
  soto = soto
  lira = lira
  client = client
  other = other
  None = None
  People <- MCPeople
  NameOf <- MCNameOf
  Works <- MCWorks
  OwnStores = {4, 7}
  Window = 14
  LinkOf <- MCLinkOf
  StoreOfVin <- MCStoreOfVin
  Requests = {q, r, s}
  MaxRunning = 2
  Jobs <- MCJobs
  FirstForum <- MCFirstForum
  FirstCrm <- MCFirstCrm
SYMMETRY Symmetry
CHECK_DEADLOCK FALSE
INVARIANTS
  NothingErasedSilently
PROPERTIES
  SuccessIsExact
  LatestIsLastExport
