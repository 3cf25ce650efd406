SPECIFICATION Spec
CONSTANTS
  a = a
  b = b
  north = north
  south = south
  retail = retail
  finance = finance
  downtown = downtown
  mall = mall
  partner = partner
  person = person
  shop = shop
  agency = agency
  first = first
  second = second
  third = third
  NULL = NULL
  Missing = Missing
  Forum = Forum
  Dealers <- MCDealers
  GroupOf <- MCGroupOf
  AliasedBy <- MCAliasedBy
  ForumDealers = {finance}
  ChannelOf <- MCChannelOf
  Refreshes = {first, second, third}
  Vins = {a, b}
  VehicleFiles <- MCVehicleFiles
  SaleFiles <- MCSaleFiles
  MaxImports = 2
SYMMETRY Symmetry
CHECK_DEADLOCK FALSE
INVARIANTS
  SuccessIsRebuilt
  PreflightIsEnough
  ExitColumnsAgree
