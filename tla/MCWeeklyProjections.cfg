SPECIFICATION Spec
CONSTANTS
  first = first
  again = again
  edit = edit
  unlink = unlink
  remove = remove
  north = north
  ana = ana
  eva = eva
  x7 = x7
  x70 = x70
  deal = deal
  plain = plain
  wide = wide
  Lines = {first, again}
  Edits = {edit, unlink}
  Removals = {remove}
  Scenarios <- MCScenarios
  Body <- MCBody
  Branches = {north}
  Sellers = {ana, eva}
  Models = {x7, x70}
  Opportunities = {deal}
  AliasesOf <- MCAliasesOf
  LengthOf <- MCLengthOf
  Mentions <- MCMentions
  Tickets <- MCTickets
  MaxRows = 2
  MaxChanges = 2
  NULL = NULL
CHECK_DEADLOCK FALSE
INVARIANTS
  LinksAreOneToOne
PROPERTIES
  SuggestedWasCompatible
  DeletedStaysDeleted
