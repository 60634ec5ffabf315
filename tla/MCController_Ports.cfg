SPECIFICATION FairSpec
CONSTANTS
  Clients = {c1, c2}
  Switches = {s1}
  Routers = {}
  Ports = {p1, p2}
  None = None
  MaxID = 1
  FirstIP = 2
  MaxIP = 4
CONSTRAINT NothingLost
INVARIANTS BooksExact
PROPERTIES ImplementsAddressPool AllocReturns
