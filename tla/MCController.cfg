SPECIFICATION Spec
CONSTANTS
  Clients = {c1, c2}
  Switches = {s1}
  Routers = {r1}
  Ports = {}
  None = None
  MaxID = 3
  FirstIP = 2
  MaxIP = 4
CONSTRAINT NothingLost
INVARIANTS TypeOK DeviceIDsExact
PROPERTIES ImplementsDevicePool
