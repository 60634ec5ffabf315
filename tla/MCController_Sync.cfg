SPECIFICATION Spec
CONSTANTS
  Clients = {c1, c2}
  Switches = {s1}
  Routers = {r1}
  Ports = {}
  None = None
  MaxID = 2
  FirstIP = 2
  MaxIP = 4
PROPERTIES SyncMatchesDevices
