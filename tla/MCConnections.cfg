SPECIFICATION FairSpec
CONSTANTS
  ip1 = ip1
  ip2 = ip2
  None = None
  SlotsQty = 2
  Clients = {1, 2}
  IPs = {ip1, ip2}
  ConnectingMaxIP = 0
  ClientMaxIP = 0
  KeepAccepting = FALSE
INVARIANTS
  SlotsListed
  OwnData
  CountsAgree
PROPERTIES
  ClosingIsDestroyed
