SPECIFICATION FairSpec
CONSTANTS
  a1 = a1
  a2 = a2
  b = b
  ann = ann
  bob = bob
  NoLogin = NoLogin
  Logins = {a1, a2, b}
  AccountOf <- MCAccountOf
  AuthId <- MCAuthId
  ReplyTimeout = 1
  Ttl = 2
  Horizon = 2
  MaxTries = 1
  MaxRestarts = 1
PROPERTIES
  ImplementsTickets
  EntersInTime
  RefusesForCause
  LoginsEnd
CHECK_DEADLOCK FALSE
