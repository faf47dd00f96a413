SPECIFICATION LiveSpec
CONSTANTS
  read = read
  write = write
  Workers = {w1, w2}
  Clients = {}
  Responses = {"both", "answer", "essay"}
  TooCostly = {"essay"}
  CallIds = {read, write}
  Unusable = {write}
  Lookups = {FALSE}
  Observed = FALSE
  MaxTurns = 2
  MaxModelSteps = 3
  MaxToolCalls = 2
  MaxToolAttempts = 2
  MaxProviderAttempts = 2
  MaxFence = 4
  ReservedGrants = 1
  MaxVersion = 0
  Reliable = {w1}
  CallsOf <- Calls
  PolicyMode <- Policy
  NoOwner = NoOwner
  NoKey = NoKey
PROPERTIES
  LeaseContract
  RunsSettle
CHECK_DEADLOCK FALSE
