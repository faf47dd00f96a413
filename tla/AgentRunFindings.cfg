SPECIFICATION Spec
CONSTANTS
  read = read
  write = write
  Workers = {w1}
  Clients = {c1}
  Responses = {"write", "answer"}
  TooCostly = {}
  CallIds = {write}
  Unusable = {}
  Lookups = {FALSE}
  Observed = FALSE
  MaxTurns = 2
  MaxModelSteps = 2
  MaxToolCalls = 1
  MaxToolAttempts = 1
  MaxProviderAttempts = 1
  MaxFence = 1
  ReservedGrants = 0
  MaxVersion = 0
  Reliable = {w1}
  CallsOf <- Calls
  PolicyMode <- Policy
  NoOwner = NoOwner
  NoKey = NoKey
INVARIANTS
  NotFailedMidCall
PROPERTIES
  ApprovedIsResumed
CHECK_DEADLOCK FALSE
