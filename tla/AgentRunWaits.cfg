SPECIFICATION Spec
CONSTANTS
  read = read
  write = write
  Workers = {w1}
  Clients = {}
  Responses = {"read", "answer"}
  TooCostly = {}
  CallIds = {read}
  Unusable = {}
  Lookups = {FALSE}
  Observed = TRUE
  MaxTurns = 2
  MaxModelSteps = 2
  MaxToolCalls = 1
  MaxToolAttempts = 1
  MaxProviderAttempts = 1
  MaxFence = 1
  ReservedGrants = 0
  MaxVersion = 0
  Reliable = {}
  CallsOf <- Calls
  PolicyMode <- Policy
  NoOwner = NoOwner
  NoKey = NoKey
PROPERTIES
  CurrentTransitionCommits
CHECK_DEADLOCK FALSE
