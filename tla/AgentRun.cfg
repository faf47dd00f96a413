SPECIFICATION Spec
CONSTANTS
  read = read
  write = write
  Workers = {w1}
  Clients = {c1}
  Responses = {"write", "answer"}
  TooCostly = {}
  CallIds = {write}
  Unusable = {}
  Lookups = {TRUE, FALSE}
  Observed = FALSE
  MaxTurns = 2
  MaxModelSteps = 2
  MaxToolCalls = 1
  MaxToolAttempts = 1
  MaxProviderAttempts = 1
  MaxFence = 1
  ReservedGrants = 0
  MaxVersion = 4
  Reliable = {}
  CallsOf <- Calls
  PolicyMode <- Policy
  NoOwner = NoOwner
  NoKey = NoKey
INVARIANTS
  LedgersAgree
  OneCallAhead
PROPERTIES
  TerminalForever
CHECK_DEADLOCK FALSE
