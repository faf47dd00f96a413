SPECIFICATION Spec
CONSTANTS
  v1 = v1
  v2 = v2
  k1 = k1
  k2 = k2
  k3 = k3
  Refs = {v1, v2}
  PolicyOf <- MCPolicyOf
  Pack <- MCPack
  Mandatory = {"safety"}
  Defaults = {"safety", "reindex"}
  Keys = {k1, k2, k3}
  Changes = {1}
  ChangeAsks <- MCChangeAsks
  ValidationAsks <- MCValidationAsks
  Admitters = {1, 2}
  None = None
SYMMETRY KeySymmetry
INVARIANTS
  OneActiveVersion
  NeverWeaker
PROPERTIES
  AdmittedWhileActive
CHECK_DEADLOCK FALSE
