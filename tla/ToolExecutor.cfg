SPECIFICATION Spec
CONSTANTS
  write = write
  deploy = deploy
  granted = granted
  Callers = {c1, c2}
  Keys = {write, deploy, granted}
  ModeOf <- Mode
  HashOf <- Hash
  NoKey = NoKey
SYMMETRY Symmetry
INVARIANTS
  TypeOK
  AdmittedBeforeRun
  UndecidedRunsOnce
  ToldWhatIsRecorded
PROPERTIES
  TerminalRowsStay
