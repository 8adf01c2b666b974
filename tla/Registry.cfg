SPECIFICATION Spec
CONSTANTS
  Ids = {a, b}
  Roaming = {a}
  Threads = {t1, t2}
  ClosedCap = 1
  WritesFail = FALSE
  KillsFail = TRUE
  MigrateBeside = FALSE
INVARIANTS RegistryInv AgentInReach
PROPERTIES OneAgent
