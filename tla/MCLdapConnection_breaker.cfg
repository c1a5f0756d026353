SPECIFICATION Spec
CONSTANTS
  Slot = {k1, k2}
  Client = {c1, c2}
  Servers = 2
  StartTls = {TRUE, FALSE}
  ChangePasswordAsUser = TRUE
  RequireOldPassword = FALSE
  ForceReset = FALSE
  PasswordMode = "standard"
  Startup <- AllModules
  Kinds <- Mixed
  k1 = k1
  k2 = k2
  FailureThreshold = 2
  ResetTimeout = 2
  HealthCheckInterval = 1
  MaxRetries = 2
  MaxClock = 3
  None = None
SYMMETRY Clients
INVARIANTS TypeOK BreakerCounts OpenShields ClosedIsLeft
VIEW Observed
