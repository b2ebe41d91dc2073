SPECIFICATION LiveSpec
CONSTANTS
  c1 = c1
  c2 = c2
  Chains = {c1, c2}
  Setups <- MCSetups
INVARIANT HonestMaintenance
PROPERTIES
  MaintenanceCleared
  CancelledMaintenanceEnds
  ImplementsLifecycle
