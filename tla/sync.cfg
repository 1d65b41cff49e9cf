SPECIFICATION Spec
CONSTANTS
  Rows = {1, 2}
  Files <- MCFiles
  Machines <- MCMachines
  Workers = {0}
  MaxClock = 2
  MaxVersion = 2
  MaxRuns = 3
PROPERTIES SuccessMeansSynced
