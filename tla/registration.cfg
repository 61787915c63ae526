SPECIFICATION Spec
CONSTANTS
  Commands <- MCCommands
  MaxRestarts = 1
  MaxEpoch = 1
  MaxFaults = 1
  MaxRuns = 2
INVARIANTS TypeOK StateFileTrue
PROPERTIES FreshRunIsTrue CleanRunRegisters HealAccepts HealRetires AcceptedIsRegistered
CHECK_DEADLOCK FALSE
