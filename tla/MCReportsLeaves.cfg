SPECIFICATION ReportsSpec
CONSTANTS
  Cpus <- SomeCpus
  Buses = 8
  Slots = 32
  Functions = 8
  Machines <- SomeMachines
  Hosts <- SomeHosts
INVARIANT LeavesExist
