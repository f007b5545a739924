CONSTANTS
  Builds <- MCBuilds
  Programs = {"ccl/all_reduce"}
  Sizes = {2}
  Warmup = 1
  Profile = 1
SPECIFICATION Spec
INVARIANTS
  AvailableWhereBuilt
CHECK_DEADLOCK FALSE
