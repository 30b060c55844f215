SPECIFICATION Spec
CONSTANTS
  Maps = {"Binder_output_buf"}
  FlagSets <- MCFlagSets
  Durations <- MCDurations
  MaxMillis = 5
  MaxTime = 3
  RingCapacity = 2
  MaxHits <- MCMaxHits
  Uids = {u1, u2}
  Window = 2
  Nul = "0"
  Names <- MCNames
  Codes = {1, 2, 3, 9}
  Configs <- UnfitConfigs
  KeyBytes = 2
  MaxCodes = 2
  Leftovers <- NoLeftovers
  Ptrs = {p1, p2}
  Sizes = {1}
  Activities = {"x"}
  ActiveMax = 2
  MaxOld = 1
  LoggingConfigs <- MCLoggingConfigs
  Registers = 10
SYMMETRY HandlersSymmetry
INVARIANT
  DrainCompletes
