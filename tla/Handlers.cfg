SPECIFICATION Spec
CONSTANTS
  Maps = {"Accessibility_output_buf", "Binder_output_buf", "BitmapAllocation_output",
          "DisruptiveApp_BindServiceLocked_output_buf",
          "DisruptiveApp_ComponentEnabledSetting_output_buf",
          "GenericInstrumentation_call_timestamp_buf", "GenericInstrumentation_call_detail_buf",
          "ProcessManagement_output_buf",
          "ProcessManagement_update_device_idle_temp_allowlist_records"}
  FlagSets <- MCFlagSets
  Durations <- MCDurations
  MaxMillis = 5
  MaxTime = 3
  RingCapacity = 2
  MaxHits <- MCMaxHits
  Uids = {u1, u2}
  Window = 2
  Nul = "0"
  Names <- MCNames
  Codes = {1, 2, 3, 9}
  Configs <- MCConfigs
  KeyBytes = 2
  MaxCodes = 2
  Leftovers <- MCLeftovers
  Ptrs = {p1, p2}
  Sizes = {1}
  Activities = {"x"}
  ActiveMax = 2
  MaxOld = 1
  LoggingConfigs <- MCLoggingConfigs
  Registers = 10
SYMMETRY HandlersSymmetry
INVARIANTS
  TypeOK
  PollsEndInTime
  HandledInOrder
  LoopVerdict
  CallsBelongToTheirGrant
  EveryGrantReported
  CallsAreReportedOnce
  FiltersSelectConfigured
  FiltersDrained
  BitmapsTracked
  DisruptionsReported
  OutputsAsConfigured
