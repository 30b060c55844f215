SPECIFICATION Spec
CONSTANTS
  Configs <- MCConfigs
  FlagSets <- MCFlagSets
  Words <- MCWords
  BinderProg = "binder"
  A11yProg = "a11y"
  Absent = absent
  EmptyName = empty
INVARIANTS
  TypeOK
  ResolvedIffAcceptable
  FiltersComplete
  AskedOnlyIfAllowed
