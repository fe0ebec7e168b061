SPECIFICATION EitherSpec
CONSTANTS
  Steve = Steve
  steve = steve
  alex = alex
  good = good
  letters = letters
  long = long
  l1 = l1
  l2 = l2
  l3 = l3
  NoName = NoName
  NoXuid = NoXuid
  Blank = Blank
  Garbled = Garbled
  Name <- MCName
  normalize <- MCnormalize
  Xuid <- MCXuid
  Numeric = {good, long}
  Assignable = {good, letters}
  DefaultTtl = 1
  Login = {l1, l2}
  Claims <- MixClaims
  AuthResults <- MixResults
  Configs <- CppConfigs
  Fronts = {"python", "cpp"}
  KeptTtls = {1}
  MaxTime = 1
  OneThread = FALSE
INVARIANTS
  InstalledMeansLive
PROPERTIES
  FrontRestores
  StagedIsFound
  TakesLatest
  AsConfigured
SYMMETRY Twins
