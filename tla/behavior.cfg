CONSTANTS
  k1 = k1
  p = p
  q = q
  other = other
  exe = exe
  dll = dll
  lsass = lsass
  site = site
  word = word
  shell = shell
  Keys = {k1}
  MinConnections = 4
  History = 5
  MinSpan = 3
  MinInterval = 1
  MaxInterval = 3
  LatchTtl = 3
  MaxDispersion <- ThreeTwentieths
  RegularBand <- OneFifth
  MinRegular <- FourFifths
  MaxBeaconTime = 10
  MaxConnections = 8
  RiskKinds <- SomeRisks
  Threshold = 500
  MlCap = 200
  ChainBonus = 50
  ChainCap = 150
  MinTactics = 3
  MinRuleSources = 3
  StoryWindow = 2
  MaxStoryTime = 3
  MaxRiskEvents = 4
  Processes = {p, q}
  Objects = {other, exe, dll, lsass, site}
  TraitsOf <- NodeTraits
  StartOf <- Starts2
  EndOf <- Ends2
  ImageOf <- Images2
  Happenings <- SomeHappenings
  ObjectCap = 1
  NoTime = NoTime
  NoWriter = NoWriter
  MaxEdges = 3
  Features <- SomeStarts
  MinObservations = 2
  MinRelationships = 1
  MinCrossProcess = 1
  UncommonMax = 1
  None = None
  MaxLearnt = 3
SPECIFICATION Spec
INVARIANTS
  BeaconsSound
  StorylinesSound
  RaritySound
PROPERTY FeaturesSteady
CHECK_DEADLOCK FALSE
