\* The engines and the launch detector stop where their inputs are used up.
SPECIFICATION MCSpec
CONSTANTS
  Address = {"a", "b"}
  Markable = {"b"}
  Zero = "zero"
  InitialSupply = 1
  Transfers <- MCTransfers
  Named <- MCNamed
  WhalePercent = 50
  Window = 1
  MaxTransfers = 3
  MaxReports = 2
  MaxTime = 2
  Asset = {"A", "B"}
  Deployment <- MCDeployment
  Figures <- MCFigures
  MaxLinks = 4
  PoolId = {"p1", "p2"}
  Provider = {"w1", "w2", "w3", "w4"}
  MarketEvents <- MCMarketEvents
  Breakdowns <- MCBreakdowns
  MinReliable = 500
  Grain = 4
  MaxMarketEvents = 4
  Codes <- MCCodes
  Owners <- MCOwners
  Simulations <- MCSimulations
  Circumstances <- MCCircumstances
  c1 = c1
  c2 = c2
  w1 = w1
  w2 = w2
  Wallet = {w1, w2}
  Call = {c1, c2}
  Depth = {0, 600, 2000}
  Minute = {0, 2}
  HolderMilestone = 2
  RapidVelocity = 0
  RapidTotal = 1
  FallsShort <- MCFallsShort
  MaxCalls = 3
  MaxLaunches = 2
  MinPool = 500
  MinLiquidity = 1000
  DispersedHolders = 1
  Evidence <- MCEvidence
SYMMETRY Symmetry
INVARIANT EnginesTypeOK
INVARIANT HolderBooks
INVARIANT NetGrowthNotOverstated
INVARIANT SnapshotLagsOnce
INVARIANT MappedIsRepresented
PROPERTY WrappedNotCounted
PROPERTY DropRaised
INVARIANT OneBadSource
INVARIANT SupplyAccounted
INVARIANT WorseIsNotSafer
INVARIANT TypeOK
INVARIANT FirstBuyLeads
INVARIANT RapidOnlyByOverlap
INVARIANT BotsLostByRoundingOnly
PROPERTY GateFollowsLastCheck
CHECK_DEADLOCK FALSE
