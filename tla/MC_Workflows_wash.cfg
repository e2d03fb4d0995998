\* A sale and the trade derived from it make a wash pair.
SPECIFICATION WorkflowsSpec
CONSTANTS
  Treasury = {"t"}
  WhaleTrade = 4
  RetailTrade = 1
  Exchange = {"pool"}
  RawScore <- MCRawScore
  MinTrades = 2
  BotVelocity = 3
  BotHours = 1
  BotTxs = 3
  WhaleVolume = 6
  MakerSwaps = 2
  SmartScore = 75
  Instance = {i, j}
  Wallet = {"a", "b"}
  Inputs <- MCInputs
  Followed = {"b"}
  MaxArrivals = 2
  MaxTasks = 3
  MaxFaults = 0
  MaxTime = 1
SYMMETRY MCSymmetry
INVARIANT SuspectsTradedBack
CHECK_DEADLOCK FALSE
