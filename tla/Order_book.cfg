SPECIFICATION Spec
CONSTANTS
  Books = {"abc", "xyz", "opt"}
  Cash = {"abc", "xyz"}
  Keys <- MCKeys
  Feeds <- Pairs
  Prices = {1, 2}
  Decimals <- MCDecimals
  Quantities = {1, 2}
  Matches = {"m"}
  Threads = {"main"}
  ThreadOf <- OneThread
  Modes <- AllModes
  FirstIds = {7}
  SizeMod = 4
  DirectoryFirst = TRUE
INVARIANTS TypeOK IdsDistinct ProductsDistinct Mirror QuoteCurrent ReplayMirrors
PROPERTIES TradeOfTheOrder
