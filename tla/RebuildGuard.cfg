CONSTANTS
  NTraces = 2
  Agents = {a1, a2}
  Channels = {"web"}
  NoChannel = "none"
  ChannelOf <- MCChannelOf
  Sessions = {"s"}
  NoSession = "none"
  SessionOf <- MCShared
  Corrected = {2}
  Horizon = 2
  ChainLimit = 1
  Unpriced = {1}
  Writers = {w1, w2}
  MaxCount = 2
SPECIFICATION ProjectionsSpec
INVARIANT BothSignalsWatched
SYMMETRY Sym
CHECK_DEADLOCK FALSE
