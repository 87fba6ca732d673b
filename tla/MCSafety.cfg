SPECIFICATION SafetySpec
CONSTANTS
  MaxClients = 3
  Master = 1
  MaxFd = 6
  NClients = 4
  Capacity = 5
  Sizes = {1, 2, 3}
  Values = {"zero", "x"}
  Elements = {"a", "b"}
  MaxCount = 3
  Magnitudes = {0, 1, 5, 9, 10, 95, 99, 100}
  Points = {0, 1, 2}
  Terms = 4
  Size = 3
  Requests = {q1, q2, q3}
  SongNames = {vibe}
  None = None
  Base = 3
  MaxLength = 4
  Texts = {"one", "other"}
  Widths = {1, 2, 3, 4}
  Heights = {1, 2, 3}
INVARIANTS SlotsSound CloseReturns ArenaKept DynbufHolds PmapPrefix SongsWhole TransferWhole
PROPERTIES BignumExact PinentryAgreed PipesConnected
CHECK_DEADLOCK FALSE
