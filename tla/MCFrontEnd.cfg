SPECIFICATION Spec
CONSTANTS
  U64_MAX = 255
  KIB = 4
  Digits <- MCDigits
  BUF_SIZE = 4
  TicksPerSecond = 2
  MAX_COOLDOWN_SECS = 3
  DEFAULT_COOLDOWN_SECS = 2
  None = None
  NoBar = NoBar
  Chunks = 2
INVARIANTS
  TypeOK
  ScreenIsLegible
  ErrorIsClassified
  ExitTellsTheTruth
  InterruptIsHeard
  BadOptionCostsNothing
