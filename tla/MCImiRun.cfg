SPECIFICATION FairSpec
CONSTANTS
  confirmed = confirmed
  twin = twin
  other = other
  Devices <- MCDevices
  Identity <- MCIdentity
  NoDevice = NoDevice
  MaxPlugs = 2
INVARIANTS
  TypeOK
  OnlyApprovedIsWritten
  ReportIsTruthful
  FatalMatchesReport
  SuccessIsOnMedium
  EarlyCancelCostsNothing
  NothingLeftOpen
PROPERTIES
  NeverWritesUnderUse
  Terminates
