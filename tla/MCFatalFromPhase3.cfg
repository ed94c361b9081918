SPECIFICATION Spec
CONSTANTS
  confirmed = confirmed
  twin = twin
  other = other
  Devices <- OneDevice
  Identity <- OneIdentity
  NoDevice = NoDevice
  MaxPlugs = 0
INVARIANTS
  FatalFromPhase3
