SPECIFICATION FairSpec
CONSTANTS
  Callers   = {f, g}
  Volumes   = {v, w}
  Devices   = {"sda", "sdb"}
  MaxFaults = 1
  Namings  <- AllNamings
INVARIANTS TypeOK RecordPrepared CredentialsExplained
PROPERTIES LoginErrorExplained DeviceOfVolume EventuallyAttached
