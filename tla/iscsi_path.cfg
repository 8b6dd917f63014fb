SPECIFICATION FairSpec
CONSTANTS
  Callers   = {f}
  Volumes   = {v}
  Devices   = {"sda"}
  MaxFaults = 0
  Namings  <- ClusterNaming
PROPERTY ConnectAttaches
