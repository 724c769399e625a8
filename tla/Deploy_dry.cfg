SPECIFICATION Spec
CONSTANTS
  MaxDroplets = 1
  MaxRecords = 9
  Names = {"@", "www", "*", "traefik"}
  Services <- Traefik
  InitZones <- OldZone
  Kinds = {"ensure"}
  Dry = {TRUE}
  WaitIpv6 = TRUE
  Retries = 2
  MaxFaults = 0
  None = None
PROPERTY DryRunHarmless
CHECK_DEADLOCK FALSE
