SPECIFICATION FairSpec
CONSTANTS
  MaxDroplets = 2
  MaxRecords = 9
  Names = {"@", "www", "*", "traefik"}
  Services <- Traefik
  InitZones <- OldZone
  Kinds = {"create", "update", "ensure", "teardown"}
  Dry = {FALSE}
  WaitIpv6 = TRUE
  Retries = 2
  MaxFaults = 2
  None = None
INVARIANTS TypeOK NamesPointHere SecondAskedFor NoNeedlessRecords ExitMeansServed
PROPERTY DeploysSucceed
CHECK_DEADLOCK FALSE
