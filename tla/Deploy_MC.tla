------------------------------ MODULE Deploy_MC ------------------------------
(* Instances of Deploy for TLC.                                             *)
EXTENDS Deploy, TLC

Traefik == <<"traefik">>

Zone(records) == [i \in Records |-> IF i \in DOMAIN records THEN records[i] ELSE None]
At(type, name) == [type |-> type, name |-> name, data |-> 0]

\* A domain that serves an older deployment: some records exist, the AAAA record
\* of www and a wildcard among them.
OldZone == {Zone(<<At("A", Root), At("AAAA", Www), At("A", "*"), At("AAAA", "traefik")>>)}

\* The instances are such that NoNeedlessRecords is due to hold.
ASSUME TidyAssumption == LabelsDiffer /\ ZonesTidy

=============================================================================
