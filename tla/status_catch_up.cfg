SPECIFICATION FairSpec
CONSTANTS
  Services = {1, 2}
  Tasks = {1, 2}
  UsePublicIpv4 = TRUE
  Fargate = {1}
  Faults <- AllFaults
  MaxFaults = 2
INVARIANTS TypeOK RunningRowsPointToTheirTask
PROPERTIES RowsCatchUp StatusGoesForward
