SPECIFICATION Spec
CONSTANTS
  Services = {1, 2}
  Tasks = {1, 2}
  UsePublicIpv4 = TRUE
  Fargate = {1, 2}
  Faults <- NoFaults
  MaxFaults = 1
INVARIANT NoNeedToUpdate
