SPECIFICATION DSpec
CONSTANTS
  c1 = c1  c2 = c2  s1 = s1  f = f
  NoReq = NoReq  NoSvc = NoSvc
  Functions = {f}
  Calls <- TwoCalls
  Services <- OneService
  FuncOf <- CallsF
  OwnerOf <- OwnsF
  ReqCpu <- OneUnit
  ReqMem <- OneUnit
  InsCpu <- TwoUnits
  InsMem <- TwoUnits
  MaxInt = 4
  SchedulerType = "base"
  MaxRetry = 2
  Faults <- SubmitFaults
  MaxFaults = 1
  MaxRestarts = 1
  InitialReady <- AllReady
PROPERTIES KeepsContract AtMostOneIsCutOff
SYMMETRY CallSymmetry
