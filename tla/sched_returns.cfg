SPECIFICATION FairSpec
CONSTANTS
  c1 = c1  c2 = c2  c3 = c3  s1 = s1  s2 = s2  f = f  g = g
  NoReq = NoReq  NoSvc = NoSvc
  Functions = {f, g}
  Calls <- MCCalls
  Services <- MCServices
  FuncOf <- TwoFunctions
  OwnerOf <- TwoOwners
  ReqCpu <- OneUnit
  ReqMem <- OneUnit
  InsCpu <- OneAndTwo
  InsMem <- OneAndTwo
  MaxInt = 4
  SchedulerType = "base"
  MaxRetry = 2
  Faults <- PlainFaults
  MaxFaults = 1
  MaxRestarts = 0
  InitialReady <- AllReady
PROPERTIES EveryCallReturns
