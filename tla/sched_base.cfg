SPECIFICATION Spec
CONSTANTS
  c1 = c1  c2 = c2  c3 = c3  s1 = s1  s2 = s2  f = f  g = g
  NoReq = NoReq  NoSvc = NoSvc
  Functions = {f, g}
  Calls <- ThreeCalls
  Services <- MCServices
  FuncOf <- OneFunction
  OwnerOf <- OneOwner
  ReqCpu <- SmallAndLarge
  ReqMem <- OneUnit
  InsCpu <- OneAndTwo
  InsMem <- OneAndTwo
  MaxInt = 4
  SchedulerType = "base"
  MaxRetry = 1
  Faults <- AllFaults
  MaxFaults = 1
  MaxRestarts = 0
  InitialReady <- AllReady
INVARIANTS TypeOK NoOvercommit ServedRequestsAreRecorded EveryWaitingCallIsInOnePlace
PROPERTIES ServedInOrder HeadWaitsOnlyForRoom
