SPECIFICATION AFairSpec
CONSTANTS
  f = f  small = small  large = large  r = r  auto1 = auto1  client = client
  NoFn = NoFn  NoSpec = NoSpec
  Functions = {f}
  Specs <- TwoSpecs
  SpecList <- OneFnTwoSpecs
  MinReplica <- MinReplicas
  MaxReplica <- MaxReplicas
  Services = {1, 2, 3, 4, 5}
  HotPool = "Fargate"
  ColdPool = "Fargate"
  Ops = {auto1, client}
  AutoOp = auto1
  Kinds <- CreateOnly
  Counts <- NoCounts
  Faults <- AnyFault
  MaxFaults = 2
  Reqs = {r}
  ReqFn <- Owner
  ReqCpu <- NeedCpu
  ReqMem <- NeedMem
  SpecCpu <- Cpu
  SpecMem <- Mem
  WindowLen = 2
  ThresholdNum = 4
  ThresholdDen = 5
INVARIANT ATypeOK
PROPERTIES NoRequestIsMissed WaitingIsAskedFor RowsReachTarget WaitingRequestsGetInstances
