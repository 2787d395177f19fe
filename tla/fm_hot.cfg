SPECIFICATION Spec
CONSTANTS
  f = f  p1 = p1  o1 = o1  o2 = o2  o3 = o3  o4 = o4
  NoFn = NoFn  NoSpec = NoSpec
  Functions = {f}
  Specs <- OneSpec
  SpecList <- OneSpecList
  MinReplica <- MinOne
  MaxReplica <- MaxThree
  Services = {1, 2, 3}
  HotPool = "Fargate"
  ColdPool = "Fargate"
  Ops = {o1, o2, o3}
  Kinds <- NoDelete
  Counts <- UpAndDown
  Faults <- NoFaults
  MaxFaults = 1
INVARIANT HotInstancesAreKept
SYMMETRY OpSymmetry
