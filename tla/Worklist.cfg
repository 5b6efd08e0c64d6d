SPECIFICATION FairSpec
CONSTANTS
  v1 = v1
  v2 = v2
  p1 = p1
  p2 = p2
  p3 = p3
  VMs = {v1, v2}
  NumThreads = 2
  Plans = {p1, p2, p3}
  VMOf <- MCVMOf
  KeyOf <- MCKeyOf
  NoPlan = NoPlan
  Nobody = Nobody
  MaxPlans = 2
  MaxCollections = 1
INVARIANTS
  NoCompilingDuringCollection
  CancelPathAssertion
  PlansAccountedFor
PROPERTIES
  ImplementsPlanLifecycle
  WaitingVMGoesOn
  EveryPlanIsCompiled
