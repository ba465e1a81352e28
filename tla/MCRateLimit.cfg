\* A token costs three ticks, and a bucket holds one.
SPECIFICATION Spec
CONSTANTS
  c1 = c1
  c2 = c2
  c3 = c3
  NULL = NULL
  Deployments <- MCDeployments
  Callers = {c1, c2, c3}
  Cost = 3
  Capacity = 4
  Second = 2
  MaxTracked = 2
INVARIANTS
  TypeOK
  Quota
  PromiseKept
PROPERTIES
  EvictionCostsACrowd
