\* Liveness: each context is assumed to keep executing in its own property only.
CONSTANTS
  MaxCapacity = 3
  SeqMod = 4
  u1 = u1
  u2 = u2
  v1 = v1
  v2 = v2
  Unit <- OneUnit
  UnitValue <- OneValue
  Payload <- OneElement
SPECIFICATION Spec
PROPERTIES PushReturns PopReturns
