\* One object; refuted.
CONSTANTS
  Mailboxes = 1
  Lengths <- AllLengths
  CallerData <- TwoPayloads
  Allocation <- AnyRole
  MaxCalls = 4
  MaxArrivals = 2
SPECIFICATION Spec
INVARIANT OkMeansNoRequest
