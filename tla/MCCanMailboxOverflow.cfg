\* One object, three received frames; refuted.
CONSTANTS
  Mailboxes = 1
  Lengths <- AllLengths
  CallerData <- TwoPayloads
  Allocation <- AnyRole
  MaxCalls = 4
  MaxArrivals = 3
SPECIFICATION Spec
INVARIANT OverflowsAreLosses
