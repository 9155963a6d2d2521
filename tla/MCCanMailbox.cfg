\* Two objects, four calls, two received frames.
CONSTANTS
  Mailboxes = 2
  Lengths <- AllLengths
  CallerData <- TwoPayloads
  Allocation <- AnyRole
  MaxCalls = 4
  MaxArrivals = 2
SPECIFICATION Spec
INVARIANTS TypeOK RequestsAccounted FoundRequestIsGone
PROPERTIES InterfaceUndisturbed PendingFrameStable DeliveredOnce NothingUnsolicited
