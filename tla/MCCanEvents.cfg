\* One receiving and one transmitting object, four calls, two received frames.
CONSTANTS
  Mailboxes = 2
  Lengths <- NoDataOrTooLong
  CallerData <- OnePayload
  Allocation <- OneEach
  MaxCalls = 4
  MaxArrivals = 2
  Configs <- BoundaryConfigs
  InterruptConfigs <- EventConfigs
  MaxExpiries = 1
SPECIFICATION FairEventsSpec
INVARIANTS EventsTypeOK TimingRepresentsConfig NothingForgotten NoInventedCompletion LossIsVisible EventsOnce TimeoutsVisible
PROPERTY InterruptsAreServed
