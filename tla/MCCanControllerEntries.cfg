\* start() counts one entry twice.
CONSTANTS
  ack = ack
  ProtocolError <- OneError
  MaxChanges = 3
SPECIFICATION Spec
INVARIANT WarningsAreTransitions
