\* A rearm erases a new fault event.
CONSTANTS
  ack = ack
  ProtocolError <- OneError
  MaxChanges = 2
SPECIFICATION Spec
INVARIANT EmptyMeansNoFault
