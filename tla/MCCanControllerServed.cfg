\* Liveness of the diagnostic interrupt.
CONSTANTS
  ack = ack
  ProtocolError <- OneError
  MaxChanges = 1
SPECIFICATION FairSpec
PROPERTY CauseIsServed
