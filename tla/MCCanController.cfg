\* One protocol error; up to three status changes of the peripheral.
CONSTANTS
  ack = ack
  ProtocolError <- OneError
  MaxChanges = 3
SPECIFICATION Spec
INVARIANTS TypeOK FlagsMatchSources ProcessOwnsStatus BusStateFollowsLifecycle
  SafeUninitialized GatesMatchConfiguration SnapshotIsCoherent LatchedMeansMasked
